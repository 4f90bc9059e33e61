--------------------------- MODULE PaneServerProofs ---------------------------
(***************************************************************************)
(* The handlers that work on windows and panes, for any set of names, IDs  *)
(* and addresses, any number of clients, and every interleaving of their   *)
(* calls.  First what an address is, and what a swap writes through the    *)
(* ones it holds.  Then two inductive invariants: SplitInv counts, for     *)
(* every ID, the panes, the pipelines and the splits in progress; AnyInv   *)
(* keeps the session typed, within its limits and with its names unique,   *)
(* whatever is written through a pointer to a window already gone.         *)
(***************************************************************************)
EXTENDS PaneServer, SessionManagerProofs, FiniteSetTheorems

-----------------------------------------------------------------------------
(* Addresses. *)

\* The addresses at which nothing lives, in the session or in the hands of a handler.
FreeWins  == {r \in WinRefs : ~LiveWindow(r) /\ r \notin HeldWindows(h)}
FreePanes == {r \in PaneRefs : ~LivePane(r) /\ r \notin HeldPanes(h)}

\* The k-th of them exists.
WinLeft(k)  == \E r \in FreeWins : Cardinality({q \in FreeWins : q < r}) = k - 1
PaneLeft(k) == \E r \in FreePanes : Cardinality({q \in FreePanes : q < r}) = k - 1

\* The allocator of the language never runs out: whenever a handler is about to create
\* objects there are addresses for as many as it creates.  With every natural number an
\* address and finitely many requests it is always so; of a finite instance it says that
\* the bound is not what stops a handler.
AddressesSuffice ==
    \A c \in Clients :
       /\ h[c] = Idle => WinLeft(1)
       /\ h[c].at = "split_add" => PaneLeft(1)
       /\ h[c].at = "apply_restore" =>
             \A i \in DOMAIN h[c].snap.windows :
                /\ WinLeft(i)
                /\ \A j \in DOMAIN h[c].snap.windows[i].panes : PaneLeft((i - 1) * MaxPanes + j)

\* The k-th free address of a window is free and has k - 1 free ones below it.
LEMMA FreshWin ==
  ASSUME NEW k, WinLeft(k)
  PROVE  FreeWin(k) \in FreeWins /\ Cardinality({q \in FreeWins : q < FreeWin(k)}) = k - 1
BY DEF WinLeft, FreeWin, FreeWins, Kth

\* The same of the panes.
LEMMA FreshPane ==
  ASSUME NEW k, PaneLeft(k)
  PROVE  FreePane(k) \in FreePanes /\ Cardinality({q \in FreePanes : q < FreePane(k)}) = k - 1
BY DEF PaneLeft, FreePane, FreePanes, Kth

\* Where a pane with this address, or a window with that one, is.
LEMMA LivePaneSpot ==
  ASSUME windows \in Seq(WindowState), NEW r
  PROVE  LivePane(r) <=> \E p \in Spots(windows) : On(windows, p).ref = r
<1>1. ASSUME LivePane(r) PROVE \E p \in Spots(windows) : On(windows, p).ref = r
  <2>1. PICK i \in DOMAIN windows : \E j \in DOMAIN windows[i].panes : windows[i].panes[j].ref = r
    BY <1>1 DEF LivePane
  <2>2. PICK j \in DOMAIN windows[i].panes : windows[i].panes[j].ref = r
    BY <2>1
  <2>3. i \in Nat /\ j \in Nat
    BY WindowShape
  <2>4. <<i, j>> \in Spots(windows)
    BY <2>3 DEF Spots
  <2> QED BY <2>2, <2>4 DEF On
<1>2. ASSUME NEW p \in Spots(windows), On(windows, p).ref = r PROVE LivePane(r)
  <2>1. p[1] \in DOMAIN windows /\ p[2] \in DOMAIN windows[p[1]].panes
    BY DEF Spots
  <2>2. windows[p[1]].panes[p[2]].ref = r
    BY <1>2 DEF On
  <2> QED BY <2>1, <2>2 DEF LivePane
<1> QED BY <1>1, <1>2

\* A handler that holds the address of a window of the session finds that window.
LEMMA WindowOfLive ==
  ASSUME WinsApart(windows), NEW i \in DOMAIN windows
  PROVE  LiveWindow(windows[i].ref) /\ WindowOf(windows[i].ref) = windows[i]
<1>1. LiveWindow(windows[i].ref)
  BY DEF LiveWindow
<1>2. PICK k : k = CHOOSE l \in DOMAIN windows : windows[l].ref = windows[i].ref
  OBVIOUS
<1>3. k \in DOMAIN windows /\ windows[k].ref = windows[i].ref
  BY <1>2
<1>4. k = i
  BY <1>3 DEF WinsApart
<1> QED BY <1>1, <1>2, <1>4 DEF WindowOf

\* CreateWindow at a free address.
LEMMA CreateWins ==
  ASSUME windows \in Seq(WindowState), WinsApart(windows), NEW name \in Names,
         NEW ref \in WinRefs, ~LiveWindow(ref), CreateWindow(name, ref)
  PROVE  WinsApart(windows')
<1>1. PICK w : w = [ref |-> ref, name |-> name, panes |-> <<>>]
  OBVIOUS
<1>2. w \in WindowState /\ w.ref = ref
  <2>1. <<>> \in Seq(PaneState)
    BY EmptySeq
  <2> QED BY <1>1, <2>1 DEF WindowState, CreateWindow
<1>3. windows' = Append(windows, w)
  BY <1>1 DEF CreateWindow
<1>4. Len(windows) \in Nat /\ DOMAIN windows = 1 .. Len(windows)
  BY LenProperties
<1>5. /\ DOMAIN windows' = 1 .. Len(windows) + 1
      /\ windows'[Len(windows) + 1] = w
      /\ \A k \in 1 .. Len(windows) : windows'[k] = windows[k]
  <2>1. windows' \in Seq(WindowState) /\ Len(windows') = Len(windows) + 1
    BY <1>2, <1>3, AppendProperties
  <2>2. windows'[Len(windows) + 1] = w /\ \A k \in 1 .. Len(windows) : windows'[k] = windows[k]
    BY <1>2, <1>3, AppendProperties
  <2>3. DOMAIN windows' = 1 .. Len(windows')
    BY <2>1, LenProperties
  <2> QED BY <2>1, <2>2, <2>3
<1>6. \A k \in 1 .. Len(windows) : windows[k].ref # ref
  BY <1>4 DEF LiveWindow
<1>7. \A k \in DOMAIN windows' : k \in 1 .. Len(windows) \/ k = Len(windows) + 1
  BY <1>4, <1>5
<1> QED BY <1>2, <1>4, <1>5, <1>6, <1>7 DEF WinsApart

\* Panes counted window by window: no two get the same number.
LEMMA Numbering ==
  ASSUME NEW i \in Nat, NEW k \in Nat, NEW j \in 1 .. MaxPanes, NEW l \in 1 .. MaxPanes,
         (i - 1) * MaxPanes + j = (k - 1) * MaxPanes + l
  PROVE  i = k /\ j = l
<1>1. MaxPanes \in Nat /\ MaxPanes > 0
  BY MaxPanesAssumption
<1>2. ASSUME NEW a \in Nat, NEW b \in Nat, a < b, NEW m \in 1 .. MaxPanes, NEW n \in 1 .. MaxPanes
      PROVE  (a - 1) * MaxPanes + m # (b - 1) * MaxPanes + n
  <2>1. PICK d \in Nat : d = b - a - 1
    BY <1>2
  <2>2. d * MaxPanes \in Nat
    BY <1>1
  <2>3. (b - 1) * MaxPanes = (a - 1) * MaxPanes + d * MaxPanes + MaxPanes
    <3>1. b - 1 = (a - 1) + d + 1
      BY <2>1
    <3>2. ((a - 1) + d + 1) * MaxPanes = (a - 1) * MaxPanes + d * MaxPanes + MaxPanes
      BY <1>1
    <3> QED BY <3>1, <3>2
  <2>4. (a - 1) * MaxPanes \in Int
    BY <1>1
  <2> QED BY <1>1, <2>2, <2>3, <2>4
<1>3. ~(i < k)
  BY <1>2
<1>4. ~(k < i)
  BY <1>2
<1>5. i = k
  BY <1>3, <1>4
<1>6. (i - 1) * MaxPanes \in Int
  BY <1>1
<1> QED BY <1>5, <1>6, <1>1

\* ApplyRestore: the addresses it takes are different ones.
RestoreWins(s)  == [i \in DOMAIN s |-> FreeWin(i)]
RestorePanes(s) == [i \in DOMAIN s |-> [j \in DOMAIN s[i].panes |->
                                           FreePane((i - 1) * MaxPanes + j)]]

\* Those are addresses, all different: the panes are numbered window by window.
LEMMA RestoreAddresses ==
  ASSUME AddressesSuffice, NEW c \in Clients, h[c].at = "apply_restore", FitLayout(h[c].snap)
  PROVE  /\ \A i \in DOMAIN h[c].snap.windows : RestoreWins(h[c].snap.windows)[i] \in WinRefs
         /\ \A i \in DOMAIN h[c].snap.windows : \A j \in DOMAIN h[c].snap.windows[i].panes :
               RestorePanes(h[c].snap.windows)[i][j] \in PaneRefs
         /\ Distinct1(RestoreWins(h[c].snap.windows), h[c].snap.windows)
         /\ Distinct2(RestorePanes(h[c].snap.windows), h[c].snap.windows)
<1> DEFINE s    == h[c].snap.windows
           num(i, j) == (i - 1) * MaxPanes + j
<1>1. s \in Seq(SnapWindow)
  BY DEF FitLayout, SavedLayout, SnapWindow
<1>2. Len(s) \in Nat /\ DOMAIN s = 1 .. Len(s)
  BY <1>1, LenProperties
<1>3. ASSUME NEW i \in DOMAIN s
      PROVE  DOMAIN s[i].panes \subseteq 1 .. MaxPanes
  <2>1. s[i] \in SnapWindow
    BY <1>1, <1>2, ElementOfSeq
  <2>2. Len(s[i].panes) \in Nat /\ DOMAIN s[i].panes = 1 .. Len(s[i].panes)
    BY <2>1, LenProperties DEF SnapWindow
  <2>3. Len(s[i].panes) <= MaxPanes
    BY DEF FitLayout, PanesBounded
  <2> QED BY <2>2, <2>3, MaxPanesAssumption
<1>4. \A i \in DOMAIN s : WinLeft(i) /\ \A j \in DOMAIN s[i].panes : PaneLeft(num(i, j))
  BY DEF AddressesSuffice
<1>5. ASSUME NEW i \in DOMAIN s
      PROVE  FreeWin(i) \in WinRefs /\ Cardinality({q \in FreeWins : q < FreeWin(i)}) = i - 1
  BY <1>4, FreshWin DEF FreeWins
<1>6. ASSUME NEW i \in DOMAIN s, NEW j \in DOMAIN s[i].panes
      PROVE  /\ FreePane(num(i, j)) \in PaneRefs
             /\ Cardinality({q \in FreePanes : q < FreePane(num(i, j))}) = num(i, j) - 1
  <2>1. PaneLeft(num(i, j))
    BY <1>4
  <2>2. PICK n : n = num(i, j)
    OBVIOUS
  <2> HIDE DEF num
  <2>3. FreePane(n) \in FreePanes /\ Cardinality({q \in FreePanes : q < FreePane(n)}) = n - 1
    BY <2>1, <2>2, FreshPane
  <2> QED BY <2>2, <2>3 DEF FreePanes
<1>7. ASSUME NEW i \in DOMAIN s, NEW k \in DOMAIN s, FreeWin(i) = FreeWin(k) PROVE i = k
  <2>1. i - 1 = k - 1
    BY <1>5, <1>7
  <2> QED BY <2>1, <1>2
<1>8. ASSUME NEW i \in DOMAIN s, NEW k \in DOMAIN s, NEW j \in DOMAIN s[i].panes,
             NEW l \in DOMAIN s[k].panes, FreePane(num(i, j)) = FreePane(num(k, l))
      PROVE  i = k /\ j = l
  <2>1. num(i, j) - 1 = num(k, l) - 1
    BY <1>6, <1>8
  <2>2. i \in Nat /\ k \in Nat /\ j \in 1 .. MaxPanes /\ l \in 1 .. MaxPanes
    BY <1>2, <1>3
  <2>3. num(i, j) \in Int /\ num(k, l) \in Int
    BY <2>2, MaxPanesAssumption
  <2>4. num(i, j) = num(k, l)
    <3> HIDE DEF num
    <3> QED BY <2>1, <2>3
  <2> QED BY <2>2, <2>4, Numbering
<1>9. \A i \in DOMAIN s : RestoreWins(s)[i] = FreeWin(i)
  BY DEF RestoreWins
<1>10. \A i \in DOMAIN s : \A j \in DOMAIN s[i].panes : RestorePanes(s)[i][j] = FreePane(num(i, j))
  BY DEF RestorePanes
<1> HIDE DEF num
<1>11. Distinct1(RestoreWins(s), s)
  BY <1>7, <1>9 DEF Distinct1
<1>12. Distinct2(RestorePanes(s), s)
  BY <1>8, <1>10 DEF Distinct2
<1> QED BY <1>5, <1>6, <1>9, <1>10, <1>11, <1>12

\* What ApplyRestore puts in the place of the session.
LEMMA RestoreStep ==
  ASSUME AddressesSuffice, NEW c \in Clients, FitLayout(h[c].snap), ApplyRestore(c)
  PROVE  /\ Fit(windows, active)' /\ RefsApart(windows') /\ WinsApart(windows')
         /\ SavedApart(h[c].snap) => IDsApart(windows')
         /\ layouts' = layouts
<1>1. h[c].at = "apply_restore"
  BY DEF ApplyRestore
<1>2. PICK s : s = h[c].snap
  OBVIOUS
<1>3. PICK wref, pref : wref = RestoreWins(s.windows) /\ pref = RestorePanes(s.windows)
  OBVIOUS
<1>4. FitLayout(s)
  BY <1>2
<1>5. /\ \A i \in DOMAIN s.windows : wref[i] \in WinRefs
      /\ \A i \in DOMAIN s.windows : \A j \in DOMAIN s.windows[i].panes :
            pref[i][j] \in PaneRefs
      /\ Distinct1(wref, s.windows)
      /\ Distinct2(pref, s.windows)
  BY <1>1, <1>2, <1>3, RestoreAddresses
<1>6. RestoreSnapshot(s, wref, pref)
  BY <1>2, <1>3 DEF ApplyRestore, RestoreWins, RestorePanes
<1>7. Fit(windows, active)'
  BY <1>4, <1>5, <1>6, FitRestore
<1>8. RefsApart(windows') /\ WinsApart(windows') /\ (SavedApart(s) => IDsApart(windows'))
  BY <1>4, <1>5, <1>6, RestoreOwn, RestoreIDs
<1>9. layouts' = layouts
  BY <1>6 DEF RestoreSnapshot
<1> QED BY <1>2, <1>7, <1>8, <1>9

\* What a call on windows leaves: windows of their own, with panes that were there before.
LEMMA WindowCalls ==
  ASSUME Fit(windows, active), WinsApart(windows), AddressesSuffice, NEW c \in Clients,
         WindowCreate(c) \/ WindowClose(c) \/ WindowRename(c) \/ WindowFocus(c)
  PROVE  /\ h[c] = Idle /\ UNCHANGED <<pipes, h>> /\ Aside /\ layouts' = layouts
         /\ Fit(windows, active)' /\ WinsApart(windows') /\ Drawn(windows, windows')
<1>1. h[c] = Idle /\ UNCHANGED <<pipes, h>> /\ Aside
  BY DEF WindowCreate, WindowClose, WindowRename, WindowFocus, Asks
<1>2. windows \in Seq(WindowState)
  BY DEF Fit
<1>3. CASE WindowCreate(c)
  <2>1. PICK name \in Names : CreateWindow(name, FreeWin(1))
    BY <1>3 DEF WindowCreate
  <2>2. FreeWin(1) \in WinRefs /\ ~LiveWindow(FreeWin(1))
    BY <1>1, FreshWin DEF AddressesSuffice, FreeWins
  <2>3. layouts' = layouts
    BY <2>1 DEF CreateWindow
  <2>4. Drawn(windows, windows')
    BY <1>2, <2>1, <2>2, CreateSpots, SamePanesDrawn
  <2>5. WinsApart(windows')
    BY <1>2, <2>1, <2>2, CreateWins
  <2>6. Fit(windows, active)'
    BY <1>2, <2>1, <2>2, FitCreate
  <2> QED BY <1>1, <2>3, <2>4, <2>5, <2>6
<1>4. CASE WindowClose(c)
  <2>1. PICK name \in Names : CloseWindow(name)
    BY <1>4 DEF WindowClose
  <2>2. layouts' = layouts
    BY <2>1 DEF CloseWindow
  <2>3. Drawn(windows, windows') /\ WinsApart(windows')
    BY <1>2, <2>1, CloseDrawn
  <2>4. Fit(windows, active)'
    BY <1>2, <2>1, FitClose
  <2> QED BY <1>1, <2>2, <2>3, <2>4
<1>5. CASE WindowRename(c)
  <2>1. PICK name \in Names, newName \in Names : RenameWindow(name, newName)
    BY <1>5 DEF WindowRename
  <2>2. layouts' = layouts
    BY <2>1 DEF RenameWindow
  <2>3. Drawn(windows, windows') /\ WinsApart(windows')
    BY <1>2, <2>1, RenameSpots, SamePanesDrawn, RenameWins, SameWinsApart
  <2>4. Fit(windows, active)'
    BY <1>2, <2>1, FitRename
  <2> QED BY <1>1, <2>2, <2>3, <2>4
<1>6. CASE WindowFocus(c)
  <2>1. PICK name \in Names : FocusWindow(name)
    BY <1>6 DEF WindowFocus
  <2>2. layouts' = layouts /\ windows' = windows
    BY <2>1 DEF FocusWindow
  <2>3. Drawn(windows, windows') /\ WinsApart(windows')
    BY <1>2, <2>2, SamePanesRefl, SamePanesDrawn
  <2>4. Fit(windows, active)'
    BY <1>2, <2>1, FitFocus
  <2> QED BY <1>1, <2>2, <2>3, <2>4
<1> QED BY <1>3, <1>4, <1>5, <1>6

\* A set of naturals has a least element: that of the smallest interval that reaches one.
LEMMA LeastNatural ==
  ASSUME NEW S \in SUBSET Nat, S # {}
  PROVE  \E m \in S : \A n \in S : m <= n
<1>1. PICK n \in S : TRUE
  OBVIOUS
<1> DEFINE T == 0 .. n
           Q == {U \in SUBSET T : \E m \in S : U = 0 .. m}
<1>2. IsFiniteSet(T) /\ n \in Nat
  BY <1>1, FS_Interval
<1>3. IsWellFoundedOn(StrictSubsetOrdering(T), FiniteSubsetsOf(T))
  BY FS_StrictSubsetOrderingWellFounded
<1>4. FiniteSubsetsOf(T) = SUBSET T
  BY <1>2, FS_FiniteSubsetsOfFinite
<1>5. T \in Q
  BY <1>1
<1>6. PICK U \in Q : \A V \in Q : ~(<<V, U>> \in StrictSubsetOrdering(T))
  <2>1. IsWellFoundedOn(StrictSubsetOrdering(T), SUBSET T)
    BY <1>3, <1>4
  <2>2. Q \subseteq SUBSET T /\ Q # {}
    BY <1>5
  <2> HIDE DEF Q, T
  <2> QED BY <2>1, <2>2, WFMin
<1>7. \A V \in Q : V \subseteq U => V = U
  BY <1>6 DEF StrictSubsetOrdering
<1>8. PICK m \in S : U = 0 .. m
  OBVIOUS
<1>9. ASSUME NEW k \in S, k < m PROVE FALSE
  <2>1. 0 .. k \in Q /\ 0 .. k \subseteq U
    BY <1>8, <1>9
  <2>2. m \in 0 .. m /\ m \notin 0 .. k
    BY <1>9
  <2> QED BY <1>7, <1>8, <2>1, <2>2
<1> QED BY <1>9

\* There is a k-th element.
HasKth(S, k) == \E r \in S : Cardinality({q \in S : q < r}) = k - 1

\* All naturals but finitely many: there is one for every k.
LEMMA KthLeft ==
  ASSUME NEW U, IsFiniteSet(U), NEW S, S = Nat \ U
  PROVE  \A k \in Nat \ {0} : HasKth(S, k)
<1> DEFINE Below(r) == {q \in S : q < r}
           Bad == {k \in Nat \ {0} : ~ \E r \in S : Cardinality(Below(r)) = k - 1}
<1>1. ASSUME NEW r \in Nat PROVE \E q \in S : q >= r
  <2>1. Cardinality(U) \in Nat
    BY FS_CardinalityType
  <2> DEFINE I == r .. r + Cardinality(U)
  <2>2. Cardinality(I) = Cardinality(U) + 1
    BY <2>1, FS_Interval
  <2>3. ASSUME I \subseteq U PROVE FALSE
    <3>1. Cardinality(I) <= Cardinality(U)
      BY <2>3, FS_Subset
    <3> QED BY <2>1, <2>2, <3>1
  <2>4. PICK q \in I : q \notin U
    BY <2>3
  <2> QED BY <2>1, <2>4
<1>2. ASSUME NEW k \in Bad, \A n \in Bad : k <= n PROVE FALSE
  <2>1. CASE k = 1
    <3>1. S # {} /\ S \subseteq Nat
      BY <1>1
    <3>2. PICK r \in S : \A q \in S : r <= q
      BY <3>1, LeastNatural
    <3>3. Below(r) = {}
      BY <3>1, <3>2
    <3>4. Cardinality(Below(r)) = 0
      <4> HIDE DEF Below
      <4> QED BY <3>3, FS_EmptySet
    <3>5. Cardinality(Below(r)) = k - 1
      BY <2>1, <3>4
    <3> QED BY <3>5
  <2>2. CASE k # 1
    <3>1. k - 1 \in Nat \ {0} /\ k - 1 \notin Bad
      BY <1>2, <2>2
    <3>2. PICK r \in S : Cardinality(Below(r)) = (k - 1) - 1
      BY <3>1
    <3> DEFINE Above == {q \in S : q >= r + 1}
    <3>3. Above \subseteq Nat /\ Above # {}
      <4>1. r + 1 \in Nat
        OBVIOUS
      <4>2. PICK q \in S : q >= r + 1
        BY <1>1, <4>1
      <4> QED BY <4>2
    <3>4. PICK t \in Above : \A q \in Above : t <= q
      BY <3>3, LeastNatural
    <3>5. Below(t) = Below(r) \cup {r} /\ r \notin Below(r)
      BY <3>4
    <3>6. IsFiniteSet(Below(r))
      BY FS_BoundedSetOfNaturals
    <3>7. Cardinality(Below(t)) = Cardinality(Below(r)) + 1
      BY <3>5, <3>6, FS_AddElement
    <3>8. Cardinality(Below(t)) = k - 1 /\ t \in S
      BY <3>2, <3>7
    <3> QED BY <3>8
  <2> QED BY <2>1, <2>2
<1>3. Bad = {}
  <2>1. Bad # {} => \E k \in Bad : \A n \in Bad : k <= n
    <3>1. Bad \subseteq Nat
      OBVIOUS
    <3> HIDE DEF Bad
    <3> QED BY <3>1, LeastNatural
  <2> QED BY <1>2, <2>1
<1> QED BY <1>3 DEF HasKth

\* The addresses of the windows of a session and of their panes are finitely many.
WinsAt(ws)  == {ws[i].ref : i \in DOMAIN ws}
PanesAt(ws) == {On(ws, p).ref : p \in Spots(ws)}

LEMMA FewRefs ==
  ASSUME NEW ws \in Seq(WindowState), PanesBounded(ws)
  PROVE  /\ IsFiniteSet(WinsAt(ws)) /\ IsFiniteSet(PanesAt(ws))
         /\ \A i \in DOMAIN ws : \A j \in DOMAIN ws[i].panes : ws[i].panes[j].ref \in PanesAt(ws)
<1>1. Len(ws) \in Nat /\ DOMAIN ws = 1 .. Len(ws)
  BY LenProperties
<1>2. IsFiniteSet(WinsAt(ws))
  <2> DEFINE f == [i \in 1 .. Len(ws) |-> ws[i].ref]
  <2>1. f \in Surjection(1 .. Len(ws), WinsAt(ws))
    BY <1>1 DEF Surjection, WinsAt
  <2>2. IsFiniteSet(1 .. Len(ws))
    BY <1>1, FS_Interval
  <2> QED BY <2>1, <2>2, FS_Surjection
<1>3. ASSUME NEW i \in DOMAIN ws, NEW j \in DOMAIN ws[i].panes
      PROVE  i \in 1 .. Len(ws) /\ j \in 1 .. MaxPanes
  <2>1. ws[i] \in WindowState
    BY <1>1, ElementOfSeq
  <2>2. ws[i].panes \in Seq(PaneState) /\ Len(ws[i].panes) <= MaxPanes
    BY <2>1 DEF PanesBounded, WindowState
  <2>3. Len(ws[i].panes) \in Nat /\ DOMAIN ws[i].panes = 1 .. Len(ws[i].panes)
    BY <2>2, LenProperties
  <2> QED BY <1>1, <2>2, <2>3, MaxPanesAssumption
<1>4. IsFiniteSet(PanesAt(ws))
  <2> DEFINE B == (1 .. Len(ws)) \X (1 .. MaxPanes)
             f == [p \in Spots(ws) |-> On(ws, p).ref]
  <2>1. f \in Surjection(Spots(ws), PanesAt(ws))
    BY DEF Surjection, PanesAt
  <2>2. IsFiniteSet(B)
    <3>1. IsFiniteSet(1 .. Len(ws)) /\ IsFiniteSet(1 .. MaxPanes)
      BY <1>1, FS_Interval, MaxPanesAssumption
    <3> QED BY <3>1, FS_Product
  <2>3. Spots(ws) \subseteq B
    BY <1>3 DEF Spots
  <2>4. IsFiniteSet(Spots(ws))
    BY <2>2, <2>3, FS_Subset
  <2> QED BY <2>1, <2>4, FS_Surjection
<1>5. ASSUME NEW i \in DOMAIN ws, NEW j \in DOMAIN ws[i].panes
      PROVE  ws[i].panes[j].ref \in PanesAt(ws)
  <2>1. i \in Nat /\ j \in Nat
    BY <1>1, <1>3
  <2>2. <<i, j>> \in Spots(ws) /\ On(ws, <<i, j>>) = ws[i].panes[j]
    BY <2>1 DEF Spots, On
  <2> QED BY <2>2 DEF PanesAt
<1> QED BY <1>2, <1>4, <1>5

-----------------------------------------------------------------------------
(* What a swap writes. *)

\* A window within its limit.
BoundedWindow(w) == w \in WindowState /\ Len(w.panes) <= MaxPanes

\* The Split fields of the two panes of a swap have changed places.
SwapWritten(one, two) == [r \in {one, two} |->
                            IF r = one THEN [PaneOf(one) EXCEPT !.split = PaneOf(two).split]
                                       ELSE [PaneOf(two) EXCEPT !.split = PaneOf(one).split]]

\* One pane, after what was written through pointers.
Rewritten(x, written) == IF x.ref \in DOMAIN written THEN written[x.ref] ELSE x

\* What such a step does to the windows: panes are rewritten where they are; one window
\* is replaced.
WritesPanes(written) ==
    windows' = [i \in DOMAIN windows |-> [windows[i] EXCEPT !.panes =
                  [j \in DOMAIN @ |-> IF @[j].ref \in DOMAIN written
                                      THEN written[@[j].ref] ELSE @[j]]]]
WritesWindow(r, moved) ==
    windows' = [i \in DOMAIN windows |-> IF windows[i].ref = r THEN moved ELSE windows[i]]

\* Writing panes where panes are keeps the windows what they were.
LEMMA WritesTyped ==
  ASSUME Fit(windows, active), NEW written,
         \A r \in DOMAIN written : written[r] \in PaneState,
         WritesPanes(written)
  PROVE  Fit(windows', active) /\ SameWins(windows, windows')
<1>1. windows \in Seq(WindowState)
  BY DEF Fit
<1>2. PICK vs : vs = windows'
  OBVIOUS
<1>3. windows' = [i \in DOMAIN windows |-> [windows[i] EXCEPT !.panes =
                    [j \in DOMAIN @ |-> IF @[j].ref \in DOMAIN written
                                        THEN written[@[j].ref] ELSE @[j]]]]
  BY DEF WritesPanes
<1>4. ASSUME NEW i \in DOMAIN windows
      PROVE  /\ vs[i] \in WindowState
             /\ vs[i].ref = windows[i].ref
             /\ vs[i].name = windows[i].name
             /\ Len(vs[i].panes) = Len(windows[i].panes)
  <2>1. PICK ps : ps = windows[i].panes
    OBVIOUS
  <2>2. ps \in Seq(PaneState) /\ Len(ps) \in Nat /\ DOMAIN ps = 1 .. Len(ps) /\ windows[i] \in WindowState
    BY <1>1, <2>1, WindowShape
  <2>3. PICK qs : qs = [j \in 1 .. Len(ps) |-> Rewritten(ps[j], written)]
    OBVIOUS
  <2>4. vs[i] = [windows[i] EXCEPT !.panes = [j \in DOMAIN @ |-> IF @[j].ref \in DOMAIN written
                                           THEN written[@[j].ref] ELSE @[j]]]
    BY <1>2, <1>3
  <2>5. vs[i] = [windows[i] EXCEPT !.panes = qs]
    BY <2>1, <2>2, <2>3, <2>4 DEF Rewritten
  <2>6. ASSUME NEW j \in 1 .. Len(ps) PROVE Rewritten(ps[j], written) \in PaneState
    <3>1. ps[j] \in PaneState
      BY <2>2, ElementOfSeq
    <3> QED BY <3>1 DEF Rewritten
  <2>7. qs \in Seq(PaneState) /\ Len(qs) = Len(ps)
    <3>1. qs \in [1 .. Len(ps) -> PaneState]
      BY <2>3, <2>6
    <3> QED BY <2>2, <3>1, FunctionIsSeq
  <2> QED BY <2>1, <2>2, <2>5, <2>7 DEF WindowState
<1>5. vs = [i \in DOMAIN windows |-> vs[i]]
  BY <1>2, <1>3
<1> QED BY <1>2, <1>4, <1>5, SameShape

\* So does writing one window back with a pane of it replaced, whether the window is still
\* in the session or not and whatever the slot.
LEMMA WritesOneTyped ==
  ASSUME Fit(windows, active), WinsApart(windows), NEW r, NEW pane \in PaneState, NEW slot,
         NEW moved, moved = [WindowOf(r) EXCEPT !.panes[slot] = pane],
         BoundedWindow(WindowOf(r)), WritesWindow(r, moved)
  PROVE  /\ Fit(windows', active) /\ SameWins(windows, windows')
         /\ BoundedWindow(moved)
<1>1. windows \in Seq(WindowState)
  BY DEF Fit
<1>2. PICK w : w = WindowOf(r)
  OBVIOUS
<1>3. PICK ps : ps = w.panes
  OBVIOUS
<1>4. /\ w \in WindowState /\ Len(ps) <= MaxPanes /\ ps \in Seq(PaneState)
      /\ Len(ps) \in Nat /\ DOMAIN ps = 1 .. Len(ps)
  BY <1>2, <1>3, LenProperties DEF BoundedWindow, WindowState
<1>5. PICK qs : qs = [ps EXCEPT ![slot] = pane]
  OBVIOUS
<1>6. qs \in Seq(PaneState) /\ Len(qs) = Len(ps)
  <2>1. qs \in [1 .. Len(ps) -> PaneState]
    <3>1. \A j \in 1 .. Len(ps) : ps[j] \in PaneState
      BY <1>4, ElementOfSeq
    <3> QED BY <3>1, <1>4, <1>5
  <2> QED BY <1>4, <2>1, FunctionIsSeq
<1>7. moved = [w EXCEPT !.panes = qs]
  BY <1>2, <1>3, <1>5
<1>8. moved \in WindowState /\ moved.ref = w.ref /\ moved.name = w.name /\ moved.panes = qs
  BY <1>4, <1>6, <1>7 DEF WindowState
<1>9. BoundedWindow(moved)
  BY <1>4, <1>6, <1>8 DEF BoundedWindow
<1>10. PICK vs : vs = windows'
  OBVIOUS
<1>11. windows' = [i \in DOMAIN windows |-> IF windows[i].ref = r THEN moved ELSE windows[i]]
  BY DEF WritesWindow
<1>12. ASSUME NEW i \in DOMAIN windows
       PROVE  /\ vs[i] \in WindowState
              /\ vs[i].ref = windows[i].ref
              /\ vs[i].name = windows[i].name
              /\ Len(vs[i].panes) = Len(windows[i].panes)
  <2>1. windows[i] \in WindowState
    BY <1>1, WindowShape
  <2>2. CASE windows[i].ref = r
    <3>1. w = windows[i]
      BY <1>2, <2>2, WindowOfLive
    <3>2. vs[i] = moved
      BY <1>10, <1>11, <2>2
    <3> QED BY <1>3, <1>6, <1>8, <3>1, <3>2
  <2>3. CASE windows[i].ref # r
    BY <1>10, <1>11, <2>1, <2>3
  <2> QED BY <2>2, <2>3
<1>13. vs = [i \in DOMAIN windows |-> vs[i]]
  BY <1>10, <1>11
<1> QED BY <1>9, <1>10, <1>12, <1>13, SameShape

\* What a swap writes are panes.
LEMMA SwapWrittenTyped ==
  ASSUME NEW one, NEW two, PaneOf(one) \in PaneState, PaneOf(two) \in PaneState,
         NEW written, written = SwapWritten(one, two)
  PROVE  \A r \in DOMAIN written : written[r] \in PaneState
<1>1. PICK a, b : a = PaneOf(one) /\ b = PaneOf(two)
  OBVIOUS
<1>2. a \in PaneState /\ b \in PaneState
  BY <1>1
<1>3. [a EXCEPT !.split = b.split] \in PaneState /\ [b EXCEPT !.split = a.split] \in PaneState
  BY <1>2 DEF PaneState
<1>4. written = [r \in {one, two} |-> IF r = one THEN [a EXCEPT !.split = b.split]
                                                 ELSE [b EXCEPT !.split = a.split]]
  BY <1>1 DEF SwapWritten
<1> QED BY <1>3, <1>4

-----------------------------------------------------------------------------
(* What the embedding program starts with. *)

\* A session the manager could have built: typed, within its limits, its names unique.
StartsFit == Fit(InitWindows, 0)

\* No two of its panes have one ID.
StartsApart == \A p, q \in Spots(InitWindows) :
                  On(InitWindows, p).id = On(InitWindows, q).id => p = q

\* Its panes and windows are objects of their own.
StartsOwn == RefsApart(InitWindows) /\ WinsApart(InitWindows)

\* The pane of a split that has not been given an address yet.
NewPane == [ref : {0}, id : TargetIDs, split : Splits]

-----------------------------------------------------------------------------
(* Splits, of any number of clients: the panes of an ID are counted. *)

\* The requests considered here: they take no pane out but to undo a split.
SplitOps == {"windowCreate", "windowRename", "windowFocus", "split", "layoutSave"}

\* Where the panes of an ID are.
OfID(ws, id) == {p \in Spots(ws) : On(ws, p).id = id}

\* The splits that have put a pane of this ID in and not yet settled it.
Holding(id) == {c \in Clients : /\ h[c].at \in {"split_register", "split_undo"}
                                /\ h[c].id = id}

\* Where a request may be.
SplitStage(q) ==
    \/ q = Idle
    \/ q.at \in {"broadcast", "save_store"}
    \/ q.at \in {"split_name", "split_add"} /\ q.pane \in NewPane
    \/ q.at = "split_register" /\ q.id \in TargetIDs
    \/ q.at = "split_undo" /\ q.id \in pipes

\* Each pane of an ID is fed by the pipeline of that ID or belongs to a split in progress.
Accounted(id) ==
    /\ IsFiniteSet(OfID(windows, id))
    /\ IsFiniteSet(Holding(id))
    /\ Cardinality(OfID(windows, id)) = Cardinality(Holding(id)) + (IF id \in pipes THEN 1 ELSE 0)

\* The inductive invariant.
SplitInv == /\ Fit(windows, active)
            /\ pipes \subseteq TargetIDs
            /\ DOMAIN h = Clients
            /\ \A c \in Clients : SplitStage(h[c])
            /\ \A id \in TargetIDs : Accounted(id)

\* At the start every ID has a pipeline exactly if it has its one pane.
LEMMA SplitInit == ASSUME StartsFit, StartsApart, Init PROVE SplitInv
<1>1. windows = InitWindows /\ active = 0 /\ pipes = {id \in TargetIDs : HasPane(id)}
      /\ h = [c \in Clients |-> Idle]
  BY DEF Init
<1>2. Fit(windows, active)
  BY <1>1 DEF StartsFit
<1>3. \A c \in Clients : SplitStage(h[c])
  BY <1>1 DEF SplitStage
<1>4. ASSUME NEW id \in TargetIDs PROVE Accounted(id)
  <2>1. Holding(id) = {}
    BY <1>1 DEF Holding, Idle
  <2>2. IsFiniteSet(Holding(id)) /\ Cardinality(Holding(id)) = 0
    BY <2>1, FS_EmptySet
  <2>3. id \in pipes <=> OfID(windows, id) # {}
    <3>1. windows \in Seq(WindowState)
      BY <1>2 DEF Fit
    <3>2. id \in pipes <=> HasPane(id)
      BY <1>1
    <3>3. HasPane(id) <=> \E p \in Spots(windows) : On(windows, p).id = id
      BY <3>1, HasPaneSpot
    <3> QED BY <3>2, <3>3 DEF OfID
  <2>4. CASE OfID(windows, id) = {}
    BY <2>2, <2>3, <2>4, FS_EmptySet DEF Accounted
  <2>5. CASE OfID(windows, id) # {}
    <3>1. PICK p : OfID(windows, id) = {p}
      <4>1. PICK p \in OfID(windows, id) : TRUE
        BY <2>5
      <4>2. \A q \in OfID(windows, id) : q = p
        BY <1>1, <4>1 DEF OfID, StartsApart
      <4> QED BY <4>1, <4>2
    <3>2. IsFiniteSet(OfID(windows, id)) /\ Cardinality(OfID(windows, id)) = 1
      BY <3>1, FS_Singleton
    <3> QED BY <2>2, <2>3, <2>5, <3>2 DEF Accounted
  <2> QED BY <2>4, <2>5
<1> QED BY <1>1, <1>2, <1>3, <1>4 DEF SplitInv

\* One request goes on: the others hold what they held.
LEMMA HoldingOthers ==
  ASSUME DOMAIN h = Clients, NEW c \in Clients, NEW next, Goto(c, next), NEW id
  PROVE  Holding(id)' = IF next.at \in {"split_register", "split_undo"} /\ next.id = id
                        THEN Holding(id) \cup {c} ELSE Holding(id) \ {c}
<1>1. h' = [h EXCEPT ![c] = next]
  BY DEF Goto
<1>2. \A d \in Clients : h'[d] = IF d = c THEN next ELSE h[d]
  BY <1>1
<1> QED BY <1>2 DEF Holding

\* Steps that move no pane count the same.
LEMMA SamePanesOfID ==
  ASSUME NEW ws, NEW vs, SamePanes(ws, vs), NEW id
  PROVE  OfID(vs, id) = OfID(ws, id)
BY DEF SamePanes, OfID

\* A pane added is one more of its ID.
LEMMA OfIDAdded ==
  ASSUME NEW ws, NEW vs, NEW s, NEW pane, AddsAt(ws, vs, s, pane), NEW id,
         IsFiniteSet(OfID(ws, id))
  PROVE  /\ IsFiniteSet(OfID(vs, id))
         /\ Cardinality(OfID(vs, id)) =
               Cardinality(OfID(ws, id)) + (IF pane.id = id THEN 1 ELSE 0)
<1>1. Cardinality(OfID(ws, id)) \in Nat
  BY FS_CardinalityType
<1>2. CASE pane.id = id
  <2>1. OfID(vs, id) = OfID(ws, id) \cup {s} /\ s \notin OfID(ws, id)
    BY <1>2 DEF AddsAt, OfID
  <2> QED BY <2>1, <1>2, FS_AddElement
<1>3. CASE pane.id # id
  <2>1. OfID(vs, id) = OfID(ws, id)
    BY <1>3 DEF AddsAt, OfID
  <2> QED BY <2>1, <1>1, <1>3
<1> QED BY <1>2, <1>3

\* A pane taken out is one less of its ID: the others can be matched with those that stay.
LEMMA OfIDRemoved ==
  ASSUME NEW ws, NEW vs, NEW s \in Spots(ws), NEW back,
         DrawnFrom(ws, vs, Spots(ws) \ {s}, back), NEW id,
         IsFiniteSet(OfID(ws, id))
  PROVE  /\ IsFiniteSet(OfID(vs, id))
         /\ Cardinality(OfID(vs, id)) =
               Cardinality(OfID(ws, id)) - (IF On(ws, s).id = id THEN 1 ELSE 0)
<1>1. PICK T : T = OfID(ws, id) \ {s}
  OBVIOUS
<1>2. IsFiniteSet(T) /\ Cardinality(T) = Cardinality(OfID(ws, id)) - (IF On(ws, s).id = id THEN 1 ELSE 0)
  <2>1. s \in OfID(ws, id) <=> On(ws, s).id = id
    BY DEF OfID
  <2>2. Cardinality(OfID(ws, id)) \in Nat
    BY FS_CardinalityType
  <2> QED BY <1>1, <2>1, <2>2, FS_RemoveElement
<1>3. /\ back \in [Spots(vs) -> Spots(ws) \ {s}]
      /\ \A p, q \in Spots(vs) : back[p] = back[q] => p = q
      /\ \A q \in Spots(ws) \ {s} : \E p \in Spots(vs) : back[p] = q
      /\ \A p \in Spots(vs) : On(vs, p) = On(ws, back[p])
  BY DEF DrawnFrom, Bijection, Injection, Surjection, IsInjective
<1>4. PICK f : f = [q \in T |-> CHOOSE p \in Spots(vs) : back[p] = q]
  OBVIOUS
<1>5. ASSUME NEW q \in T PROVE f[q] \in OfID(vs, id) /\ back[f[q]] = q
  <2>1. q \in Spots(ws) \ {s} /\ On(ws, q).id = id
    BY <1>1 DEF OfID
  <2>2. f[q] \in Spots(vs) /\ back[f[q]] = q
    BY <2>1, <1>3, <1>4
  <2>3. On(vs, f[q]).id = id
    BY <2>1, <2>2, <1>3
  <2> QED BY <2>2, <2>3 DEF OfID
<1>6. f \in [T -> OfID(vs, id)]
  BY <1>4, <1>5
<1>7. \A q, r \in T : f[q] = f[r] => q = r
  BY <1>5
<1>8. ASSUME NEW p \in OfID(vs, id) PROVE \E q \in T : f[q] = p
  <2>1. p \in Spots(vs) /\ On(vs, p).id = id
    BY DEF OfID
  <2>2. back[p] \in T
    BY <2>1, <1>1, <1>3 DEF OfID
  <2>3. f[back[p]] \in Spots(vs) /\ back[f[back[p]]] = back[p]
    BY <2>2, <1>5 DEF OfID
  <2>4. f[back[p]] = p
    BY <2>1, <2>3, <1>3
  <2> QED BY <2>2, <2>4
<1>9. f \in Bijection(T, OfID(vs, id))
  BY <1>6, <1>7, <1>8 DEF Bijection, Injection, Surjection, IsInjective
<1>10. ExistsBijection(T, OfID(vs, id))
  BY <1>9 DEF ExistsBijection
<1>11. IsFiniteSet(OfID(vs, id)) /\ Cardinality(OfID(vs, id)) = Cardinality(T)
  BY <1>2, <1>10, FS_Bijection
<1> QED BY <1>2, <1>11

\* A step that neither adds nor takes away panes, nor leaves or enters the two stages
\* of a split that hold one.
LEMMA AccountedSame ==
  ASSUME SplitInv, SamePanes(windows, windows'), pipes' = pipes,
         \A id \in TargetIDs : Holding(id)' = Holding(id)
  PROVE  \A id \in TargetIDs : Accounted(id)'
<1> SUFFICES ASSUME NEW id \in TargetIDs PROVE Accounted(id)'
  OBVIOUS
<1>1. Accounted(id)
  BY DEF SplitInv
<1>2. OfID(windows', id) = OfID(windows, id)
  BY SamePanesOfID
<1>3. Holding(id)' = Holding(id)
  OBVIOUS
<1> QED BY <1>1, <1>2, <1>3 DEF Accounted

\* The stages of the others.
LEMMA StagesGoOn ==
  ASSUME DOMAIN h = Clients, \A d \in Clients : SplitStage(h[d]),
         NEW c \in Clients, NEW next, Goto(c, next), SplitStage(next)',
         pipes \subseteq pipes'
  PROVE  DOMAIN h' = Clients /\ \A d \in Clients : SplitStage(h[d])'
<1>1. h' = [h EXCEPT ![c] = next]
  BY DEF Goto
<1>2. ASSUME NEW d \in Clients PROVE SplitStage(h[d])'
  <2>1. CASE d = c
    BY <2>1, <1>1
  <2>2. CASE d # c
    <3>1. h'[d] = h[d] /\ SplitStage(h[d])
      BY <2>2, <1>1
    <3> QED BY <3>1 DEF SplitStage
  <2> QED BY <2>1, <2>2
<1> QED BY <1>1, <1>2

\* A call of the manager that no stage knows of.
LEMMA SplitAside ==
  ASSUME SplitInv, Fit(windows, active)', SamePanes(windows, windows'),
         UNCHANGED <<pipes, h>>
  PROVE  SplitInv'
<1>1. \A id \in TargetIDs : Holding(id)' = Holding(id)
  BY DEF Holding
<1>2. \A id \in TargetIDs : Accounted(id)'
  BY <1>1, AccountedSame
<1>3. /\ (pipes \subseteq TargetIDs)' /\ DOMAIN h' = Clients
      /\ \A c \in Clients : SplitStage(h[c])'
  BY DEF SplitInv, SplitStage
<1> QED BY <1>2, <1>3 DEF SplitInv

\* A request goes from one stage that holds no pane to another.
LEMMA SplitGoesOn ==
  ASSUME SplitInv, UNCHANGED <<windows, active, pipes>>, NEW c \in Clients, NEW next,
         Goto(c, next), SplitStage(next),
         h[c].at \notin {"split_register", "split_undo"} \/ h[c].id = next.id,
         (h[c].at \in {"split_register", "split_undo"}) <=>
            (next.at \in {"split_register", "split_undo"})
  PROVE  SplitInv'
<1>1. DOMAIN h = Clients /\ \A d \in Clients : SplitStage(h[d])
  BY DEF SplitInv
<1>2. windows' = windows /\ active' = active /\ pipes' = pipes
  OBVIOUS
<1>3. SplitStage(next)'
  BY <1>2 DEF SplitStage
<1>4. DOMAIN h' = Clients /\ \A d \in Clients : SplitStage(h[d])'
  BY <1>1, <1>2, <1>3, StagesGoOn
<1>5. ASSUME NEW id \in TargetIDs PROVE Holding(id)' = Holding(id)
  <2>1. Holding(id)' = IF next.at \in {"split_register", "split_undo"} /\ next.id = id
                       THEN Holding(id) \cup {c} ELSE Holding(id) \ {c}
    BY <1>1, HoldingOthers
  <2>2. c \in Holding(id) <=> h[c].at \in {"split_register", "split_undo"} /\ h[c].id = id
    BY DEF Holding
  <2> QED BY <2>1, <2>2
<1>6. \A id \in TargetIDs : Accounted(id)'
  BY <1>2, <1>5, AccountedSame, SamePanesRefl
<1>7. Fit(windows, active)' /\ (pipes \subseteq TargetIDs)'
  BY <1>2 DEF SplitInv
<1> QED BY <1>4, <1>6, <1>7 DEF SplitInv

\* The name of the parent's window is read.
LEMMA SplitNameAccounts ==
  ASSUME SplitInv, NEW c \in Clients, SplitName(c)
  PROVE  SplitInv'
<1>1. PICK name : name = WindowOf(h[c].wins[1]).name
  OBVIOUS
<1>2. PICK pane : pane = h[c].pane
  OBVIOUS
<1>3. PICK next : next = [at |-> "split_add", name |-> name, pane |-> pane]
  OBVIOUS
<1>4. h[c].at = "split_name" /\ UNCHANGED <<mvars, pipes>> /\ Goto(c, next)
  BY <1>1, <1>2, <1>3 DEF SplitName
<1>5. pane \in NewPane
  BY <1>2, <1>4 DEF SplitInv, SplitStage, Idle
<1>6. SplitStage(next) /\ next.at = "split_add"
  BY <1>3, <1>5 DEF SplitStage
<1> QED BY <1>4, <1>6, SplitGoesOn DEF mvars

\* AddPane puts in a pane and the split holds it.
LEMMA SplitAddAccounts ==
  ASSUME SplitInv, AddressesSuffice, NEW c \in Clients, SplitAdd(c)
  PROVE  SplitInv'
<1>1. DOMAIN h = Clients /\ (\A d \in Clients : SplitStage(h[d])) /\ Fit(windows, active)
      /\ pipes \subseteq TargetIDs
  BY DEF SplitInv
<1>2. h[c].at = "split_add" /\ pipes' = pipes
  BY DEF SplitAdd
<1>3. h[c].pane \in NewPane
  BY <1>1, <1>2 DEF SplitStage, Idle
<1>4. PICK name : name = h[c].name
  OBVIOUS
<1>5. PICK pane : pane = [h[c].pane EXCEPT !.ref = FreePane(1)]
  OBVIOUS
<1>6. pane \in PaneState /\ pane.id = h[c].pane.id /\ pane.id \in TargetIDs
  <2>1. FreePane(1) \in PaneRefs
    BY <1>2, FreshPane DEF AddressesSuffice, FreePanes
  <2> QED BY <1>3, <1>5, <2>1 DEF NewPane, PaneState
<1>7. \/ /\ AddPane(name, pane)
         /\ Goto(c, [at |-> "split_register", id |-> pane.id, panes |-> <<pane.ref>>])
      \/ Goto(c, Idle) /\ UNCHANGED mvars
  BY <1>4, <1>5 DEF SplitAdd
<1>8. CASE Goto(c, Idle) /\ UNCHANGED mvars
  <2>1. SplitStage(Idle) /\ Idle.at = "idle"
    BY DEF SplitStage, Idle
  <2> QED BY <1>2, <1>8, <2>1, SplitGoesOn DEF mvars
<1>9. CASE AddPane(name, pane) /\ Goto(c, [at |-> "split_register", id |-> pane.id, panes |-> <<pane.ref>>])
  <2>1. PICK next : next = [at |-> "split_register", id |-> pane.id, panes |-> <<pane.ref>>]
    OBVIOUS
  <2>2. Goto(c, next) /\ next.at = "split_register" /\ next.id = pane.id
    BY <1>9, <2>1
  <2>3. SplitStage(next)'
    BY <2>2, <1>6 DEF SplitStage
  <2>4. DOMAIN h' = Clients /\ \A d \in Clients : SplitStage(h[d])'
    BY <1>1, <1>2, <2>2, <2>3, StagesGoOn
  <2>5. windows \in Seq(WindowState)
    BY <1>1 DEF Fit
  <2>6. PICK s \in Nat \X Nat : AddsAt(windows, windows', s, pane)
    BY <1>6, <1>9, <2>5, AddPaneSpot
  <2>7. Fit(windows, active)'
    BY <1>1, <1>6, <1>9, FitAddPane
  <2>8. ASSUME NEW id \in TargetIDs PROVE Accounted(id)'
    <3>1. Accounted(id)
      BY DEF SplitInv
    <3>2. c \notin Holding(id)
      BY <1>2 DEF Holding
    <3>3. Holding(id)' = IF pane.id = id THEN Holding(id) \cup {c} ELSE Holding(id)
      BY <1>1, <2>2, <3>2, HoldingOthers
    <3>4. /\ IsFiniteSet(OfID(windows, id))
          /\ IsFiniteSet(Holding(id))
      BY <3>1 DEF Accounted
    <3>5. /\ IsFiniteSet(Holding(id)')
          /\ Cardinality(Holding(id)') = Cardinality(Holding(id)) + (IF pane.id = id THEN 1 ELSE 0)
      <4>1. Cardinality(Holding(id)) \in Nat
        BY <3>4, FS_CardinalityType
      <4>2. CASE pane.id = id
        BY <3>2, <3>3, <3>4, <4>1, <4>2, FS_AddElement
      <4>3. CASE pane.id # id
        BY <3>3, <3>4, <4>1, <4>3
      <4> QED BY <4>2, <4>3
    <3>6. /\ IsFiniteSet(OfID(windows', id))
          /\ Cardinality(OfID(windows', id)) =
               Cardinality(OfID(windows, id)) + (IF pane.id = id THEN 1 ELSE 0)
      BY <2>6, <3>4, OfIDAdded
    <3>7. Cardinality(Holding(id)) \in Nat /\ Cardinality(OfID(windows, id)) \in Nat
      BY <3>4, FS_CardinalityType
    <3>8. Cardinality(OfID(windows', id)) = Cardinality(Holding(id)') + (IF id \in pipes' THEN 1 ELSE 0)
      <4>1. Cardinality(OfID(windows, id)) = Cardinality(Holding(id)) + (IF id \in pipes THEN 1 ELSE 0)
        BY <3>1 DEF Accounted
      <4> QED BY <1>2, <3>5, <3>6, <3>7, <4>1
    <3> QED BY <3>5, <3>6, <3>8 DEF Accounted
  <2> QED BY <1>1, <1>2, <2>4, <2>7, <2>8 DEF SplitInv
<1> QED BY <1>7, <1>8, <1>9

\* Register either gives the ID its pipeline, and the split lets go of its pane, or finds
\* that it has one, and the split goes on to undo.
LEMMA SplitRegisterAccounts ==
  ASSUME SplitInv, NEW c \in Clients, SplitRegister(c)
  PROVE  SplitInv'
<1>1. DOMAIN h = Clients /\ (\A d \in Clients : SplitStage(h[d])) /\ Fit(windows, active)
      /\ pipes \subseteq TargetIDs
  BY DEF SplitInv
<1>2. h[c].at = "split_register" /\ UNCHANGED mvars
  BY DEF SplitRegister
<1>3. h[c].id \in TargetIDs
  BY <1>1, <1>2 DEF SplitStage, Idle
<1>4. CASE h[c].id \in pipes
  <2>1. PICK next : next = [h[c] EXCEPT !.at = "split_undo"]
    OBVIOUS
  <2>2. Goto(c, next) /\ UNCHANGED pipes
    BY <1>4, <2>1 DEF SplitRegister
  <2>3. next.at = "split_undo" /\ next.id = h[c].id
    BY <1>2, <2>1, <2>2 DEF SplitRegister
  <2>4. SplitStage(next)
    BY <2>3, <1>4 DEF SplitStage
  <2> QED BY <1>2, <2>2, <2>3, <2>4, SplitGoesOn DEF mvars
<1>5. CASE h[c].id \notin pipes
  <2>1. pipes' = pipes \cup {h[c].id} /\ Goto(c, [at |-> "broadcast"])
    BY <1>5 DEF SplitRegister
  <2>2. SplitStage([at |-> "broadcast"])'
    BY DEF SplitStage
  <2>3. DOMAIN h' = Clients /\ \A d \in Clients : SplitStage(h[d])'
    BY <1>1, <2>1, <2>2, StagesGoOn
  <2>4. windows' = windows /\ active' = active
    BY <1>2 DEF mvars
  <2>5. ASSUME NEW id \in TargetIDs PROVE Accounted(id)'
    <3>1. Accounted(id)
      BY DEF SplitInv
    <3>2. Holding(id)' = Holding(id) \ {c}
      BY <1>1, <2>1, HoldingOthers
    <3>3. c \in Holding(id) <=> h[c].id = id
      BY <1>2 DEF Holding
    <3>4. IsFiniteSet(Holding(id)) /\ IsFiniteSet(OfID(windows, id))
          /\ Cardinality(OfID(windows, id)) = Cardinality(Holding(id)) + (IF id \in pipes THEN 1 ELSE 0)
      BY <3>1 DEF Accounted
    <3>5. Cardinality(Holding(id)) \in Nat
      BY <3>4, FS_CardinalityType
    <3>6. /\ IsFiniteSet(Holding(id)')
          /\ Cardinality(Holding(id)') = IF h[c].id = id THEN Cardinality(Holding(id)) - 1
                                                         ELSE Cardinality(Holding(id))
      BY <3>2, <3>3, <3>4, FS_RemoveElement
    <3>7. Cardinality(OfID(windows', id)) = Cardinality(Holding(id)') + (IF id \in pipes' THEN 1 ELSE 0)
      <4>1. CASE h[c].id = id
        BY <1>5, <2>1, <2>4, <3>4, <3>5, <3>6, <4>1
      <4>2. CASE h[c].id # id
        <5>1. id \in pipes' <=> id \in pipes
          BY <2>1, <4>2
        <5> QED BY <2>4, <3>4, <3>5, <3>6, <4>2, <5>1
      <4> QED BY <4>1, <4>2
    <3> QED BY <2>4, <3>4, <3>6, <3>7 DEF Accounted
  <2>6. Fit(windows, active)' /\ pipes' \subseteq TargetIDs
    BY <1>1, <1>3, <2>1, <2>4
  <2> QED BY <2>3, <2>5, <2>6 DEF SplitInv
<1> QED BY <1>4, <1>5

\* The undo takes out a pane of the ID, perhaps another one than the split put in: the
\* number is right either way.
LEMMA SplitUndoAccounts ==
  ASSUME SplitInv, NEW c \in Clients, SplitUndo(c)
  PROVE  SplitInv'
<1>1. DOMAIN h = Clients /\ (\A d \in Clients : SplitStage(h[d])) /\ Fit(windows, active)
      /\ pipes \subseteq TargetIDs
  BY DEF SplitInv
<1>2. h[c].at = "split_undo" /\ pipes' = pipes /\ Goto(c, Idle)
  BY DEF SplitUndo
<1>3. PICK x : x = h[c].id
  OBVIOUS
<1>4. x \in pipes /\ x \in TargetIDs
  BY <1>1, <1>2, <1>3 DEF SplitStage, Idle
<1>5. windows \in Seq(WindowState)
  BY <1>1 DEF Fit
<1>6. HasPane(x)
  <2>1. c \in Holding(x)
    BY <1>2, <1>3 DEF Holding
  <2>2. /\ IsFiniteSet(Holding(x)) /\ IsFiniteSet(OfID(windows, x))
        /\ Cardinality(OfID(windows, x)) = Cardinality(Holding(x)) + 1
    BY <1>4 DEF SplitInv, Accounted
  <2>3. Cardinality(Holding(x)) \in Nat
    BY <2>2, FS_CardinalityType
  <2>4. OfID(windows, x) # {}
    BY <2>2, <2>3, FS_EmptySet
  <2> QED BY <1>5, <2>4, HasPaneSpot DEF OfID
<1>7. RemovePane(x)
  BY <1>3, <1>6 DEF SplitUndo
<1>8. PICK s \in Spots(windows) :
        /\ On(windows, s).id = x
        /\ \E back : DrawnFrom(windows, windows', Spots(windows) \ {s}, back)
  BY <1>5, <1>7, RemovePaneSpot
<1>9. PICK back : DrawnFrom(windows, windows', Spots(windows) \ {s}, back)
  BY <1>8
<1>10. SplitStage(Idle)' /\ Idle.at = "idle"
  BY DEF SplitStage, Idle
<1>11. DOMAIN h' = Clients /\ \A d \in Clients : SplitStage(h[d])'
  BY <1>1, <1>2, <1>10, StagesGoOn
<1>12. Fit(windows, active)'
  BY <1>1, <1>4, <1>7, FitRemovePane
<1>13. ASSUME NEW id \in TargetIDs PROVE Accounted(id)'
  <2>1. Accounted(id)
    BY DEF SplitInv
  <2>2. Holding(id)' = Holding(id) \ {c}
    BY <1>1, <1>2, <1>10, HoldingOthers
  <2>3. c \in Holding(id) <=> x = id
    BY <1>2, <1>3 DEF Holding
  <2>4. IsFiniteSet(Holding(id)) /\ IsFiniteSet(OfID(windows, id))
        /\ Cardinality(OfID(windows, id)) = Cardinality(Holding(id)) + (IF id \in pipes THEN 1 ELSE 0)
    BY <2>1 DEF Accounted
  <2>5. Cardinality(Holding(id)) \in Nat
    BY <2>4, FS_CardinalityType
  <2>6. /\ IsFiniteSet(Holding(id)')
        /\ Cardinality(Holding(id)') = IF x = id THEN Cardinality(Holding(id)) - 1
                                                 ELSE Cardinality(Holding(id))
    BY <2>2, <2>3, <2>4, FS_RemoveElement
  <2>7. /\ IsFiniteSet(OfID(windows', id))
        /\ Cardinality(OfID(windows', id)) =
              Cardinality(OfID(windows, id)) - (IF On(windows, s).id = id THEN 1 ELSE 0)
    BY <1>9, <2>4, OfIDRemoved
  <2>8. Cardinality(OfID(windows', id)) = Cardinality(Holding(id)') + (IF id \in pipes' THEN 1 ELSE 0)
    BY <1>2, <1>8, <2>4, <2>5, <2>6, <2>7
  <2> QED BY <2>6, <2>7, <2>8 DEF Accounted
<1> QED BY <1>1, <1>2, <1>11, <1>12, <1>13 DEF SplitInv

\* Every step of these requests preserves the invariant.
LEMMA SplitNext ==
  ASSUME Ops \subseteq SplitOps, SplitInv, AddressesSuffice, [Next]_vars
  PROVE  SplitInv'
<1>1. DOMAIN h = Clients /\ (\A d \in Clients : SplitStage(h[d])) /\ Fit(windows, active)
      /\ pipes \subseteq TargetIDs /\ windows \in Seq(WindowState)
  BY DEF SplitInv, Fit
<1>2. ASSUME NEW c \in Clients, WindowCreate(c) PROVE SplitInv'
  <2>1. h[c] = Idle /\ UNCHANGED <<pipes, h>>
    BY <1>2 DEF WindowCreate, Asks
  <2>2. PICK name \in Names : CreateWindow(name, FreeWin(1))
    BY <1>2 DEF WindowCreate
  <2>3. FreeWin(1) \in WinRefs
    BY <2>1, FreshWin DEF AddressesSuffice, FreeWins
  <2> QED BY <1>1, <2>1, <2>2, <2>3, FitCreate, CreateSpots, SplitAside
<1>3. ASSUME NEW c \in Clients, WindowRename(c) PROVE SplitInv'
  <2>1. PICK name \in Names, newName \in Names : RenameWindow(name, newName)
    BY <1>3 DEF WindowRename
  <2>2. UNCHANGED <<pipes, h>>
    BY <1>3 DEF WindowRename
  <2> QED BY <1>1, <2>1, <2>2, FitRename, RenameSpots, SplitAside
<1>4. ASSUME NEW c \in Clients, WindowFocus(c) PROVE SplitInv'
  <2>1. PICK name \in Names : FocusWindow(name)
    BY <1>4 DEF WindowFocus
  <2>2. UNCHANGED <<pipes, h>> /\ windows' = windows
    BY <1>4 DEF WindowFocus, FocusWindow
  <2> QED BY <1>1, <2>1, <2>2, FitFocus, SamePanesRefl, SplitAside
<1>5. ASSUME NEW c \in Clients, SplitFind(c) PROVE SplitInv'
  <2>1. PICK id \in TargetIDs, split \in Splits, i \in DOMAIN windows :
          Goto(c, [at |-> "split_name", wins |-> <<windows[i].ref>>,
                   pane |-> [ref |-> 0, id |-> id, split |-> split]])
    BY <1>5 DEF SplitFind
  <2>2. PICK next : next = [at |-> "split_name", wins |-> <<windows[i].ref>>,
                            pane |-> [ref |-> 0, id |-> id, split |-> split]]
    OBVIOUS
  <2>3. next.at = "split_name" /\ next.pane \in NewPane /\ Goto(c, next)
    BY <2>1, <2>2 DEF NewPane
  <2>4. SplitStage(next)
    BY <2>3 DEF SplitStage
  <2>5. UNCHANGED <<mvars, pipes>> /\ h[c].at = "idle"
    BY <1>5 DEF SplitFind, Asks, Idle
  <2> QED BY <2>3, <2>4, <2>5, SplitGoesOn DEF mvars
<1>6. ASSUME NEW c \in Clients, SaveSnapshot(c) PROVE SplitInv'
  <2>1. PICK n \in LayoutNames : Goto(c, [at |-> "save_store", layout |-> n, snap |-> Snapshot])
    BY <1>6 DEF SaveSnapshot
  <2>2. PICK next : next = [at |-> "save_store", layout |-> n, snap |-> Snapshot]
    OBVIOUS
  <2>3. Goto(c, next) /\ next.at = "save_store" /\ SplitStage(next)
    BY <2>1, <2>2 DEF SplitStage
  <2>4. UNCHANGED <<mvars, pipes>> /\ h[c].at = "idle"
    BY <1>6 DEF SaveSnapshot, Asks, Idle
  <2> QED BY <2>3, <2>4, SplitGoesOn DEF mvars
<1>7. ASSUME NEW c \in Clients, Request(c) PROVE SplitInv'
  <2>1. \A op \in {"windowClose", "paneClose", "groupKill", "swap", "layoutApply"} : ~Asks(c, op)
    BY DEF Asks, SplitOps
  <2>2. WindowCreate(c) \/ WindowRename(c) \/ WindowFocus(c) \/ SplitFind(c) \/ SaveSnapshot(c)
    BY <1>7, <2>1 DEF Request, WindowClose, PaneClose, KillWindows, SwapFindA, ApplyBefore
  <2> QED BY <2>2, <1>2, <1>3, <1>4, <1>5, <1>6
<1>8. ASSUME NEW c \in Clients, BroadcastLayoutUpdate(c) PROVE SplitInv'
  <2>1. SplitStage(Idle) /\ Idle.at = "idle"
    BY DEF SplitStage, Idle
  <2>2. UNCHANGED <<mvars, pipes>> /\ h[c].at = "broadcast" /\ Goto(c, Idle)
    BY <1>8 DEF BroadcastLayoutUpdate
  <2> QED BY <2>1, <2>2, SplitGoesOn DEF mvars
<1>9. ASSUME NEW c \in Clients, SaveStore(c) PROVE SplitInv'
  <2>1. SplitStage(Idle) /\ Idle.at = "idle"
    BY DEF SplitStage, Idle
  <2>2. UNCHANGED <<windows, active, pipes>> /\ h[c].at = "save_store" /\ Goto(c, Idle)
    BY <1>9 DEF SaveStore
  <2> QED BY <2>1, <2>2, SplitGoesOn
<1>10. ASSUME NEW c \in Clients, Step(c) PROVE SplitInv'
  <2>1. h[c].at \in {"idle", "broadcast", "save_store", "split_name", "split_add",
                     "split_register", "split_undo"}
    BY <1>1 DEF SplitStage, Idle
  <2>2. ~PaneCloseDeregister(c) /\ ~KillOpenWindow(c) /\ ~KillReadWindow(c) /\ ~KillCollected(c)
    BY <2>1 DEF PaneCloseDeregister, KillOpenWindow, KillReadWindow, KillCollected
  <2>3. ~KillRemove(c) /\ ~KillDeregister(c) /\ ~SwapFindB(c)
    BY <2>1 DEF KillRemove, KillDeregister, SwapFindB
  <2>4. ~SwapSplits(c) /\ ~SwapSeek(c) /\ ~SwapWrite(c)
    BY <2>1 DEF SwapSplits, SwapSeek, SwapWrite
  <2>5. ~ApplyRestore(c) /\ ~ApplyAfter(c) /\ ~ApplyDeregister(c) /\ ~ApplyRegister(c) /\ ~ApplyDone(c)
    BY <2>1 DEF ApplyRestore, ApplyAfter, ApplyDeregister, ApplyRegister, ApplyDone
  <2>6. \/ BroadcastLayoutUpdate(c) \/ SaveStore(c)
        \/ SplitName(c) \/ SplitAdd(c) \/ SplitRegister(c) \/ SplitUndo(c)
    BY <1>10, <2>2, <2>3, <2>4, <2>5 DEF Step
  <2> QED BY <2>6, <1>8, <1>9, SplitNameAccounts, SplitAddAccounts, SplitRegisterAccounts, SplitUndoAccounts
<1>11. ASSUME UNCHANGED vars PROVE SplitInv'
  <2>1. windows' = windows /\ active' = active /\ UNCHANGED <<pipes, h>>
    BY <1>11 DEF vars, mvars, svars
  <2>2. Fit(windows, active)'
    BY <1>1, <2>1
  <2> QED BY <2>1, <2>2, SamePanesRefl, SplitAside
<1> QED BY <1>7, <1>10, <1>11 DEF Next

\* With nobody holding a pane the count says what the two properties say.
LEMMA SplitInvQuiet ==
  ASSUME SplitInv
  PROVE  PanesMatchPipelines /\ OnePanePerID
<1> SUFFICES ASSUME Quiet PROVE pipes = AllPaneIDs
                                /\ \A id \in TargetIDs : Cardinality(Places(id)) <= 1
  BY DEF PanesMatchPipelines, OnePanePerID
<1>1. windows \in Seq(WindowState) /\ pipes \subseteq TargetIDs
  BY DEF SplitInv, Fit
<1>2. ASSUME NEW id \in TargetIDs
      PROVE  /\ IsFiniteSet(OfID(windows, id))
             /\ Cardinality(OfID(windows, id)) = IF id \in pipes THEN 1 ELSE 0
  <2>1. Holding(id) = {}
    BY DEF Quiet, Holding, Idle
  <2>2. Cardinality(Holding(id)) = 0
    BY <2>1, FS_EmptySet
  <2> QED BY <2>2 DEF SplitInv, Accounted
<1>3. ASSUME NEW id \in TargetIDs PROVE id \in pipes <=> HasPane(id)
  <2>1. id \in pipes <=> OfID(windows, id) # {}
    BY <1>2, FS_EmptySet
  <2> QED BY <1>1, <2>1, HasPaneSpot DEF OfID
<1>4. ASSUME NEW id \in TargetIDs PROVE Cardinality(Places(id)) <= 1
  <2>1. Places(id) \subseteq OfID(windows, id)
    <3>1. DOMAIN windows \subseteq Nat
      BY <1>1, LenProperties
    <3> QED BY <3>1 DEF Places, OfID, Spots, On
  <2>2. Cardinality(Places(id)) <= Cardinality(OfID(windows, id)) /\ IsFiniteSet(Places(id))
    BY <1>2, <2>1, FS_Subset
  <2>3. Cardinality(Places(id)) \in Nat
    BY <2>2, FS_CardinalityType
  <2> QED BY <1>2, <2>2, <2>3
<1> QED BY <1>1, <1>3, <1>4 DEF AllPaneIDs

\* However many clients split panes at the same time, under whatever IDs, while windows
\* are created, renamed and focused and layouts saved: once all are answered the pipelines
\* are exactly those of the panes (handlePaneSplit's AddPane, Register and RemovePane are
\* three calls, and the RemovePane may take out the pane of another request).
THEOREM SplitsMatchPipelines ==
  ASSUME Ops \subseteq SplitOps, StartsFit, StartsApart
  PROVE  Spec /\ []AddressesSuffice => []PanesMatchPipelines
<1>1. Init => SplitInv
  BY SplitInit
<1>2. SplitInv /\ AddressesSuffice /\ [Next]_vars => SplitInv'
  BY SplitNext
<1>3. SplitInv => PanesMatchPipelines
  BY SplitInvQuiet
<1> QED BY <1>1, <1>2, <1>3, PTL DEF Spec

\* ... and no ID is given to two panes, though AddPane asks nothing of the ID.
THEOREM SplitsKeepIDsApart ==
  ASSUME Ops \subseteq SplitOps, StartsFit, StartsApart
  PROVE  Spec /\ []AddressesSuffice => []OnePanePerID
<1>1. Init => SplitInv
  BY SplitInit
<1>2. SplitInv /\ AddressesSuffice /\ [Next]_vars => SplitInv'
  BY SplitNext
<1>3. SplitInv => OnePanePerID
  BY SplitInvQuiet
<1> QED BY <1>1, <1>2, <1>3, PTL DEF Spec

-----------------------------------------------------------------------------
(* Every request, of any number of clients: the session stays fit. *)

\* The handlers hold finitely many addresses ...
HeldFew == IsFiniteSet(HeldWindows(h)) /\ IsFiniteSet(HeldPanes(h))

\* ... and every window and pane a handler holds is one, in the session or out of it.
HeldOK == /\ \A r \in HeldWindows(h) : BoundedWindow(WindowOf(r))
          /\ \A r \in HeldPanes(h) : PaneOf(r) \in PaneState
          /\ HeldFew

\* The stages of a swap.
SwapAts == {"swap_find", "swap_splits", "swap_seek", "swap_write"}

\* What a handler remembers at the call it stops before.
AnyStage(q) ==
    /\ q.at \in {"split_name", "split_add"} => q.pane \in NewPane
    /\ q.at = "save_store" => q.layout \in LayoutNames
    /\ q.at \in {"save_store", "apply_restore"} => FitLayout(q.snap)
    /\ q.at \in {"kill_collect", "kill_read"} => "wins" \in DOMAIN q /\ q.wins \in Seq(WinRefs)
    /\ q.at = "kill_read" => q.wins # <<>>
    /\ q.at \in SwapAts => /\ "wins" \in DOMAIN q /\ q.wins \in Seq(WinRefs)
                           /\ "panes" \in DOMAIN q /\ q.panes \in Seq(PaneRefs)
                           /\ Len(q.wins) = Len(q.panes)
                           /\ Len(q.wins) = IF q.at = "swap_find" THEN 1 ELSE 2
    /\ q.at \in {"swap_seek", "swap_write"} => q.side \in {1, 2}

\* Without swaps no pane object is put anywhere twice.
NoSwap == /\ RefsApart(windows)
          /\ \A c \in Clients : h[c].at \notin SwapAts

\* The inductive invariant.
AnyInv == /\ Fit(windows, active)
          /\ FitLayouts
          /\ WinsApart(windows)
          /\ HeldOK
          /\ DOMAIN h = Clients
          /\ \A c \in Clients : AnyStage(h[c])
          /\ "swap" \notin Ops => NoSwap

\* What a handler finds at an address that is in the session.
LEMMA LiveTyped ==
  ASSUME Fit(windows, active), NEW r
  PROVE  /\ LiveWindow(r) => BoundedWindow(WindowOf(r)) /\ WindowOf(r).ref = r
         /\ LivePane(r) => PaneOf(r) \in PaneState
<1>1. windows \in Seq(WindowState) /\ PanesBounded(windows)
  BY DEF Fit
<1>2. ASSUME LiveWindow(r) PROVE BoundedWindow(WindowOf(r)) /\ WindowOf(r).ref = r
  <2>1. PICK k : k = CHOOSE i \in DOMAIN windows : windows[i].ref = r
    OBVIOUS
  <2>2. k \in DOMAIN windows /\ windows[k].ref = r
    BY <1>2, <2>1 DEF LiveWindow
  <2>3. WindowOf(r) = windows[k]
    BY <1>2, <2>1 DEF WindowOf
  <2>4. windows[k] \in WindowState /\ Len(windows[k].panes) <= MaxPanes
    BY <1>1, <2>2, WindowShape DEF PanesBounded
  <2> QED BY <2>2, <2>3, <2>4 DEF BoundedWindow
<1>3. ASSUME LivePane(r) PROVE PaneOf(r) \in PaneState
  <2>1. PICK i : i = CHOOSE k \in DOMAIN windows :
                       \E j \in DOMAIN windows[k].panes : windows[k].panes[j].ref = r
    OBVIOUS
  <2>2. i \in DOMAIN windows /\ \E j \in DOMAIN windows[i].panes : windows[i].panes[j].ref = r
    BY <1>3, <2>1 DEF LivePane
  <2>3. PICK j : j = CHOOSE l \in DOMAIN windows[i].panes : windows[i].panes[l].ref = r
    OBVIOUS
  <2>4. j \in DOMAIN windows[i].panes
    BY <2>2, <2>3
  <2>5. PaneOf(r) = windows[i].panes[j]
    BY <1>3, <2>1, <2>3 DEF PaneOf
  <2>6. windows[i].panes \in Seq(PaneState) /\ j \in 1 .. Len(windows[i].panes)
    BY <1>1, <2>2, <2>4, WindowShape
  <2>7. windows[i].panes[j] \in PaneState
    BY <2>6, ElementOfSeq
  <2> QED BY <2>5, <2>7
<1> QED BY <1>2, <1>3

\* The same after a step.
LEMMA LiveTypedNext ==
  ASSUME Fit(windows, active)', NEW r
  PROVE  /\ LiveWindow(r)' => BoundedWindow(WindowOf(r)')
         /\ LivePane(r)' => PaneOf(r)' \in PaneState
<1>1. windows' \in Seq(WindowState) /\ PanesBounded(windows')
  BY DEF Fit
<1>2. ASSUME LiveWindow(r)' PROVE BoundedWindow(WindowOf(r)')
  <2>1. PICK k : k = CHOOSE i \in DOMAIN windows' : windows'[i].ref = r
    OBVIOUS
  <2>2. k \in DOMAIN windows' /\ windows'[k].ref = r
    BY <1>2, <2>1 DEF LiveWindow
  <2>3. WindowOf(r)' = windows'[k]
    BY <1>2, <2>1 DEF WindowOf
  <2>4. windows'[k] \in WindowState /\ Len(windows'[k].panes) <= MaxPanes
    BY <1>1, <2>2, WindowShape DEF PanesBounded
  <2> QED BY <2>3, <2>4 DEF BoundedWindow
<1>3. ASSUME LivePane(r)' PROVE PaneOf(r)' \in PaneState
  <2>1. PICK i : i = CHOOSE k \in DOMAIN windows' :
                       \E j \in DOMAIN windows'[k].panes : windows'[k].panes[j].ref = r
    OBVIOUS
  <2>2. i \in DOMAIN windows' /\ \E j \in DOMAIN windows'[i].panes : windows'[i].panes[j].ref = r
    BY <1>3, <2>1 DEF LivePane
  <2>3. PICK j : j = CHOOSE l \in DOMAIN windows'[i].panes : windows'[i].panes[l].ref = r
    OBVIOUS
  <2>4. j \in DOMAIN windows'[i].panes
    BY <2>2, <2>3
  <2>5. PaneOf(r)' = windows'[i].panes[j]
    BY <1>3, <2>1, <2>3 DEF PaneOf
  <2>6. windows'[i].panes \in Seq(PaneState) /\ j \in 1 .. Len(windows'[i].panes)
    BY <1>1, <2>2, <2>4, WindowShape
  <2>7. windows'[i].panes[j] \in PaneState
    BY <2>6, ElementOfSeq
  <2> QED BY <2>5, <2>7
<1> QED BY <1>2, <1>3

\* A step keeps what the handlers hold if they hold nothing but what they held, what was
\* in the session and what is.
LEMMA HeldGoesOn ==
  ASSUME HeldOK, Fit(windows, active), Fit(windows, active)',
         \A r \in HeldWindows(h') : r \in HeldWindows(h) \/ LiveWindow(r) \/ LiveWindow(r)',
         \A r \in HeldPanes(h') : r \in HeldPanes(h) \/ LivePane(r) \/ LivePane(r)',
         NEW win, NEW pane, Detach(win, pane),
         \A r \in DOMAIN win : BoundedWindow(win[r]),
         \A r \in DOMAIN pane : pane[r] \in PaneState
  PROVE  HeldOK'
<1>1. detached' = [win  |-> [r \in {q \in HeldWindows(h') : ~LiveWindow(q)'} |->
                               IF r \in DOMAIN win THEN win[r] ELSE WindowOf(r)],
                   pane |-> [r \in {q \in HeldPanes(h') : ~LivePane(q)'} |->
                               IF r \in DOMAIN pane THEN pane[r] ELSE PaneOf(r)]]
  BY DEF Detach
<1>2. ASSUME NEW r \in HeldWindows(h') PROVE BoundedWindow(WindowOf(r)')
  <2>1. CASE LiveWindow(r)'
    BY <2>1, LiveTypedNext
  <2>2. CASE ~LiveWindow(r)'
    <3>1. detached'.win[r] = IF r \in DOMAIN win THEN win[r] ELSE WindowOf(r)
      BY <1>1, <2>2
    <3>2. WindowOf(r)' = detached'.win[r]
      BY <2>2 DEF WindowOf
    <3>3. r \notin DOMAIN win => BoundedWindow(WindowOf(r))
      BY <2>2, LiveTyped DEF HeldOK
    <3> QED BY <3>1, <3>2, <3>3
  <2> QED BY <2>1, <2>2
<1>3. ASSUME NEW r \in HeldPanes(h') PROVE PaneOf(r)' \in PaneState
  <2>1. CASE LivePane(r)'
    BY <2>1, LiveTypedNext
  <2>2. CASE ~LivePane(r)'
    <3>1. detached'.pane[r] = IF r \in DOMAIN pane THEN pane[r] ELSE PaneOf(r)
      BY <1>1, <2>2
    <3>2. PaneOf(r)' = detached'.pane[r]
      BY <2>2 DEF PaneOf
    <3>3. r \notin DOMAIN pane => PaneOf(r) \in PaneState
      BY <2>2, LiveTyped DEF HeldOK
    <3> QED BY <3>1, <3>2, <3>3
  <2> QED BY <2>1, <2>2
<1>4. HeldFew'
  <2>1. /\ IsFiniteSet(WinsAt(windows)) /\ IsFiniteSet(PanesAt(windows))
        /\ IsFiniteSet(WinsAt(windows')) /\ IsFiniteSet(PanesAt(windows'))
    BY FewRefs DEF Fit
  <2>2. IsFiniteSet(HeldWindows(h)) /\ IsFiniteSet(HeldPanes(h))
    BY DEF HeldOK, HeldFew
  <2>3. /\ IsFiniteSet((HeldWindows(h) \cup WinsAt(windows)) \cup WinsAt(windows'))
        /\ IsFiniteSet((HeldPanes(h) \cup PanesAt(windows)) \cup PanesAt(windows'))
    BY <2>1, <2>2, FS_Union
  <2>4. ASSUME NEW r PROVE /\ LiveWindow(r) => r \in WinsAt(windows)
                           /\ LiveWindow(r)' => r \in WinsAt(windows')
                           /\ LivePane(r) => r \in PanesAt(windows)
                           /\ LivePane(r)' => r \in PanesAt(windows')
    <3>1. LivePane(r) => r \in PanesAt(windows)
      BY FewRefs DEF LivePane, Fit
    <3>2. LivePane(r)' => r \in PanesAt(windows')
      BY FewRefs DEF LivePane, Fit
    <3> QED BY <3>1, <3>2 DEF LiveWindow, WinsAt
  <2>5. /\ HeldWindows(h') \subseteq (HeldWindows(h) \cup WinsAt(windows)) \cup WinsAt(windows')
        /\ HeldPanes(h') \subseteq (HeldPanes(h) \cup PanesAt(windows)) \cup PanesAt(windows')
    BY <2>4
  <2>6. IsFiniteSet(HeldWindows(h')) /\ IsFiniteSet(HeldPanes(h'))
    BY <2>3, <2>5, FS_Subset
  <2> QED BY <2>6 DEF HeldFew
<1> QED BY <1>2, <1>3, <1>4 DEF HeldOK

\* The addresses that a stage of a request holds.
HasWin(q, r)  == "wins" \in DOMAIN q /\ r \in ToSet(q.wins)
HasPaneRef(q, r) == "panes" \in DOMAIN q /\ r \in ToSet(q.panes)

\* Those that were known before the step, or are in the session.
WinKnown(r)  == r \in HeldWindows(h) \/ LiveWindow(r) \/ LiveWindow(r)'
PaneKnown(r) == r \in HeldPanes(h) \/ LivePane(r) \/ LivePane(r)'

\* What one request holds is held.
LEMMA HeldBy ==
  ASSUME NEW c \in Clients, NEW r
  PROVE  /\ HasWin(h[c], r) => r \in HeldWindows(h)
         /\ HasPaneRef(h[c], r) => r \in HeldPanes(h)
BY DEF HasWin, HasPaneRef, HeldWindows, HeldPanes

\* After a step of one request, what is held was held or is held by its new stage.
LEMMA HeldGrows ==
  ASSUME DOMAIN h = Clients, NEW c \in Clients, NEW next, Goto(c, next)
  PROVE  /\ \A r \in HeldWindows(h') : r \in HeldWindows(h) \/ HasWin(next, r)
         /\ \A r \in HeldPanes(h') : r \in HeldPanes(h) \/ HasPaneRef(next, r)
<1>1. h'[c] = next /\ \A d \in Clients : d # c => h'[d] = h[d]
  BY DEF Goto
<1>2. ASSUME NEW r \in HeldWindows(h') PROVE r \in HeldWindows(h) \/ HasWin(next, r)
  <2>1. PICK d \in Clients : "wins" \in DOMAIN h'[d] /\ r \in ToSet(h'[d].wins)
    BY <1>2 DEF HeldWindows
  <2> QED BY <1>1, <2>1 DEF HeldWindows, HasWin
<1>3. ASSUME NEW r \in HeldPanes(h') PROVE r \in HeldPanes(h) \/ HasPaneRef(next, r)
  <2>1. PICK d \in Clients : "panes" \in DOMAIN h'[d] /\ r \in ToSet(h'[d].panes)
    BY <1>3 DEF HeldPanes
  <2> QED BY <1>1, <2>1 DEF HeldPanes, HasPaneRef
<1> QED BY <1>2, <1>3

\* The invariant, as one request sees it.
LEMMA AnyParts ==
  ASSUME AnyInv, NEW c \in Clients
  PROVE  /\ Fit(windows, active) /\ windows \in Seq(WindowState)
         /\ FitLayouts /\ WinsApart(windows) /\ HeldOK /\ DOMAIN h = Clients
         /\ AnyStage(h[c])
         /\ "swap" \notin Ops => RefsApart(windows) /\ h[c].at \notin SwapAts
BY DEF AnyInv, Fit, NoSwap

\* One request goes on by one step.
LEMMA AnyGoes ==
  ASSUME AnyInv, NEW c \in Clients, NEW next, Goto(c, next), AnyStage(next),
         Fit(windows, active)', FitLayouts', WinsApart(windows'),
         NEW win, NEW pane, Detach(win, pane),
         \A r \in DOMAIN win : BoundedWindow(win[r]),
         \A r \in DOMAIN pane : pane[r] \in PaneState,
         \A r : HasWin(next, r) => WinKnown(r),
         \A r : HasPaneRef(next, r) => PaneKnown(r),
         "swap" \notin Ops => RefsApart(windows') /\ next.at \notin SwapAts
  PROVE  AnyInv'
<1>1. DOMAIN h = Clients /\ HeldOK /\ Fit(windows, active)
  BY DEF AnyInv
<1>2. h'[c] = next /\ (\A d \in Clients : d # c => h'[d] = h[d]) /\ DOMAIN h' = Clients
  BY <1>1 DEF Goto
<1>3. \A r \in HeldWindows(h') : r \in HeldWindows(h) \/ LiveWindow(r) \/ LiveWindow(r)'
  BY <1>1, HeldGrows DEF WinKnown
<1>4. \A r \in HeldPanes(h') : r \in HeldPanes(h) \/ LivePane(r) \/ LivePane(r)'
  BY <1>1, HeldGrows DEF PaneKnown
<1>5. HeldOK'
  BY <1>1, <1>3, <1>4, HeldGoesOn
<1>6. \A d \in Clients : AnyStage(h'[d])
  BY <1>2 DEF AnyInv
<1>7. "swap" \notin Ops => NoSwap'
  BY <1>2 DEF AnyInv, NoSwap
<1> QED BY <1>2, <1>5, <1>6, <1>7 DEF AnyInv

\* ... which leaves the session alone.
LEMMA AnyStays ==
  ASSUME AnyInv, NEW c \in Clients, NEW next, Goto(c, next), AnyStage(next),
         UNCHANGED mvars, Aside,
         \A r : HasWin(next, r) => WinKnown(r),
         \A r : HasPaneRef(next, r) => PaneKnown(r),
         "swap" \notin Ops => next.at \notin SwapAts
  PROVE  AnyInv'
<1>1. windows' = windows /\ active' = active /\ layouts' = layouts
  BY DEF mvars
<1>2. Fit(windows, active) /\ WinsApart(windows) /\ ("swap" \notin Ops => RefsApart(windows))
  BY AnyParts
<1>3. Fit(windows, active)' /\ WinsApart(windows') /\ ("swap" \notin Ops => RefsApart(windows'))
  BY <1>1, <1>2
<1>4. FitLayouts'
  BY <1>1, AnyParts, LayoutsKept
<1>5. Detach(Nothing, Nothing) /\ DOMAIN Nothing = {}
  BY DEF Aside, Nothing
<1> QED BY <1>3, <1>4, <1>5, AnyGoes

\* A step after which the request holds nothing it did not hold before.
HoldsOld(q, next) == \A r : /\ HasWin(next, r) => HasWin(q, r)
                            /\ HasPaneRef(next, r) => HasPaneRef(q, r)

\* The stages of which nothing is asked.
PlainAts == {"idle", "broadcast", "split_register", "split_undo", "close_deregister",
             "kill_remove", "kill_deregister", "apply_after", "apply_reconcile"}

\* Nothing is asked of them.
LEMMA PlainAt ==
  ASSUME NEW q, q.at \in PlainAts
  PROVE  AnyStage(q) /\ q.at \notin SwapAts
BY DEF AnyStage, PlainAts, SwapAts

\* A request without addresses holds nothing new.
LEMMA HoldsNothing ==
  ASSUME NEW q, NEW next, "wins" \notin DOMAIN next, "panes" \notin DOMAIN next
  PROVE  HoldsOld(q, next)
BY DEF HoldsOld, HasWin, HasPaneRef

\* A plain stage without addresses is all that the invariant wants.
LEMMA PlainGoes ==
  ASSUME AnyInv, NEW next, next.at \in PlainAts, "wins" \notin DOMAIN next, "panes" \notin DOMAIN next
  PROVE  /\ AnyStage(next)
         /\ \A x : HasWin(next, x) => WinKnown(x)
         /\ \A x : HasPaneRef(next, x) => PaneKnown(x)
BY PlainAt DEF HasWin, HasPaneRef

\* A step to a plain stage that leaves panes drawn from those there were.
LEMMA AnyDrawn ==
  ASSUME AnyInv, NEW c \in Clients, NEW next, Goto(c, next), next.at \in PlainAts,
         HoldsOld(h[c], next), layouts' = layouts, Aside,
         Fit(windows, active)', WinsApart(windows'), Drawn(windows, windows')
  PROVE  AnyInv'
<1>1. FitLayouts'
  BY AnyParts, LayoutsKept
<1>2. "swap" \notin Ops => RefsApart(windows')
  BY AnyParts, DrawnApart
<1>3. Detach(Nothing, Nothing) /\ DOMAIN Nothing = {}
  BY DEF Aside, Nothing
<1>4. /\ \A r : HasWin(next, r) => WinKnown(r)
      /\ \A r : HasPaneRef(next, r) => PaneKnown(r)
  BY HeldBy DEF HoldsOld, WinKnown, PaneKnown
<1> QED BY <1>1, <1>2, <1>3, <1>4, PlainAt, AnyGoes

\* A step to a plain stage that leaves the session alone.
LEMMA AnyPlain ==
  ASSUME AnyInv, NEW c \in Clients, NEW next, Goto(c, next), next.at \in PlainAts,
         HoldsOld(h[c], next), UNCHANGED mvars, Aside
  PROVE  AnyInv'
<1>1. windows' = windows /\ active' = active /\ layouts' = layouts
  BY DEF mvars
<1>2. Fit(windows, active)' /\ WinsApart(windows')
  BY <1>1, AnyParts
<1>3. Drawn(windows, windows')
  BY <1>1, SamePanesRefl, SamePanesDrawn
<1> QED BY <1>1, <1>2, <1>3, AnyDrawn

\* One call of the manager, the request answered by it.
LEMMA AnyCall ==
  ASSUME AnyInv, h' = h, layouts' = layouts, Aside,
         Fit(windows, active)', WinsApart(windows'), Drawn(windows, windows')
  PROVE  AnyInv'
<1>1. HeldOK /\ Fit(windows, active) /\ DOMAIN h' = Clients
  BY DEF AnyInv
<1>2. HeldOK'
  <2>1. Detach(Nothing, Nothing) /\ DOMAIN Nothing = {}
    BY DEF Aside, Nothing
  <2>2. HeldWindows(h') = HeldWindows(h) /\ HeldPanes(h') = HeldPanes(h)
    OBVIOUS
  <2> QED BY <1>1, <2>1, <2>2, HeldGoesOn
<1>3. FitLayouts'
  BY LayoutsKept DEF AnyInv
<1>4. "swap" \notin Ops => NoSwap'
  BY DrawnApart DEF AnyInv, NoSwap
<1> QED BY <1>1, <1>2, <1>3, <1>4 DEF AnyInv

\* The four requests on windows.
LEMMA AnyWindowCalls ==
  ASSUME AnyInv, AddressesSuffice, NEW c \in Clients,
         WindowCreate(c) \/ WindowClose(c) \/ WindowRename(c) \/ WindowFocus(c)
  PROVE  AnyInv'
<1>1. Fit(windows, active) /\ WinsApart(windows)
  BY AnyParts
<1>2. /\ UNCHANGED <<pipes, h>> /\ Aside /\ layouts' = layouts
      /\ Fit(windows, active)' /\ WinsApart(windows') /\ Drawn(windows, windows')
  BY <1>1, WindowCalls
<1> QED BY <1>2, AnyCall

\* The steps that let go of what the request held.
LEMMA AnyEnds ==
  ASSUME AnyInv, NEW c \in Clients,
         BroadcastLayoutUpdate(c) \/ PaneCloseDeregister(c) \/ KillCollected(c)
         \/ ApplyAfter(c) \/ ApplyDone(c)
  PROVE  AnyInv'
<1>1. UNCHANGED mvars /\ Aside
  <2>1. BroadcastLayoutUpdate(c) => UNCHANGED mvars /\ Aside
    BY DEF BroadcastLayoutUpdate
  <2>2. PaneCloseDeregister(c) => UNCHANGED mvars /\ Aside
    BY DEF PaneCloseDeregister
  <2>3. KillCollected(c) => UNCHANGED mvars /\ Aside
    BY DEF KillCollected
  <2>4. ApplyAfter(c) \/ ApplyDone(c) => UNCHANGED mvars /\ Aside
    BY DEF ApplyAfter, ApplyDone
  <2> QED BY <2>1, <2>2, <2>3, <2>4
<1>2. \E next : /\ Goto(c, next) /\ next.at \in PlainAts
                /\ "wins" \notin DOMAIN next /\ "panes" \notin DOMAIN next
  <2>1. CASE BroadcastLayoutUpdate(c)
    BY <2>1 DEF BroadcastLayoutUpdate, PlainAts, Idle
  <2>2. CASE PaneCloseDeregister(c)
    BY <2>2 DEF PaneCloseDeregister, PlainAts
  <2>3. CASE KillCollected(c)
    BY <2>3 DEF KillCollected, PlainAts, Idle
  <2>4. CASE ApplyAfter(c)
    BY <2>4 DEF ApplyAfter, PlainAts
  <2>5. CASE ApplyDone(c)
    BY <2>5 DEF ApplyDone, PlainAts
  <2> QED BY <2>1, <2>2, <2>3, <2>4, <2>5
<1>3. PICK next : /\ Goto(c, next) /\ next.at \in PlainAts
                  /\ "wins" \notin DOMAIN next /\ "panes" \notin DOMAIN next
  BY <1>2
<1> QED BY <1>1, <1>3, HoldsNothing, AnyPlain

\* The steps that change one field of the request.
LEMMA AnyEdits ==
  ASSUME AnyInv, NEW c \in Clients,
         KillDeregister(c) \/ ApplyDeregister(c) \/ ApplyRegister(c) \/ SplitRegister(c)
  PROVE  AnyInv'
<1>1. UNCHANGED mvars /\ Aside
  <2>1. KillDeregister(c) => UNCHANGED mvars /\ Aside
    BY DEF KillDeregister
  <2>2. ApplyDeregister(c) \/ ApplyRegister(c) => UNCHANGED mvars /\ Aside
    BY DEF ApplyDeregister, ApplyRegister
  <2>3. SplitRegister(c) => UNCHANGED mvars /\ Aside
    BY DEF SplitRegister
  <2> QED BY <2>1, <2>2, <2>3
<1>2. PICK q : q = h[c]
  OBVIOUS
<1>3. \E next : Goto(c, next) /\ next.at \in PlainAts /\ HoldsOld(q, next)
  <2>1. CASE KillDeregister(c)
    <3>1. CASE Len(q.targets) = 1
      <4>1. Goto(c, [at |-> "broadcast"])
        BY <1>2, <2>1, <3>1 DEF KillDeregister
      <4> QED BY <4>1, HoldsNothing DEF PlainAts
    <3>2. CASE Len(q.targets) # 1
      <4>1. PICK next : next = [q EXCEPT !.at = "kill_remove", !.targets = Tail(@)]
        OBVIOUS
      <4>2. Goto(c, next) /\ q.at = "kill_deregister"
        BY <1>2, <2>1, <3>2, <4>1 DEF KillDeregister
      <4>3. next.at = "kill_remove"
        BY <4>1, <4>2
      <4>4. DOMAIN next = DOMAIN q /\ next.wins = q.wins /\ next.panes = q.panes
        BY <4>1
      <4>5. HoldsOld(q, next)
        BY <4>4 DEF HoldsOld, HasWin, HasPaneRef
      <4> QED BY <4>2, <4>3, <4>5 DEF PlainAts
    <3> QED BY <3>1, <3>2
  <2>2. CASE ApplyDeregister(c)
    <3>1. PICK id \in q.drop : Goto(c, [q EXCEPT !.drop = @ \ {id}])
      BY <1>2, <2>2 DEF ApplyDeregister
    <3>2. PICK next : next = [q EXCEPT !.drop = @ \ {id}]
      OBVIOUS
    <3>3. q.at = "apply_reconcile"
      BY <1>2, <2>2 DEF ApplyDeregister
    <3>4. next.at = "apply_reconcile" /\ DOMAIN next = DOMAIN q /\ next.wins = q.wins
          /\ next.panes = q.panes
      BY <3>2, <3>3
    <3>5. HoldsOld(q, next)
      BY <3>4 DEF HoldsOld, HasWin, HasPaneRef
    <3> QED BY <3>1, <3>2, <3>4, <3>5 DEF PlainAts
  <2>3. CASE ApplyRegister(c)
    <3>1. PICK id \in q.add : Goto(c, [q EXCEPT !.add = @ \ {id}])
      BY <1>2, <2>3 DEF ApplyRegister
    <3>2. PICK next : next = [q EXCEPT !.add = @ \ {id}]
      OBVIOUS
    <3>3. q.at = "apply_reconcile"
      BY <1>2, <2>3 DEF ApplyRegister
    <3>4. next.at = "apply_reconcile" /\ DOMAIN next = DOMAIN q /\ next.wins = q.wins
          /\ next.panes = q.panes
      BY <3>2, <3>3
    <3>5. HoldsOld(q, next)
      BY <3>4 DEF HoldsOld, HasWin, HasPaneRef
    <3> QED BY <3>1, <3>2, <3>4, <3>5 DEF PlainAts
  <2>4. CASE SplitRegister(c)
    <3>1. CASE Goto(c, [at |-> "broadcast"])
      BY <3>1, HoldsNothing DEF PlainAts
    <3>2. CASE Goto(c, [q EXCEPT !.at = "split_undo"])
      <4>1. PICK next : next = [q EXCEPT !.at = "split_undo"]
        OBVIOUS
      <4>2. q.at = "split_register"
        BY <1>2, <2>4 DEF SplitRegister
      <4>3. next.at = "split_undo" /\ DOMAIN next = DOMAIN q /\ next.wins = q.wins
            /\ next.panes = q.panes
        BY <4>1, <4>2
      <4>4. HoldsOld(q, next)
        BY <4>3 DEF HoldsOld, HasWin, HasPaneRef
      <4> QED BY <3>2, <4>1, <4>3, <4>4 DEF PlainAts
    <3> QED BY <1>2, <2>4, <3>1, <3>2 DEF SplitRegister
  <2> QED BY <2>1, <2>2, <2>3, <2>4
<1>4. PICK next : Goto(c, next) /\ next.at \in PlainAts /\ HoldsOld(q, next)
  BY <1>3
<1> QED BY <1>1, <1>2, <1>4, AnyPlain

\* The steps that take a pane out.
LEMMA AnyRemoves ==
  ASSUME AnyInv, NEW c \in Clients, SplitUndo(c) \/ PaneClose(c) \/ KillRemove(c)
  PROVE  AnyInv'
<1>1. Aside /\ Fit(windows, active) /\ WinsApart(windows)
  <2>1. SplitUndo(c) \/ PaneClose(c) \/ KillRemove(c) => Aside
    BY DEF SplitUndo, PaneClose, KillRemove
  <2> QED BY <2>1, AnyParts
<1>2. PICK q : q = h[c]
  OBVIOUS
<1>3. (\E id : RemovePane(id)) \/ UNCHANGED mvars
  <2>1. SplitUndo(c) => RemovePane(q.id) \/ UNCHANGED mvars
    BY <1>2 DEF SplitUndo
  <2>2. PaneClose(c) => \E id : RemovePane(id)
    BY DEF PaneClose
  <2>3. KillRemove(c) => RemovePane(Head(q.targets)) \/ UNCHANGED mvars
    BY <1>2 DEF KillRemove
  <2> QED BY <2>1, <2>2, <2>3
<1>4. \E next : Goto(c, next) /\ next.at \in PlainAts /\ HoldsOld(q, next)
  <2>1. CASE SplitUndo(c)
    <3>1. Goto(c, Idle)
      BY <2>1 DEF SplitUndo
    <3>2. Idle.at \in PlainAts /\ "wins" \notin DOMAIN Idle /\ "panes" \notin DOMAIN Idle
      BY DEF Idle, PlainAts
    <3> QED BY <3>1, <3>2, HoldsNothing
  <2>2. CASE PaneClose(c)
    <3>1. PICK id \in TargetIDs : Goto(c, [at |-> "close_deregister", id |-> id])
      BY <2>2 DEF PaneClose
    <3> QED BY <3>1, HoldsNothing DEF PlainAts
  <2>3. CASE KillRemove(c)
    <3>1. PICK next : next = [q EXCEPT !.at = "kill_deregister"]
      OBVIOUS
    <3>2. Goto(c, next) /\ q.at = "kill_remove"
      BY <1>2, <2>3, <3>1 DEF KillRemove
    <3>3. next.at = "kill_deregister" /\ DOMAIN next = DOMAIN q /\ next.wins = q.wins
          /\ next.panes = q.panes
      BY <3>1, <3>2
    <3>4. HoldsOld(q, next)
      BY <3>3 DEF HoldsOld, HasWin, HasPaneRef
    <3> QED BY <3>2, <3>3, <3>4 DEF PlainAts
  <2> QED BY <2>1, <2>2, <2>3
<1>5. PICK next : Goto(c, next) /\ next.at \in PlainAts /\ HoldsOld(q, next)
  BY <1>4
<1>6. CASE \E id : RemovePane(id)
  <2>1. PICK id : RemovePane(id)
    BY <1>6
  <2>2. /\ Fit(windows, active)' /\ WinsApart(windows') /\ Drawn(windows, windows')
        /\ layouts' = layouts
    BY <1>1, <2>1, RemovePaneKeeps
  <2> QED BY <1>1, <1>2, <1>5, <2>2, AnyDrawn
<1>7. CASE UNCHANGED mvars
  BY <1>1, <1>2, <1>5, <1>7, AnyPlain
<1> QED BY <1>3, <1>6, <1>7

\* Lists of one address, and of two.
LEMMA OneOf == ASSUME NEW x, NEW r, r \in ToSet(<<x>>) PROVE r = x
BY DEF ToSet

\* An address appended to a list of one.
LEMMA TwoOf ==
  ASSUME NEW S, NEW s \in Seq(S), Len(s) = 1, NEW x \in S
  PROVE  /\ Append(s, x) \in Seq(S) /\ Len(Append(s, x)) = 2
         /\ \A r \in ToSet(Append(s, x)) : r \in ToSet(s) \/ r = x
<1>1. /\ Append(s, x) \in Seq(S) /\ Len(Append(s, x)) = 2
      /\ Append(s, x)[1] = s[1] /\ Append(s, x)[2] = x
  <2>1. Append(s, x) \in Seq(S) /\ Len(Append(s, x)) = Len(s) + 1
    BY AppendProperties
  <2>2. /\ \A i \in 1 .. Len(s) : Append(s, x)[i] = s[i]
        /\ Append(s, x)[Len(s) + 1] = x
    BY AppendProperties
  <2> QED BY <2>1, <2>2
<1>2. DOMAIN Append(s, x) = 1 .. 2 /\ DOMAIN s = 1 .. 1
  BY <1>1, LenProperties
<1>3. s[1] \in ToSet(s)
  BY <1>2 DEF ToSet
<1>4. ASSUME NEW i \in 1 .. 2 PROVE Append(s, x)[i] \in ToSet(s) \/ Append(s, x)[i] = x
  <2>1. i = 1 \/ i = 2
    OBVIOUS
  <2> QED BY <2>1, <1>1, <1>3
<1>5. \A r \in ToSet(Append(s, x)) : \E i \in 1 .. 2 : r = Append(s, x)[i]
  BY <1>2 DEF ToSet
<1> QED BY <1>1, <1>4, <1>5

\* handlePaneSplit remembers a window of the session.
LEMMA AnySplitFind ==
  ASSUME AnyInv, NEW c \in Clients, SplitFind(c)
  PROVE  AnyInv'
<1>1. UNCHANGED mvars /\ Aside
  BY DEF SplitFind
<1>2. PICK id \in TargetIDs, split \in Splits, i \in DOMAIN windows :
        Goto(c, [at |-> "split_name", wins |-> <<windows[i].ref>>,
                 pane |-> [ref |-> 0, id |-> id, split |-> split]])
  BY DEF SplitFind
<1>3. PICK w : w = windows[i].ref
  OBVIOUS
<1>4. PICK next : next = [at |-> "split_name", wins |-> <<w>>,
                          pane |-> [ref |-> 0, id |-> id, split |-> split]]
  OBVIOUS
<1>5. /\ Goto(c, next) /\ next.at = "split_name" /\ next.pane \in NewPane
      /\ next.wins = <<w>> /\ "panes" \notin DOMAIN next
  BY <1>2, <1>3, <1>4 DEF NewPane
<1>6. AnyStage(next) /\ next.at \notin SwapAts
  BY <1>5 DEF AnyStage, SwapAts
<1>7. LiveWindow(w)
  BY <1>3 DEF LiveWindow
<1>8. \A r : HasWin(next, r) => WinKnown(r)
  BY <1>5, <1>7, OneOf DEF HasWin, WinKnown
<1>9. \A r : HasPaneRef(next, r) => PaneKnown(r)
  BY <1>5 DEF HasPaneRef
<1> QED BY <1>1, <1>5, <1>6, <1>8, <1>9, AnyStays

\* It reads the name and lets the window go.
LEMMA AnySplitName ==
  ASSUME AnyInv, NEW c \in Clients, SplitName(c)
  PROVE  AnyInv'
<1>1. UNCHANGED mvars /\ Aside /\ h[c].at = "split_name"
  BY DEF SplitName
<1>2. PICK name : name = WindowOf(h[c].wins[1]).name
  OBVIOUS
<1>3. PICK pane : pane = h[c].pane
  OBVIOUS
<1>4. pane \in NewPane
  BY <1>1, <1>3, AnyParts DEF AnyStage
<1>5. PICK next : next = [at |-> "split_add", name |-> name, pane |-> pane]
  OBVIOUS
<1>6. /\ Goto(c, next) /\ next.at = "split_add" /\ next.pane \in NewPane
      /\ "wins" \notin DOMAIN next /\ "panes" \notin DOMAIN next
  BY <1>2, <1>3, <1>4, <1>5 DEF SplitName
<1>7. AnyStage(next) /\ next.at \notin SwapAts
  BY <1>6 DEF AnyStage, SwapAts
<1>8. \A r : ~HasWin(next, r) /\ ~HasPaneRef(next, r)
  BY <1>6 DEF HasWin, HasPaneRef
<1> QED BY <1>1, <1>6, <1>7, <1>8, AnyStays

\* The pane it adds is at an address of its own, and the window it goes to has room,
\* whichever window bears the name by now.
LEMMA AnySplitAdd ==
  ASSUME AnyInv, AddressesSuffice, NEW c \in Clients, SplitAdd(c)
  PROVE  AnyInv'
<1>1. h[c].at = "split_add" /\ Aside
  BY DEF SplitAdd
<1>2. /\ h[c].pane \in NewPane /\ Fit(windows, active) /\ windows \in Seq(WindowState)
      /\ WinsApart(windows) /\ ("swap" \notin Ops => RefsApart(windows))
  BY <1>1, AnyParts DEF AnyStage
<1>3. PICK name : name = h[c].name
  OBVIOUS
<1>4. PICK pane : pane = [h[c].pane EXCEPT !.ref = FreePane(1)]
  OBVIOUS
<1>5. FreePane(1) \in PaneRefs /\ ~LivePane(FreePane(1))
  BY <1>1, FreshPane DEF AddressesSuffice, FreePanes
<1>6. pane \in PaneState /\ pane.ref = FreePane(1)
  BY <1>2, <1>4, <1>5 DEF NewPane, PaneState
<1>7. \/ /\ AddPane(name, pane)
         /\ Goto(c, [at |-> "split_register", id |-> pane.id, panes |-> <<pane.ref>>])
      \/ Goto(c, Idle) /\ UNCHANGED mvars
  BY <1>3, <1>4 DEF SplitAdd
<1>8. CASE Goto(c, Idle) /\ UNCHANGED mvars
  <2>1. Idle.at \in PlainAts /\ "wins" \notin DOMAIN Idle /\ "panes" \notin DOMAIN Idle
    BY DEF Idle, PlainAts
  <2> QED BY <1>1, <1>8, <2>1, HoldsNothing, AnyPlain
<1>9. CASE /\ AddPane(name, pane)
           /\ Goto(c, [at |-> "split_register", id |-> pane.id, panes |-> <<pane.ref>>])
  <2>1. PICK next : next = [at |-> "split_register", id |-> pane.id, panes |-> <<pane.ref>>]
    OBVIOUS
  <2>2. /\ Goto(c, next) /\ next.at = "split_register" /\ next.panes = <<pane.ref>>
        /\ "wins" \notin DOMAIN next
    BY <1>9, <2>1
  <2>3. PICK s \in Nat \X Nat : AddsAt(windows, windows', s, pane)
    BY <1>2, <1>6, <1>9, AddPaneSpot
  <2>4. /\ Spots(windows') = Spots(windows) \cup {s} /\ On(windows', s) = pane
        /\ \A p \in Spots(windows) : On(windows', p) = On(windows, p)
    BY <2>3 DEF AddsAt
  <2>5. \A p \in Spots(windows) : On(windows, p).ref # pane.ref
    BY <1>2, <1>5, <1>6, LivePaneSpot
  <2>6. "swap" \notin Ops => RefsApart(windows')
    BY <1>2, <2>4, <2>5 DEF RefsApart
  <2>7. LivePane(pane.ref)'
    BY <2>4 DEF LivePane, Spots, On
  <2>8. \A r : HasPaneRef(next, r) => PaneKnown(r)
    BY <2>2, <2>7, OneOf DEF HasPaneRef, PaneKnown
  <2>9. \A r : HasWin(next, r) => WinKnown(r)
    BY <2>2 DEF HasWin
  <2>10. layouts' = layouts
    BY <1>9 DEF AddPane
  <2>11. FitLayouts'
    BY <2>10, AnyParts, LayoutsKept
  <2>12. Fit(windows, active)' /\ WinsApart(windows')
    BY <1>2, <1>6, <1>9, FitAddPane, AddPaneWins, SameWinsApart
  <2>13. Detach(Nothing, Nothing) /\ DOMAIN Nothing = {}
    BY <1>1 DEF Aside, Nothing
  <2>14. AnyStage(next) /\ next.at \notin SwapAts
    BY <2>2, PlainAt DEF PlainAts
  <2> QED BY <2>2, <2>6, <2>8, <2>9, <2>11, <2>12, <2>13, <2>14, AnyGoes
<1> QED BY <1>7, <1>8, <1>9

\* handleGroupAction remembers every window.
LEMMA AnyKillWindows ==
  ASSUME AnyInv, NEW c \in Clients, KillWindows(c)
  PROVE  AnyInv'
<1>1. UNCHANGED mvars /\ Aside
  BY DEF KillWindows
<1>2. PICK wins : wins = [i \in DOMAIN windows |-> windows[i].ref]
  OBVIOUS
<1>3. PICK g \in Groups : Goto(c, [at |-> "kill_collect", group |-> g, targets |-> <<>>, wins |-> wins])
  BY <1>2 DEF KillWindows
<1>4. PICK next : next = [at |-> "kill_collect", group |-> g, targets |-> <<>>, wins |-> wins]
  OBVIOUS
<1>5. /\ Goto(c, next) /\ next.at = "kill_collect" /\ next.wins = wins
      /\ "wins" \in DOMAIN next /\ "panes" \notin DOMAIN next
  BY <1>3, <1>4
<1>6. wins \in Seq(WinRefs)
  <2>1. windows \in Seq(WindowState) /\ Len(windows) \in Nat /\ DOMAIN windows = 1 .. Len(windows)
    BY AnyParts, LenProperties
  <2>2. \A i \in DOMAIN windows : windows[i].ref \in WinRefs
    BY <2>1, WindowShape DEF WindowState
  <2>3. wins \in [1 .. Len(windows) -> WinRefs]
    BY <1>2, <2>1, <2>2
  <2> QED BY <2>1, <2>3, FunctionIsSeq
<1>7. AnyStage(next) /\ next.at \notin SwapAts
  BY <1>5, <1>6 DEF AnyStage, SwapAts
<1>8. \A r : HasWin(next, r) => WinKnown(r)
  BY <1>2, <1>5 DEF HasWin, WinKnown, ToSet, LiveWindow
<1>9. \A r : HasPaneRef(next, r) => PaneKnown(r)
  BY <1>5 DEF HasPaneRef
<1> QED BY <1>1, <1>5, <1>7, <1>8, <1>9, AnyStays

\* ... and reads the panes of one after the other, also of those that are closed by now.
LEMMA AnyKillReads ==
  ASSUME AnyInv, NEW c \in Clients, KillOpenWindow(c) \/ KillReadWindow(c)
  PROVE  AnyInv'
<1>1. UNCHANGED mvars /\ Aside
  <2>1. KillOpenWindow(c) => UNCHANGED mvars /\ Aside
    BY DEF KillOpenWindow
  <2>2. KillReadWindow(c) => UNCHANGED mvars /\ Aside
    BY DEF KillReadWindow
  <2> QED BY <2>1, <2>2
<1>2. PICK q : q = h[c]
  OBVIOUS
<1>3. \E next : /\ Goto(c, next) /\ next.at \in {"kill_collect", "kill_read"}
                /\ "wins" \in DOMAIN next /\ "panes" \notin DOMAIN next
                /\ next.wins \in Seq(WinRefs) /\ (next.at = "kill_read" => next.wins # <<>>)
                /\ "wins" \in DOMAIN q /\ ToSet(next.wins) \subseteq ToSet(q.wins)
  <2>1. CASE KillOpenWindow(c)
    <3>1. PICK seen : seen = WindowOf(q.wins[1]).panes
      OBVIOUS
    <3>2. /\ q.at = "kill_collect" /\ q.wins # <<>>
          /\ Goto(c, [at |-> "kill_read", group |-> q.group, targets |-> q.targets,
                      wins |-> q.wins, seen |-> seen])
      BY <1>2, <2>1, <3>1 DEF KillOpenWindow
    <3>3. "wins" \in DOMAIN q /\ q.wins \in Seq(WinRefs)
      BY <1>2, <3>2, AnyParts DEF AnyStage
    <3> QED BY <3>2, <3>3
  <2>2. CASE KillReadWindow(c)
    <3>1. q.at = "kill_read"
      BY <1>2, <2>2 DEF KillReadWindow
    <3>2. "wins" \in DOMAIN q /\ q.wins \in Seq(WinRefs) /\ q.wins # <<>>
      BY <1>2, <3>1, AnyParts DEF AnyStage
    <3>3. \E ids : Goto(c, [at |-> "kill_collect", group |-> q.group,
                            targets |-> q.targets \o ids, wins |-> Tail(q.wins)])
      BY <1>2, <2>2 DEF KillReadWindow
    <3>4. PICK ids : Goto(c, [at |-> "kill_collect", group |-> q.group,
                              targets |-> q.targets \o ids, wins |-> Tail(q.wins)])
      BY <3>3
    <3>5. PICK rest : rest = Tail(q.wins)
      OBVIOUS
    <3>6. /\ rest \in Seq(WinRefs) /\ Len(rest) = Len(q.wins) - 1
          /\ Len(q.wins) \in Nat /\ DOMAIN q.wins = 1 .. Len(q.wins)
          /\ \A i \in 1 .. Len(q.wins) - 1 : rest[i] = q.wins[i + 1]
      BY <3>2, <3>5, HeadTailProperties, LenProperties
    <3>7. DOMAIN rest = 1 .. Len(q.wins) - 1
      BY <3>6, LenProperties
    <3>8. ToSet(rest) \subseteq ToSet(q.wins)
      BY <3>6, <3>7 DEF ToSet
    <3>9. PICK next : next = [at |-> "kill_collect", group |-> q.group,
                              targets |-> q.targets \o ids, wins |-> rest]
      OBVIOUS
    <3>10. Goto(c, next)
      BY <3>4, <3>5, <3>9
    <3>11. /\ next.at = "kill_collect" /\ next.wins = rest
           /\ "wins" \in DOMAIN next /\ "panes" \notin DOMAIN next
      BY <3>9
    <3> QED BY <3>2, <3>6, <3>8, <3>10, <3>11
  <2> QED BY <2>1, <2>2
<1>4. PICK next : /\ Goto(c, next) /\ next.at \in {"kill_collect", "kill_read"}
                  /\ "wins" \in DOMAIN next /\ "panes" \notin DOMAIN next
                  /\ next.wins \in Seq(WinRefs) /\ (next.at = "kill_read" => next.wins # <<>>)
                  /\ "wins" \in DOMAIN q /\ ToSet(next.wins) \subseteq ToSet(q.wins)
  BY <1>3
<1>5. AnyStage(next) /\ next.at \notin SwapAts
  BY <1>4 DEF AnyStage, SwapAts
<1>6. \A r : HasWin(next, r) => WinKnown(r)
  BY <1>2, <1>4, HeldBy DEF HasWin, WinKnown
<1>7. \A r : HasPaneRef(next, r) => PaneKnown(r)
  BY <1>4 DEF HasPaneRef
<1> QED BY <1>1, <1>4, <1>5, <1>6, <1>7, AnyStays

\* A layout is saved, or is about to be applied: either way it is fit.
LEMMA AnySnapshots ==
  ASSUME AnyInv, NEW c \in Clients, SaveSnapshot(c) \/ ApplyBefore(c)
  PROVE  AnyInv'
<1>1. UNCHANGED mvars /\ Aside
  <2>1. SaveSnapshot(c) => UNCHANGED mvars /\ Aside
    BY DEF SaveSnapshot
  <2>2. ApplyBefore(c) => UNCHANGED mvars /\ Aside
    BY DEF ApplyBefore
  <2> QED BY <2>1, <2>2
<1>2. Fit(windows, active) /\ FitLayouts
  BY AnyParts
<1>3. \E next : /\ Goto(c, next) /\ next.at \in {"save_store", "apply_restore"}
                /\ (next.at = "save_store" => next.layout \in LayoutNames)
                /\ FitLayout(next.snap)
                /\ "wins" \notin DOMAIN next /\ "panes" \notin DOMAIN next
  <2>1. CASE SaveSnapshot(c)
    <3>1. PICK snap : snap = Snapshot
      OBVIOUS
    <3>2. PICK n \in LayoutNames : Goto(c, [at |-> "save_store", layout |-> n, snap |-> snap])
      BY <2>1, <3>1 DEF SaveSnapshot
    <3>3. FitLayout(snap)
      BY <1>2, <3>1, FitSnapshot
    <3> QED BY <3>2, <3>3
  <2>2. CASE ApplyBefore(c)
    <3>1. PICK before : before = AllPaneIDs
      OBVIOUS
    <3>2. PICK n \in DOMAIN layouts :
             Goto(c, [at |-> "apply_restore", snap |-> layouts[n], before |-> before])
      BY <2>2, <3>1 DEF ApplyBefore
    <3>3. PICK snap : snap = layouts[n]
      OBVIOUS
    <3>4. FitLayout(snap) /\ Goto(c, [at |-> "apply_restore", snap |-> snap, before |-> before])
      BY <1>2, <3>2, <3>3 DEF FitLayouts
    <3> QED BY <3>4
  <2> QED BY <2>1, <2>2
<1>4. PICK next : /\ Goto(c, next) /\ next.at \in {"save_store", "apply_restore"}
                  /\ (next.at = "save_store" => next.layout \in LayoutNames)
                  /\ FitLayout(next.snap)
                  /\ "wins" \notin DOMAIN next /\ "panes" \notin DOMAIN next
  BY <1>3
<1>5. AnyStage(next) /\ next.at \notin SwapAts
  BY <1>4 DEF AnyStage, SwapAts
<1>6. \A r : ~HasWin(next, r) /\ ~HasPaneRef(next, r)
  BY <1>4 DEF HasWin, HasPaneRef
<1> QED BY <1>1, <1>4, <1>5, <1>6, AnyStays

\* The snapshot goes among the layouts, later than it was taken.
LEMMA AnySaveStore ==
  ASSUME AnyInv, NEW c \in Clients, SaveStore(c)
  PROVE  AnyInv'
<1>1. h[c].at = "save_store" /\ UNCHANGED <<windows, active>> /\ Goto(c, Idle) /\ Aside
  BY DEF SaveStore
<1>2. PICK n, snap : n = h[c].layout /\ snap = h[c].snap
  OBVIOUS
<1>3. n \in LayoutNames /\ FitLayout(snap) /\ FitLayouts
  BY <1>1, <1>2, AnyParts DEF AnyStage
<1>4. SaveLayout(n, snap)
  BY <1>2 DEF SaveStore
<1>5. FitLayouts'
  BY <1>3, <1>4, StoreFits
<1>6. /\ Fit(windows, active)' /\ WinsApart(windows')
      /\ "swap" \notin Ops => RefsApart(windows')
  <2>1. Fit(windows, active) /\ WinsApart(windows) /\ ("swap" \notin Ops => RefsApart(windows))
    BY AnyParts
  <2> QED BY <1>1, <2>1
<1>7. Idle.at \in PlainAts /\ "wins" \notin DOMAIN Idle /\ "panes" \notin DOMAIN Idle
  BY DEF Idle, PlainAts
<1>8. Detach(Nothing, Nothing) /\ DOMAIN Nothing = {}
  BY <1>1 DEF Aside, Nothing
<1> QED BY <1>1, <1>5, <1>6, <1>7, <1>8, PlainAt, AnyGoes DEF HasWin, HasPaneRef

\* RestoreSnapshot replaces the session, however it changed since the layout was read.
LEMMA AnyApplyRestore ==
  ASSUME AnyInv, AddressesSuffice, NEW c \in Clients, ApplyRestore(c)
  PROVE  AnyInv'
<1>1. h[c].at = "apply_restore" /\ Aside
  BY DEF ApplyRestore
<1>2. FitLayout(h[c].snap)
  BY <1>1, AnyParts DEF AnyStage
<1>3. /\ Fit(windows, active)' /\ RefsApart(windows') /\ WinsApart(windows')
      /\ layouts' = layouts
  BY <1>2, RestoreStep
<1>4. FitLayouts'
  BY <1>3, AnyParts, LayoutsKept
<1>5. \E next : /\ Goto(c, next) /\ next.at \in PlainAts
                /\ "wins" \notin DOMAIN next /\ "panes" \notin DOMAIN next
  BY DEF ApplyRestore, PlainAts
<1>6. PICK next : /\ Goto(c, next) /\ next.at \in PlainAts
                  /\ "wins" \notin DOMAIN next /\ "panes" \notin DOMAIN next
  BY <1>5
<1>7. Detach(Nothing, Nothing) /\ DOMAIN Nothing = {}
  BY <1>1 DEF Aside, Nothing
<1> QED BY <1>3, <1>4, <1>6, <1>7, PlainAt, AnyGoes DEF HasWin, HasPaneRef

\* handlePaneSwap remembers the first pane and its window ...
LEMMA AnySwapFindA ==
  ASSUME AnyInv, NEW c \in Clients, SwapFindA(c)
  PROVE  AnyInv'
<1>1. UNCHANGED mvars /\ Aside /\ "swap" \in Ops
  BY DEF SwapFindA, Asks
<1>2. PICK idA \in TargetIDs, idB \in TargetIDs, i \in DOMAIN windows :
        \E j \in DOMAIN windows[i].panes :
          Goto(c, [at |-> "swap_find", ids |-> <<idA, idB>>,
                   wins |-> <<windows[i].ref>>, panes |-> <<windows[i].panes[j].ref>>])
  BY DEF SwapFindA
<1>3. PICK j \in DOMAIN windows[i].panes :
          Goto(c, [at |-> "swap_find", ids |-> <<idA, idB>>,
                   wins |-> <<windows[i].ref>>, panes |-> <<windows[i].panes[j].ref>>])
  BY <1>2
<1>4. PICK w, r : w = windows[i].ref /\ r = windows[i].panes[j].ref
  OBVIOUS
<1>5. LiveWindow(w) /\ LivePane(r)
  BY <1>4 DEF LiveWindow, LivePane
<1>6. w \in WinRefs /\ r \in PaneRefs
  <2>1. windows[i] \in WindowState /\ windows[i].panes \in Seq(PaneState)
        /\ j \in 1 .. Len(windows[i].panes)
    BY AnyParts, WindowShape
  <2>2. windows[i].panes[j] \in PaneState
    BY <2>1, ElementOfSeq
  <2> QED BY <1>4, <2>1, <2>2 DEF WindowState, PaneState
<1>7. PICK next : next = [at |-> "swap_find", ids |-> <<idA, idB>>, wins |-> <<w>>, panes |-> <<r>>]
  OBVIOUS
<1>8. /\ Goto(c, next) /\ next.at = "swap_find" /\ next.wins = <<w>> /\ next.panes = <<r>>
      /\ "wins" \in DOMAIN next /\ "panes" \in DOMAIN next
  BY <1>3, <1>4, <1>7
<1>9. AnyStage(next)
  BY <1>6, <1>8 DEF AnyStage, SwapAts
<1>10. /\ \A x : HasWin(next, x) => WinKnown(x)
       /\ \A x : HasPaneRef(next, x) => PaneKnown(x)
  BY <1>5, <1>8, OneOf DEF HasWin, HasPaneRef, WinKnown, PaneKnown
<1> QED BY <1>1, <1>8, <1>9, <1>10, AnyStays

\* ... and the second.
LEMMA AnySwapFindB ==
  ASSUME AnyInv, NEW c \in Clients, SwapFindB(c)
  PROVE  AnyInv'
<1>1. h[c].at = "swap_find" /\ UNCHANGED mvars /\ Aside
  BY DEF SwapFindB
<1>2. PICK q : q = h[c]
  OBVIOUS
<1>3. /\ q.at = "swap_find" /\ "swap" \in Ops
      /\ "wins" \in DOMAIN q /\ q.wins \in Seq(WinRefs) /\ Len(q.wins) = 1
      /\ "panes" \in DOMAIN q /\ q.panes \in Seq(PaneRefs) /\ Len(q.panes) = 1
  <2>1. AnyStage(q) /\ ("swap" \notin Ops => q.at \notin SwapAts)
    BY <1>2, AnyParts
  <2> QED BY <1>1, <1>2, <2>1 DEF AnyStage, SwapAts
<1>4. CASE Goto(c, Idle)
  <2>1. Idle.at \in PlainAts /\ "wins" \notin DOMAIN Idle /\ "panes" \notin DOMAIN Idle
    BY DEF Idle, PlainAts
  <2> QED BY <1>1, <1>4, <2>1, HoldsNothing, AnyPlain
<1>5. CASE \E i \in DOMAIN windows : \E j \in DOMAIN windows[i].panes :
             Goto(c, [q EXCEPT !.at = "swap_splits",
                               !.wins = Append(@, windows[i].ref),
                               !.panes = Append(@, windows[i].panes[j].ref)])
  <2>1. PICK i \in DOMAIN windows : \E j \in DOMAIN windows[i].panes :
             Goto(c, [q EXCEPT !.at = "swap_splits",
                               !.wins = Append(@, windows[i].ref),
                               !.panes = Append(@, windows[i].panes[j].ref)])
    BY <1>5
  <2>2. PICK j \in DOMAIN windows[i].panes :
             Goto(c, [q EXCEPT !.at = "swap_splits",
                               !.wins = Append(@, windows[i].ref),
                               !.panes = Append(@, windows[i].panes[j].ref)])
    BY <2>1
  <2>3. PICK w, r : w = windows[i].ref /\ r = windows[i].panes[j].ref
    OBVIOUS
  <2>4. LiveWindow(w) /\ LivePane(r)
    BY <2>3 DEF LiveWindow, LivePane
  <2>5. w \in WinRefs /\ r \in PaneRefs
    <3>1. windows[i] \in WindowState /\ windows[i].panes \in Seq(PaneState)
          /\ j \in 1 .. Len(windows[i].panes)
      BY AnyParts, WindowShape
    <3>2. windows[i].panes[j] \in PaneState
      BY <3>1, ElementOfSeq
    <3> QED BY <2>3, <3>1, <3>2 DEF WindowState, PaneState
  <2>6. PICK next : next = [q EXCEPT !.at = "swap_splits", !.wins = Append(@, w), !.panes = Append(@, r)]
    OBVIOUS
  <2>7. Goto(c, next)
    BY <2>2, <2>3, <2>6
  <2>8. DOMAIN next = DOMAIN q
    BY <2>6
  <2>9. next.at = "swap_splits" /\ next.wins = Append(q.wins, w) /\ next.panes = Append(q.panes, r)
    BY <1>3, <2>6
  <2>10. /\ next.wins \in Seq(WinRefs) /\ Len(next.wins) = 2
         /\ next.panes \in Seq(PaneRefs) /\ Len(next.panes) = 2
         /\ \A x \in ToSet(next.wins) : x \in ToSet(q.wins) \/ x = w
         /\ \A x \in ToSet(next.panes) : x \in ToSet(q.panes) \/ x = r
    BY <1>3, <2>5, <2>9, TwoOf
  <2>11. AnyStage(next)
    BY <1>3, <2>8, <2>9, <2>10 DEF AnyStage, SwapAts
  <2>12. /\ \A x : HasWin(next, x) => WinKnown(x)
         /\ \A x : HasPaneRef(next, x) => PaneKnown(x)
    BY <1>2, <1>3, <2>4, <2>10, HeldBy DEF HasWin, HasPaneRef, WinKnown, PaneKnown
  <2> QED BY <1>1, <1>3, <2>7, <2>11, <2>12, AnyStays
<1> QED BY <1>2, <1>4, <1>5 DEF SwapFindB

\* A request in the middle of a swap.
LEMMA SwapParts ==
  ASSUME AnyInv, NEW c \in Clients, h[c].at \in {"swap_splits", "swap_seek", "swap_write"}
  PROVE  /\ "swap" \in Ops
         /\ "wins" \in DOMAIN h[c] /\ h[c].wins \in Seq(WinRefs) /\ Len(h[c].wins) = 2
         /\ "panes" \in DOMAIN h[c] /\ h[c].panes \in Seq(PaneRefs) /\ Len(h[c].panes) = 2
         /\ \A n \in {1, 2} : /\ h[c].wins[n] \in HeldWindows(h)
                              /\ h[c].panes[n] \in HeldPanes(h)
                              /\ BoundedWindow(WindowOf(h[c].wins[n]))
                              /\ PaneOf(h[c].panes[n]) \in PaneState
<1>1. PICK q : q = h[c]
  OBVIOUS
<1>2. AnyStage(q) /\ ("swap" \notin Ops => q.at \notin SwapAts) /\ HeldOK
  BY <1>1, AnyParts
<1>3. /\ "swap" \in Ops
      /\ "wins" \in DOMAIN q /\ q.wins \in Seq(WinRefs) /\ Len(q.wins) = 2
      /\ "panes" \in DOMAIN q /\ q.panes \in Seq(PaneRefs) /\ Len(q.panes) = 2
  BY <1>1, <1>2 DEF AnyStage, SwapAts
<1>4. \A n \in {1, 2} : n \in DOMAIN q.wins /\ n \in DOMAIN q.panes
  BY <1>3, LenProperties
<1>5. \A n \in {1, 2} : q.wins[n] \in HeldWindows(h) /\ q.panes[n] \in HeldPanes(h)
  BY <1>1, <1>3, <1>4, HeldBy DEF HasWin, HasPaneRef, ToSet
<1> QED BY <1>1, <1>2, <1>3, <1>5 DEF HeldOK

\* The next stage of a swap has the same windows and panes as this one.
LEMMA SwapGoesOn ==
  ASSUME AnyInv, NEW c \in Clients, h[c].at \in {"swap_splits", "swap_seek", "swap_write"},
         NEW next, next.at \in {"swap_seek", "swap_write"}, next.side \in {1, 2},
         "wins" \in DOMAIN next, next.wins = h[c].wins,
         "panes" \in DOMAIN next, next.panes = h[c].panes
  PROVE  /\ AnyStage(next)
         /\ \A x : HasWin(next, x) => WinKnown(x)
         /\ \A x : HasPaneRef(next, x) => PaneKnown(x)
<1>1. AnyStage(next)
  BY SwapParts DEF AnyStage, SwapAts
<1>2. /\ \A x : HasWin(next, x) => WinKnown(x)
      /\ \A x : HasPaneRef(next, x) => PaneKnown(x)
  BY SwapParts, HeldBy DEF HasWin, HasPaneRef, WinKnown, PaneKnown
<1> QED BY <1>1, <1>2

\* What SwapSide records.
LEMMA SwapSideFields ==
  ASSUME NEW c, NEW n \in {1, 2}, NEW next, next = SwapSide(c, n)
  PROVE  /\ next.at = "swap_seek" /\ next.side \in {1, 2}
         /\ "wins" \in DOMAIN next /\ next.wins = h[c].wins
         /\ "panes" \in DOMAIN next /\ next.panes = h[c].panes
BY DEF SwapSide

\* After either side the request goes on with a swap or ends.
LEMMA SwapNext ==
  ASSUME AnyInv, NEW c \in Clients, h[c].at \in {"swap_splits", "swap_seek", "swap_write"},
         NEW next, next = [at |-> "broadcast"] \/ \E n \in {1, 2} : next = SwapSide(c, n)
  PROVE  /\ AnyStage(next)
         /\ \A x : HasWin(next, x) => WinKnown(x)
         /\ \A x : HasPaneRef(next, x) => PaneKnown(x)
<1>1. CASE next = [at |-> "broadcast"]
  <2>1. next.at \in PlainAts /\ "wins" \notin DOMAIN next /\ "panes" \notin DOMAIN next
    BY <1>1 DEF PlainAts
  <2> QED BY <2>1, PlainGoes
<1>2. CASE \E n \in {1, 2} : next = SwapSide(c, n)
  <2>1. PICK n \in {1, 2} : next = SwapSide(c, n)
    BY <1>2
  <2> QED BY <2>1, SwapSideFields, SwapGoesOn
<1> QED BY <1>1, <1>2

\* Either side is the last or followed by the second.
LEMMA AfterSideNext ==
  ASSUME NEW c
  PROVE  AfterSide(c) = [at |-> "broadcast"] \/ \E n \in {1, 2} : AfterSide(c) = SwapSide(c, n)
BY DEF AfterSide

\* The Split fields change places in panes that may be in other windows by now, or gone.
LEMMA AnySwapSplits ==
  ASSUME AnyInv, NEW c \in Clients, SwapSplits(c)
  PROVE  AnyInv'
<1>1. h[c].at = "swap_splits"
  BY DEF SwapSplits
<1>2. PICK one, two : one = h[c].panes[1] /\ two = h[c].panes[2]
  OBVIOUS
<1>3. PICK written : written = SwapWritten(one, two)
  OBVIOUS
<1>4. /\ WritesPanes(written) /\ UNCHANGED <<active, layouts, pipes>>
      /\ Detach(Nothing, written)
  BY <1>2, <1>3 DEF SwapSplits, WritesPanes, SwapWritten
<1>5. \E next : /\ Goto(c, next)
                /\ next = [at |-> "broadcast"] \/ \E n \in {1, 2} : next = SwapSide(c, n)
  BY DEF SwapSplits
<1>6. PICK next : /\ Goto(c, next)
                  /\ next = [at |-> "broadcast"] \/ \E n \in {1, 2} : next = SwapSide(c, n)
  BY <1>5
<1>7. "swap" \in Ops /\ PaneOf(one) \in PaneState /\ PaneOf(two) \in PaneState
  BY <1>1, <1>2, SwapParts
<1>8. \A r \in DOMAIN written : written[r] \in PaneState
  BY <1>3, <1>7, SwapWrittenTyped
<1>9. Fit(windows, active)' /\ WinsApart(windows') /\ FitLayouts'
  <2>1. Fit(windows', active) /\ SameWins(windows, windows')
    BY <1>4, <1>8, AnyParts, WritesTyped
  <2>2. WinsApart(windows')
    BY <2>1, AnyParts, SameWinsApart
  <2>3. Fit(windows, active)'
    BY <1>4, <2>1
  <2>4. FitLayouts'
    BY <1>4, AnyParts, LayoutsKept
  <2> QED BY <2>2, <2>3, <2>4
<1>10. /\ AnyStage(next)
       /\ \A x : HasWin(next, x) => WinKnown(x)
       /\ \A x : HasPaneRef(next, x) => PaneKnown(x)
  BY <1>1, <1>6, SwapNext
<1>11. \A r \in DOMAIN Nothing : BoundedWindow(Nothing[r])
  BY DEF Nothing
<1> QED BY <1>4, <1>6, <1>7, <1>8, <1>9, <1>10, <1>11, AnyGoes

\* The slot is sought in a window that may be gone.
LEMMA AnySwapSeek ==
  ASSUME AnyInv, NEW c \in Clients, SwapSeek(c)
  PROVE  AnyInv'
<1>1. h[c].at = "swap_seek" /\ UNCHANGED mvars /\ Aside
  BY DEF SwapSeek
<1>2. "swap" \in Ops /\ h[c].side \in {1, 2}
  BY <1>1, SwapParts, AnyParts DEF AnyStage
<1>3. CASE Goto(c, AfterSide(c))
  <2>1. PICK next : next = AfterSide(c)
    OBVIOUS
  <2>2. /\ AnyStage(next)
        /\ \A x : HasWin(next, x) => WinKnown(x)
        /\ \A x : HasPaneRef(next, x) => PaneKnown(x)
    BY <1>1, <2>1, AfterSideNext, SwapNext
  <2> QED BY <1>1, <1>2, <1>3, <2>1, <2>2, AnyStays
<1>4. CASE \E slot : Goto(c, [at |-> "swap_write", side |-> h[c].side, ids |-> h[c].ids,
                              wins |-> h[c].wins, panes |-> h[c].panes, slot |-> slot])
  <2>1. PICK slot : Goto(c, [at |-> "swap_write", side |-> h[c].side, ids |-> h[c].ids,
                             wins |-> h[c].wins, panes |-> h[c].panes, slot |-> slot])
    BY <1>4
  <2>2. PICK next : next = [at |-> "swap_write", side |-> h[c].side, ids |-> h[c].ids,
                            wins |-> h[c].wins, panes |-> h[c].panes, slot |-> slot]
    OBVIOUS
  <2>3. /\ Goto(c, next) /\ next.at = "swap_write" /\ next.side \in {1, 2}
        /\ "wins" \in DOMAIN next /\ next.wins = h[c].wins
        /\ "panes" \in DOMAIN next /\ next.panes = h[c].panes
    BY <1>2, <2>1, <2>2
  <2>4. /\ AnyStage(next)
        /\ \A x : HasWin(next, x) => WinKnown(x)
        /\ \A x : HasPaneRef(next, x) => PaneKnown(x)
    BY <1>1, <2>3, SwapGoesOn
  <2> QED BY <1>1, <1>2, <2>3, <2>4, AnyStays
<1> QED BY <1>3, <1>4 DEF SwapSeek

\* A pane is written into a slot of a window that may be gone, or too short.
LEMMA AnySwapWrite ==
  ASSUME AnyInv, NEW c \in Clients, SwapWrite(c)
  PROVE  AnyInv'
<1>1. h[c].at = "swap_write" /\ UNCHANGED <<active, layouts, pipes>>
  BY DEF SwapWrite
<1>2. "swap" \in Ops /\ h[c].side \in {1, 2}
  BY <1>1, SwapParts, AnyParts DEF AnyStage
<1>3. PICK r, slot, pane : /\ r = h[c].wins[h[c].side] /\ slot = h[c].slot
                           /\ pane = PaneOf(h[c].panes[3 - h[c].side])
  OBVIOUS
<1>4. BoundedWindow(WindowOf(r)) /\ pane \in PaneState
  <2>1. 3 - h[c].side \in {1, 2}
    BY <1>2
  <2> QED BY <1>1, <1>2, <1>3, <2>1, SwapParts
<1>5. PICK moved : moved = [WindowOf(r) EXCEPT !.panes[slot] = pane]
  OBVIOUS
<1>6. CASE WritesWindow(r, moved) /\ Goto(c, AfterSide(c)) /\ Detach([x \in {r} |-> moved], Nothing)
  <2>1. /\ Fit(windows', active) /\ SameWins(windows, windows')
        /\ BoundedWindow(moved)
    BY <1>4, <1>5, <1>6, AnyParts, WritesOneTyped
  <2>2. WinsApart(windows')
    BY <2>1, AnyParts, SameWinsApart
  <2>3. Fit(windows, active)'
    BY <1>1, <2>1
  <2>4. FitLayouts'
    BY <1>1, AnyParts, LayoutsKept
  <2>5. PICK next : next = AfterSide(c)
    OBVIOUS
  <2>6. /\ AnyStage(next)
        /\ \A x : HasWin(next, x) => WinKnown(x)
        /\ \A x : HasPaneRef(next, x) => PaneKnown(x)
    BY <1>1, <2>5, AfterSideNext, SwapNext
  <2>7. PICK win : win = [x \in {r} |-> moved]
    OBVIOUS
  <2>8. \A x \in DOMAIN win : BoundedWindow(win[x])
    BY <2>1, <2>7
  <2>9. Goto(c, next) /\ Detach(win, Nothing)
    BY <1>6, <2>5, <2>7
  <2>10. \A x \in DOMAIN Nothing : Nothing[x] \in PaneState
    BY DEF Nothing
  <2> QED BY <1>2, <2>2, <2>3, <2>4, <2>6, <2>8, <2>9, <2>10, AnyGoes
<1>7. CASE Goto(c, Idle) /\ UNCHANGED windows /\ Detach(Nothing, Nothing)
  <2>1. UNCHANGED mvars /\ Aside
    BY <1>1, <1>7 DEF mvars, Aside
  <2>2. Idle.at \in PlainAts /\ "wins" \notin DOMAIN Idle /\ "panes" \notin DOMAIN Idle
    BY DEF Idle, PlainAts
  <2> QED BY <1>7, <2>1, <2>2, HoldsNothing, AnyPlain
<1> QED BY <1>3, <1>5, <1>6, <1>7 DEF SwapWrite, WritesWindow

\* The session starts fit, and no request is in progress.
LEMMA AnyInit ==
  ASSUME StartsFit, StartsOwn, Init
  PROVE  AnyInv
<1>1. /\ windows = InitWindows /\ active = 0 /\ layouts = [n \in {} |-> {}]
      /\ h = [c \in Clients |-> Idle]
  BY DEF Init
<1>2. Fit(windows, active) /\ RefsApart(windows) /\ WinsApart(windows)
  BY <1>1 DEF StartsFit, StartsOwn
<1>3. FitLayouts
  BY <1>1 DEF FitLayouts
<1>4. \A c \in Clients : /\ h[c] = Idle /\ h[c].at = "idle"
                         /\ "wins" \notin DOMAIN h[c] /\ "panes" \notin DOMAIN h[c]
  BY <1>1 DEF Idle
<1>5. HeldOK
  <2>1. HeldWindows(h) = {} /\ HeldPanes(h) = {}
    BY <1>4 DEF HeldWindows, HeldPanes
  <2>2. HeldFew
    BY <2>1, FS_EmptySet DEF HeldFew
  <2> QED BY <2>1, <2>2 DEF HeldOK
<1>6. DOMAIN h = Clients
  BY <1>1
<1>7. \A c \in Clients : AnyStage(h[c])
  BY <1>4, PlainAt DEF PlainAts
<1>8. NoSwap
  BY <1>2, <1>4 DEF NoSwap, SwapAts
<1> QED BY <1>2, <1>3, <1>5, <1>6, <1>7, <1>8 DEF AnyInv

\* Every step of every request preserves the invariant.
LEMMA AnyNext ==
  ASSUME AnyInv, AddressesSuffice, [Next]_vars
  PROVE  AnyInv'
<1>1. ASSUME NEW c \in Clients, Request(c) PROVE AnyInv'
  <2>1. \/ WindowCreate(c) \/ WindowClose(c) \/ WindowRename(c) \/ WindowFocus(c)
        \/ SplitFind(c) \/ PaneClose(c) \/ KillWindows(c) \/ SwapFindA(c)
        \/ SaveSnapshot(c) \/ ApplyBefore(c)
    BY <1>1 DEF Request
  <2> QED BY <2>1, AnyWindowCalls, AnySplitFind, AnyRemoves, AnyKillWindows, AnySwapFindA,
             AnySnapshots
<1>2. ASSUME NEW c \in Clients, Step(c) PROVE AnyInv'
  <2>1. CASE \/ BroadcastLayoutUpdate(c) \/ SplitName(c) \/ SplitAdd(c) \/ SplitRegister(c)
             \/ SplitUndo(c) \/ PaneCloseDeregister(c)
    BY <2>1, AnyEnds, AnySplitName, AnySplitAdd, AnyEdits, AnyRemoves
  <2>2. CASE \/ KillOpenWindow(c) \/ KillReadWindow(c) \/ KillCollected(c)
             \/ KillRemove(c) \/ KillDeregister(c)
    BY <2>2, AnyKillReads, AnyEnds, AnyRemoves, AnyEdits
  <2>3. CASE SwapFindB(c) \/ SwapSplits(c) \/ SwapSeek(c) \/ SwapWrite(c)
    BY <2>3, AnySwapFindB, AnySwapSplits, AnySwapSeek, AnySwapWrite
  <2>4. CASE \/ SaveStore(c) \/ ApplyRestore(c) \/ ApplyAfter(c)
             \/ ApplyDeregister(c) \/ ApplyRegister(c) \/ ApplyDone(c)
    BY <2>4, AnySaveStore, AnyApplyRestore, AnyEnds, AnyEdits
  <2> QED BY <1>2, <2>1, <2>2, <2>3, <2>4 DEF Step
<1>3. ASSUME UNCHANGED vars PROVE AnyInv'
  <2>1. windows' = windows /\ active' = active /\ layouts' = layouts
        /\ h' = h /\ detached' = detached
    BY <1>3 DEF vars, mvars, svars
  <2>2. Fit(windows, active)' /\ WinsApart(windows)' /\ DOMAIN h' = Clients
    BY <2>1 DEF AnyInv
  <2>3. FitLayouts'
    BY <2>1, LayoutsKept DEF AnyInv
  <2>4. HeldOK'
    <3>1. HeldWindows(h') = HeldWindows(h) /\ HeldPanes(h') = HeldPanes(h)
      BY <2>1
    <3>2. ASSUME NEW r PROVE WindowOf(r)' = WindowOf(r)
      BY <2>1 DEF WindowOf, LiveWindow
    <3>3. ASSUME NEW r PROVE PaneOf(r)' = PaneOf(r)
      BY <2>1 DEF PaneOf, LivePane
    <3>4. HeldOK
      BY DEF AnyInv
    <3> QED BY <3>1, <3>2, <3>3, <3>4 DEF HeldOK, HeldFew
  <2>5. \A c \in Clients : AnyStage(h[c])'
    <3>1. \A c \in Clients : AnyStage(h[c])
      BY DEF AnyInv
    <3> QED BY <2>1, <3>1
  <2>6. "swap" \notin Ops => NoSwap'
    BY <2>1 DEF AnyInv, NoSwap, RefsApart
  <2> QED BY <2>2, <2>3, <2>4, <2>5, <2>6 DEF AnyInv
<1> QED BY <1>1, <1>2, <1>3 DEF Next

-----------------------------------------------------------------------------
(* Addresses do not run out. *)

\* With all naturals for addresses there are always more: what is live or held is finite.
LEMMA NaturalsSuffice ==
  ASSUME AnyInv, WinRefs = Nat, PaneRefs = Nat
  PROVE  AddressesSuffice
<1>1. Fit(windows, active) /\ windows \in Seq(WindowState) /\ PanesBounded(windows) /\ HeldFew
  BY DEF AnyInv, Fit, HeldOK
<1>2. /\ IsFiniteSet(WinsAt(windows) \cup HeldWindows(h))
      /\ IsFiniteSet(PanesAt(windows) \cup HeldPanes(h))
  BY <1>1, FewRefs, FS_Union DEF HeldFew
<1>3. FreeWins = Nat \ (WinsAt(windows) \cup HeldWindows(h))
  BY DEF FreeWins, LiveWindow, WinsAt
<1>4. FreePanes = Nat \ (PanesAt(windows) \cup HeldPanes(h))
  <2>1. ASSUME NEW r PROVE LivePane(r) <=> r \in PanesAt(windows)
    BY <1>1, LivePaneSpot DEF PanesAt
  <2> QED BY <2>1 DEF FreePanes
<1>5. ASSUME NEW k \in Nat \ {0} PROVE WinLeft(k)
  <2>1. PICK U, S : U = WinsAt(windows) \cup HeldWindows(h) /\ S = FreeWins
    OBVIOUS
  <2>2. IsFiniteSet(U) /\ S = Nat \ U
    BY <1>2, <1>3, <2>1
  <2>3. HasKth(S, k)
    BY <2>2, KthLeft
  <2> QED BY <2>1, <2>3 DEF WinLeft, HasKth
<1>6. ASSUME NEW k \in Nat \ {0} PROVE PaneLeft(k)
  <2>1. PICK U, S : U = PanesAt(windows) \cup HeldPanes(h) /\ S = FreePanes
    OBVIOUS
  <2>2. IsFiniteSet(U) /\ S = Nat \ U
    BY <1>2, <1>4, <2>1
  <2>3. HasKth(S, k)
    BY <2>2, KthLeft
  <2> QED BY <2>1, <2>3 DEF PaneLeft, HasKth
<1>7. ASSUME NEW c \in Clients, h[c].at = "apply_restore", NEW i \in DOMAIN h[c].snap.windows
      PROVE  /\ WinLeft(i)
             /\ \A j \in DOMAIN h[c].snap.windows[i].panes : PaneLeft((i - 1) * MaxPanes + j)
  <2>1. FitLayout(h[c].snap)
    BY <1>7 DEF AnyInv, AnyStage
  <2>2. PICK ws : ws = h[c].snap.windows
    OBVIOUS
  <2>3. ws \in Seq([name : Names \ {NoName}, panes : Seq([id : TargetIDs, split : Splits])])
    BY <2>1, <2>2 DEF FitLayout, SavedLayout
  <2>4. i \in Nat \ {0} /\ ws[i].panes \in Seq([id : TargetIDs, split : Splits])
    <3>1. PICK T : T = [name : Names \ {NoName}, panes : Seq([id : TargetIDs, split : Splits])]
      OBVIOUS
    <3>2. ws \in Seq(T) /\ i \in DOMAIN ws
      BY <1>7, <2>2, <2>3, <3>1
    <3>3. i \in 1 .. Len(ws) /\ Len(ws) \in Nat /\ ws[i] \in T
      BY <3>2, LenProperties, ElementOfSeq
    <3> QED BY <3>1, <3>3
  <2>5. ASSUME NEW j \in DOMAIN ws[i].panes PROVE PaneLeft((i - 1) * MaxPanes + j)
    <3>1. j \in Nat \ {0}
      BY <2>4, LenProperties
    <3>2. (i - 1) * MaxPanes \in Nat
      BY <2>4, MaxPanesAssumption
    <3>3. (i - 1) * MaxPanes + j \in Nat \ {0}
      BY <3>1, <3>2
    <3> QED BY <1>6, <3>3
  <2> QED BY <1>5, <2>2, <2>4, <2>5
<1>8. WinLeft(1) /\ PaneLeft(1)
  BY <1>5, <1>6
<1> QED BY <1>7, <1>8 DEF AddressesSuffice

\* The hypothesis of the theorems here, that a handler which creates an object finds a free
\* address, is no hypothesis when every natural number is one, however many clients there
\* are and whatever they ask for: Go's allocator is not what the handlers depend on.
THEOREM AllocatorNeverFails ==
  ASSUME StartsFit, StartsOwn, WinRefs = Nat, PaneRefs = Nat
  PROVE  Spec => []AddressesSuffice
<1>1. Init => AnyInv
  BY AnyInit
<1>2. AnyInv => AddressesSuffice
  BY NaturalsSuffice
<1>3. AnyInv /\ AddressesSuffice /\ [Next]_vars => AnyInv'
  BY AnyNext
<1> QED BY <1>1, <1>2, <1>3, PTL DEF Spec

-----------------------------------------------------------------------------
(* The theorems. *)

\* With panes apart, no two windows hold the same one.
LEMMA ApartNotShared ==
  ASSUME windows \in Seq(WindowState), RefsApart(windows)
  PROVE  NoSharedPanes
<1> SUFFICES ASSUME NEW i \in DOMAIN windows, NEW k \in DOMAIN windows,
                    NEW j \in DOMAIN windows[i].panes, NEW l \in DOMAIN windows[k].panes,
                    windows[i].panes[j].ref = windows[k].panes[l].ref
             PROVE  i = k
  BY DEF NoSharedPanes
<1>1. i \in Nat /\ j \in Nat /\ k \in Nat /\ l \in Nat
  BY WindowShape
<1>2. PICK p, q : p = <<i, j>> /\ q = <<k, l>>
  OBVIOUS
<1>3. /\ p \in Spots(windows) /\ q \in Spots(windows) /\ p[1] = i /\ q[1] = k
      /\ On(windows, p).ref = On(windows, q).ref
  BY <1>1, <1>2 DEF Spots, On
<1>4. p = q
  BY <1>3 DEF RefsApart
<1> QED BY <1>3, <1>4

\* Whatever any number of clients ask for, in whatever order their calls interleave, also
\* through pointers to windows and panes that are gone by then: the state has its type and
\* no window holds more than MaxPanes panes.
THEOREM HandlersKeepTypes ==
  ASSUME StartsFit, StartsOwn
  PROVE  Spec /\ []AddressesSuffice => []TypeOK
<1>1. Init => AnyInv
  BY AnyInit
<1>2. AnyInv /\ AddressesSuffice /\ [Next]_vars => AnyInv'
  BY AnyNext
<1>3. AnyInv => TypeOK
  BY InvIsFit DEF AnyInv, Inv
<1> QED BY <1>1, <1>2, <1>3, PTL DEF Spec

\* ... window names stay unique, in the session and in every saved layout, though a snapshot
\* is taken in one call and saved in another ...
THEOREM HandlersKeepNamesUnique ==
  ASSUME StartsFit, StartsOwn
  PROVE  Spec /\ []AddressesSuffice => []NamesUnique
<1>1. Init => AnyInv
  BY AnyInit
<1>2. AnyInv /\ AddressesSuffice /\ [Next]_vars => AnyInv'
  BY AnyNext
<1>3. AnyInv => NamesUnique
  BY InvIsFit DEF AnyInv, Inv
<1> QED BY <1>1, <1>2, <1>3, PTL DEF Spec

\* ... and the focused index names a window.
THEOREM HandlersKeepFocusInRange ==
  ASSUME StartsFit, StartsOwn
  PROVE  Spec /\ []AddressesSuffice => []ActiveInRange
<1>1. Init => AnyInv
  BY AnyInit
<1>2. AnyInv /\ AddressesSuffice /\ [Next]_vars => AnyInv'
  BY AnyNext
<1>3. AnyInv => ActiveInRange
  BY InvIsFit DEF AnyInv, Inv
<1> QED BY <1>1, <1>2, <1>3, PTL DEF Spec

\* Without swaps no pane object is ever in two windows, however many requests interleave:
\* of all handlers handlePaneSwap alone can put a pane where another request has already
\* put it ("Panes are never shared between windows", architecture.md:53).
THEOREM OnlySwapsShare ==
  ASSUME StartsFit, StartsOwn, "swap" \notin Ops
  PROVE  Spec /\ []AddressesSuffice => []NoSharedPanes
<1>1. Init => AnyInv
  BY AnyInit
<1>2. AnyInv /\ AddressesSuffice /\ [Next]_vars => AnyInv'
  BY AnyNext
<1>3. AnyInv => NoSharedPanes
  <2> SUFFICES ASSUME AnyInv PROVE NoSharedPanes
    OBVIOUS
  <2>1. windows \in Seq(WindowState) /\ RefsApart(windows)
    BY DEF AnyInv, Fit, NoSwap
  <2> QED BY <2>1, ApartNotShared
<1> QED BY <1>1, <1>2, <1>3, PTL DEF Spec
=============================================================================
