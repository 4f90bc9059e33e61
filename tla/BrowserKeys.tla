---------------------------- MODULE BrowserKeys ----------------------------
(***************************************************************************)
(* The keyboard and the mouse of the browser client: its modes, the search *)
(* bar, the prompt, the context menu, the title editor and key sequences.  *)
(*                                                                         *)
(* Every handler runs to its end before the next event, so each event is   *)
(* one step.  Which panes are on screen may change at any time, since the  *)
(* server's frames render the layout anew (see Browser).                   *)
(***************************************************************************)
EXTENDS Integers, Sequences

CONSTANTS Panes,
          NoPane,          \* null for a target ID
          Bindings,        \* what GET /bindings answers: keys and their action
          FocusActions,    \* pane.focus.left and the other three
          PromptActions,   \* those that ask for a name first
          DirectActions,   \* those carried out at once
          PaneActions      \* those of both that do nothing without a pane

ASSUME NoPaneAssumption == NoPane \notin Panes
ASSUME EscapeAssumption == [keys |-> <<"Escape">>, action |-> "mode.escape"] \in Bindings
ASSUME NoneAssumption == "none" \notin PromptActions   \* the action of no prompt
ASSUME EscapeIsItsOwn ==
    "mode.escape" \notin FocusActions \cup PromptActions \cup DirectActions \cup PaneActions
ASSUME NoConflict == \A x, y \in Bindings : x.keys = y.keys => x = y

VARIABLES screen,       \* the panes on screen
          focusedPane,  \* state.focusedPane
          mode,         \* state.mode
          swapSource,   \* state.swapSource
          typing,       \* the element that has the keyboard: "page", "search", "prompt", "title"
          bar,          \* is the search bar visible?
          overlay,      \* the action the visible prompt asks for, and its pane
          menu,         \* ctxPaneID, while the menu is visible
          strayed,      \* was the focus moved by a key since the menu opened?
          keySeq,       \* state.keySeq
          issued,       \* the last command carried out: sent to the server, or a
                        \* step to another match of the search
          escapes       \* Escapes pressed in a row, counted up to 2

keyvars == <<screen, focusedPane, mode, swapSource, typing, bar, overlay, menu, strayed,
             keySeq, issued, escapes>>

NoPrompt == [action |-> "none", id |-> NoPane, aimed |-> NoPane]

KeysInit == /\ screen \in SUBSET Panes
            /\ focusedPane \in IF screen = {} THEN {NoPane} ELSE screen
            /\ mode = "normal"
            /\ swapSource = NoPane
            /\ typing = "page"
            /\ bar = FALSE
            /\ overlay = NoPrompt
            /\ menu = NoPane
            /\ strayed = FALSE
            /\ keySeq = <<>>
            /\ issued = [action |-> "none"]
            /\ escapes = 0

-----------------------------------------------------------------------------
(* buildKeyTable: a key bound on its own hides the sequences it begins.    *)

Bound(keys) == {x.action : x \in {y \in Bindings : y.keys = keys}}

Sequence(keys) == IF Bound(<<keys[1]>>) = {} THEN Bound(keys) ELSE {}

Begins(k) == /\ Bound(<<k>>) = {}
             /\ \E x \in Bindings : Len(x.keys) = 2 /\ x.keys[1] = k

AllKeys == {x.keys[i] : x \in Bindings, i \in {1}}
           \cup {x.keys[2] : x \in {y \in Bindings : Len(y.keys) = 2}}

\* Those bound, and those that the page or an input handles itself.
KeyNames == AllKeys \cup {"Enter", "n", "N"}

-----------------------------------------------------------------------------
(* What the actions do. *)

SetMode(m) == /\ mode' = m
              /\ swapSource' = IF m = "swap" THEN focusedPane ELSE NoPane

\* openSearch, closeSearch: the bar's input takes the keyboard, or loses it; t
\* is the element that has it otherwise.
OpenSearch == SetMode("search") /\ bar' = TRUE /\ typing' = "search"

\* Faulty forms: the bar stays; its input keeps the keyboard.
CloseSearch_KeepsBar(t) == /\ SetMode("normal")
                           /\ typing' = IF t = "search" THEN "page" ELSE t
                           /\ UNCHANGED bar
CloseSearch_KeepsInput(t) == /\ SetMode("normal")
                             /\ bar' = FALSE
                             /\ typing' = t

CloseSearch(t) == /\ SetMode("normal")
                  /\ bar' = FALSE
                  /\ typing' = IF t = "search" THEN "page" ELSE t

Issue(action, id, aimed) ==
    issued' = [action |-> action, id |-> id, aimed |-> aimed, strayed |-> strayed]

modes == <<mode, swapSource, bar>>

\* focusRelative: another pane on screen, if one lies in that direction; the
\* first one if the focused pane is not there.
FocusRelative ==
    /\ IF screen = {} THEN UNCHANGED focusedPane
       ELSE focusedPane' \in screen
    /\ strayed' = (strayed \/ (menu # NoPane /\ focusedPane' # focusedPane))

\* dispatch from a key: the pane is the focused one.
Dispatch(action, t) ==
    \/ /\ action \in PaneActions /\ focusedPane = NoPane
       /\ typing' = t
       /\ UNCHANGED <<focusedPane, strayed, modes, overlay, menu, issued>>
    \/ /\ action \in FocusActions
       /\ FocusRelative
       /\ typing' = t
       /\ UNCHANGED <<modes, overlay, menu, issued>>
    \/ /\ action = "pane.swap" /\ focusedPane # NoPane
       /\ SetMode(IF mode = "swap" THEN "normal" ELSE "swap")
       /\ typing' = t
       /\ UNCHANGED <<focusedPane, strayed, bar, overlay, menu, issued>>
    \/ /\ action \in PromptActions /\ ~(action \in PaneActions /\ focusedPane = NoPane)
       /\ overlay' = [action |-> action, id |-> focusedPane, aimed |-> focusedPane]
       /\ typing' = "prompt"
       /\ UNCHANGED <<focusedPane, strayed, modes, menu, issued>>
    \/ /\ action \in DirectActions /\ ~(action \in PaneActions /\ focusedPane = NoPane)
       /\ Issue(action, focusedPane, focusedPane)
       /\ typing' = t
       /\ UNCHANGED <<focusedPane, strayed, modes, overlay, menu>>
    \/ /\ action = "search.open"
       /\ OpenSearch
       /\ UNCHANGED <<focusedPane, strayed, overlay, menu, issued>>
    \/ /\ action = "mode.escape"
       /\ CloseSearch(t)
       /\ menu' = NoPane
       /\ UNCHANGED <<focusedPane, strayed, overlay, issued>>

-----------------------------------------------------------------------------
(* keydown. *)

\* The prompt handles its own keys, as long as it has the keyboard.
PromptKey(k) ==
    /\ overlay # NoPrompt /\ typing = "prompt"
    /\ IF k \in {"Enter", "Escape"}
       THEN overlay' = NoPrompt /\ typing' = "page"
       ELSE UNCHANGED <<overlay, typing>>
    /\ \/ k = "Enter" /\ Issue(overlay.action, overlay.id, overlay.aimed)
       \/ UNCHANGED issued
    /\ UNCHANGED <<focusedPane, strayed, modes, menu, keySeq>>

\* The page leaves the keys to it, even if it has lost the keyboard.
PromptHides == /\ overlay # NoPrompt /\ typing # "prompt"
               /\ UNCHANGED <<focusedPane, strayed, modes, typing, overlay, menu, keySeq, issued>>

\* In search mode the page looks at Escape and Enter only.  The bar's input, while
\* it has the keyboard, handles both itself, to the same effect, and n and N too;
\* what is typed changes the query as well (see BrowserLines).
NextKeys == {"Enter"} \cup (IF typing = "search" THEN {"n"} ELSE {})
PrevKeys == IF typing = "search" THEN {"N"} ELSE {}

NavigateSearch(action) == Issue(action, NoPane, NoPane)

SearchKey(k, t) ==
    /\ overlay = NoPrompt /\ mode = "search"
    /\ IF k = "Escape" THEN CloseSearch(t) ELSE typing' = t /\ UNCHANGED modes
    /\ \/ k \in NextKeys /\ NavigateSearch("search.next")
       \/ k \in PrevKeys /\ NavigateSearch("search.prev")
       \/ k \notin NextKeys \cup PrevKeys /\ UNCHANGED issued
    /\ UNCHANGED <<focusedPane, strayed, overlay, menu, keySeq>>

\* Otherwise the key continues a sequence, or cancels it and stands for itself.
CommandKey(k, t) ==
    /\ overlay = NoPrompt /\ mode # "search"
    /\ LET continued == IF keySeq = <<>> THEN {} ELSE Sequence(Append(keySeq, k))
           actions == IF continued # {} THEN continued ELSE Bound(<<k>>)
       IN  \/ /\ \E action \in actions : Dispatch(action, t)
              /\ keySeq' = <<>>
           \/ /\ actions = {}
              /\ keySeq' = IF Begins(k) THEN <<k>> ELSE <<>>
              /\ typing' = t
              /\ UNCHANGED <<focusedPane, strayed, modes, overlay, menu, issued>>

\* The title editor ends at Enter and Escape; every key goes on to the page.
Press(k) == /\ LET t == IF typing = "title" /\ k \in {"Enter", "Escape"} THEN "page" ELSE typing
               IN  PromptKey(k) \/ PromptHides \/ SearchKey(k, t) \/ CommandKey(k, t)
            /\ escapes' = IF k # "Escape" THEN 0 ELSE IF escapes = 2 THEN 2 ELSE escapes + 1
            /\ UNCHANGED screen

-----------------------------------------------------------------------------
(* The mouse; a visible prompt covers the page. *)

\* mousedown on a pane: the focus, the swap if one is under way, and the menu
\* closes; the keyboard goes to the page.
Clicked(id) ==
    /\ overlay = NoPrompt
    /\ id \in screen
    /\ focusedPane' = id
    /\ IF mode = "swap" /\ swapSource # id
       THEN Issue("pane.swap", swapSource, swapSource) /\ SetMode("normal")
       ELSE UNCHANGED <<issued, mode, swapSource>>
    /\ escapes' = 0
    /\ UNCHANGED <<screen, bar, overlay, keySeq>>

Click(id) == /\ Clicked(id)
             /\ typing' = "page"
             /\ menu' = NoPane
             /\ UNCHANGED strayed

\* A faulty form: the menu opens and the focus stays where it was.
OpenMenu_NoFocus(id) ==
    /\ overlay = NoPrompt
    /\ id \in screen
    /\ typing' = "page"
    /\ menu' = id
    /\ strayed' = FALSE
    /\ escapes' = 0
    /\ UNCHANGED <<screen, focusedPane, mode, swapSource, bar, overlay, keySeq, issued>>

OpenMenu(id) == /\ Clicked(id)
                /\ typing' = "page"
                /\ menu' = id
                /\ strayed' = FALSE

\* A double click on the title.
EditTitle(id) == /\ Clicked(id)
                 /\ typing' = "title"
                 /\ menu' = NoPane
                 /\ UNCHANGED strayed

\* The menu forgets its pane before the action is dispatched.
ChooseItem(action) ==
    /\ overlay = NoPrompt /\ menu # NoPane
    /\ \/ /\ action \in DirectActions
          /\ Issue(action, focusedPane, menu)
          /\ typing' = "page"
          /\ UNCHANGED overlay
       \/ /\ action \in PromptActions
          /\ overlay' = [action |-> action, id |-> focusedPane, aimed |-> menu]
          /\ typing' = "prompt"
          /\ UNCHANGED issued
    /\ menu' = NoPane
    /\ escapes' = 0
    /\ UNCHANGED <<screen, focusedPane, strayed, modes, keySeq>>

\* A click beside the prompt takes the keyboard away from it.
ClickOverlay == /\ overlay # NoPrompt
                /\ typing' = "page"
                /\ escapes' = 0
                /\ UNCHANGED <<screen, focusedPane, modes, overlay, menu, strayed, keySeq, issued>>

\* The prompt's buttons.
PromptButton(ok) ==
    /\ overlay # NoPrompt
    /\ overlay' = NoPrompt
    /\ typing' = "page"
    /\ IF ok THEN Issue(overlay.action, overlay.id, overlay.aimed) ELSE UNCHANGED issued
    /\ escapes' = 0
    /\ UNCHANGED <<screen, focusedPane, strayed, modes, menu, keySeq>>

-----------------------------------------------------------------------------
\* renderLayout: other panes on screen; a title editor is gone.
Rendered(panes) ==
    /\ screen' = panes
    /\ IF focusedPane = NoPane /\ panes # {} THEN focusedPane' \in panes ELSE UNCHANGED focusedPane
    /\ typing' = IF typing = "title" THEN "page" ELSE typing
    /\ UNCHANGED <<strayed, modes, overlay, menu, keySeq, issued, escapes>>

KeysNext == \/ \E k \in KeyNames : Press(k)
            \/ \E id \in Panes : Click(id) \/ OpenMenu(id) \/ EditTitle(id)
            \/ \E action \in DirectActions \cup PromptActions : ChooseItem(action)
            \/ \E ok \in BOOLEAN : PromptButton(ok)
            \/ ClickOverlay
            \/ \E panes \in SUBSET Panes : Rendered(panes)

KeysSpec == KeysInit /\ [][KeysNext]_keyvars

-----------------------------------------------------------------------------
\* What is typed into the search bar or the prompt is text: whatever the key is
\* bound to, no pane, window, mode or menu changes and no command is carried out,
\* but that n and N in the search bar also step through the matches.
Typed(k) == Press(k) /\ k \notin {"Enter", "Escape"}

TypedTextIsText ==
    [][\A k \in KeyNames : typing \in {"search", "prompt"} /\ Typed(k) =>
          /\ UNCHANGED <<focusedPane, modes, typing, overlay, menu, keySeq>>
          /\ issued' # issued => typing = "search" /\ k \in {"n", "N"}]_keyvars

\* Pressing Escape twice leads back to normal mode with nothing open, from
\* whatever was open at the same time; a prompt that has lost the keyboard is
\* the one thing Escape does not reach.
TwoEscapesSettle ==
    escapes = 2 => \/ overlay # NoPrompt /\ typing = "page"
                   \/ /\ mode = "normal" /\ swapSource = NoPane
                      /\ ~bar /\ overlay = NoPrompt /\ menu = NoPane /\ typing = "page"

\* A command chosen from the context menu acts on the pane the menu was opened
\* on, although the menu forgets it first, unless a key moved the focus while
\* the menu was open; so does one whose name is asked for before.
MenuActsWhereOpened == issued.action # "none" /\ ~issued.strayed => issued.id = issued.aimed
=============================================================================
