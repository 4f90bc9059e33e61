------------------------------ MODULE Bookmarks ------------------------------
(***************************************************************************)
(* The named bookmarks of each pane.  The router keeps a BookmarkStore per *)
(* target ID, made and dropped with the pane's pipeline; a request looks   *)
(* the store up under the router's mutex and works on it after, under the  *)
(* store's own, while the pane may be closed and its ID given to another.  *)
(***************************************************************************)
EXTENDS Integers, FiniteSets, Functions

CONSTANTS MarkPanes,      \* target IDs
          MarkNames, LineIndexes,
          Markers,        \* requests in progress at the same time
          MaxStores       \* bound: stores ever made

VARIABLES bookmarks,      \* Router.bookmarks: target ID -> store
          stores,         \* the stores there ever were: name -> line index
          marking,        \* what each request is about
          wanted          \* history: what was to be marked in the pane found

markvars == <<bookmarks, stores, marking, wanted>>

NotMarking == [at |-> "none"]

MarkInit == /\ bookmarks = [id \in {} |-> 0]
            /\ stores = [n \in {} |-> 0]
            /\ marking = [r \in Markers |-> NotMarking]
            /\ wanted = {}

\* Router.Register and Router.Deregister.
MakeStore(id) ==
    LET n == Cardinality(DOMAIN stores) + 1
    IN  /\ id \notin DOMAIN bookmarks
        /\ n <= MaxStores
        /\ stores' = [i \in DOMAIN stores \cup {n} |->
                        IF i = n THEN [x \in {} |-> 0] ELSE stores[i]]
        /\ bookmarks' = [i \in DOMAIN bookmarks \cup {id} |->
                           IF i = id THEN n ELSE bookmarks[i]]
        /\ UNCHANGED <<marking, wanted>>

DropStore(id) ==
    /\ id \in DOMAIN bookmarks
    /\ bookmarks' = Restrict(bookmarks, DOMAIN bookmarks \ {id})
    /\ UNCHANGED <<stores, marking, wanted>>

\* handleBookmarkAdd and handleBookmarkDelete, up to the store they find.
Find(r, id, what, name, index) ==
    /\ marking[r] = NotMarking
    /\ id \in DOMAIN bookmarks
    /\ marking' = [marking EXCEPT ![r] = [at |-> what, id |-> id, store |-> bookmarks[id],
                                          name |-> name, index |-> index]]
    /\ wanted' = IF what = "add" THEN wanted \cup {<<bookmarks[id], name, index>>} ELSE wanted
    /\ UNCHANGED <<bookmarks, stores>>

\* A faulty form: the store is looked up a second time.
AddMark_FindsAgain(r) ==
    /\ marking[r].at = "add"
    /\ stores' = IF marking[r].id \in DOMAIN bookmarks
                 THEN [stores EXCEPT ![bookmarks[marking[r].id]] =
                         [x \in DOMAIN @ \cup {marking[r].name} |->
                            IF x = marking[r].name THEN marking[r].index ELSE @[x]]]
                 ELSE stores
    /\ marking' = [marking EXCEPT ![r] = NotMarking]
    /\ UNCHANGED <<bookmarks, wanted>>

\* BookmarkStore.Add: a negative index is refused, a name is taken over.
AddMark(r) ==
    /\ marking[r].at = "add"
    /\ stores' = IF marking[r].index >= 0
                 THEN [stores EXCEPT ![marking[r].store] =
                         [x \in DOMAIN @ \cup {marking[r].name} |->
                            IF x = marking[r].name THEN marking[r].index ELSE @[x]]]
                 ELSE stores
    /\ marking' = [marking EXCEPT ![r] = NotMarking]
    /\ UNCHANGED <<bookmarks, wanted>>

\* BookmarkStore.Remove, which says so if there is no such name.
RemoveMark(r) ==
    /\ marking[r].at = "remove"
    /\ stores' = [stores EXCEPT ![marking[r].store] =
                    Restrict(@, DOMAIN @ \ {marking[r].name})]
    /\ marking' = [marking EXCEPT ![r] = NotMarking]
    /\ UNCHANGED <<bookmarks, wanted>>

MarkNext ==
    \/ \E id \in MarkPanes : MakeStore(id) \/ DropStore(id)
    \/ \E r \in Markers, id \in MarkPanes, name \in MarkNames :
          \/ \E index \in LineIndexes : Find(r, id, "add", name, index)
          \/ Find(r, id, "remove", name, 0)
    \/ \E r \in Markers : AddMark(r) \/ RemoveMark(r)

MarkSpec == MarkInit /\ [][MarkNext]_markvars

-----------------------------------------------------------------------------
\* What the list of a pane shows was marked in the pane that has the ID now,
\* at a line that was asked for: a request that was under way when the pane
\* was closed marks nothing in the one that took its ID.
MarksOfThisPane ==
    \A id \in DOMAIN bookmarks : LET s == bookmarks[id] IN
       \A name \in DOMAIN stores[s] :
          /\ <<s, name, stores[s][name]>> \in wanted
          /\ stores[s][name] >= 0
=============================================================================
