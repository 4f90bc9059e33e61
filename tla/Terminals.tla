------------------------------ MODULE Terminals ------------------------------
(***************************************************************************)
(* terminal.Manager: terminal processes, one remembered per pane.  Launch  *)
(* and Kill hold the manager's mutex for the map only: processes are       *)
(* started before and killed after.                                        *)
(***************************************************************************)
EXTENDS Integers, FiniteSets

CONSTANTS Panes,
          Processes,    \* processes that may be started, each once
          NoProcess,
          Requests      \* requests in progress at the same time

ASSUME NoProcessAssumption == NoProcess \notin Processes

VARIABLES running,      \* processes that run
          owner,        \* the pane each was started for
          terminals,    \* Manager.panes
          replaced,     \* processes another took the place of
          request       \* what each request is about

termvars == <<running, owner, terminals, replaced, request>>

NoRequest == [at |-> "none"]

TermInit == /\ running = {}
            /\ owner = [x \in {} |-> 0]
            /\ terminals = [id \in Panes |-> NoProcess]
            /\ replaced = {}
            /\ request = [r \in Requests |-> NoRequest]

\* Launch: the process is started ...
LaunchStarts(r, id, x) ==
    /\ request[r] = NoRequest
    /\ x \in Processes \ DOMAIN owner
    /\ running' = running \cup {x}
    /\ owner' = [y \in DOMAIN owner \cup {x} |-> IF y = x THEN id ELSE owner[y]]
    /\ request' = [request EXCEPT ![r] = [at |-> "launched", id |-> id, x |-> x]]
    /\ UNCHANGED <<terminals, replaced>>

\* ... and entered, whatever was there before.
LaunchEnters(r) ==
    /\ request[r].at = "launched"
    /\ terminals' = [terminals EXCEPT ![request[r].id] = request[r].x]
    /\ replaced' = replaced \cup ({terminals[request[r].id]} \ {NoProcess})
    /\ request' = [request EXCEPT ![r] = NoRequest]
    /\ UNCHANGED <<running, owner>>

\* Kill: taken from the map first ...
KillTakes(r, id) ==
    /\ request[r] = NoRequest
    /\ terminals[id] # NoProcess
    /\ request' = [request EXCEPT ![r] = [at |-> "killing", id |-> id, x |-> terminals[id]]]
    /\ terminals' = [terminals EXCEPT ![id] = NoProcess]
    /\ UNCHANGED <<running, owner, replaced>>

\* A faulty form: the map is looked at again.
KillEnds_LooksUpAgain(r) ==
    /\ request[r].at = "killing"
    /\ running' = running \ {terminals[request[r].id]}
    /\ request' = [request EXCEPT ![r] = NoRequest]
    /\ UNCHANGED <<owner, terminals, replaced>>

\* ... then killed and waited for.
KillEnds(r) ==
    /\ request[r].at = "killing"
    /\ running' = running \ {request[r].x}
    /\ request' = [request EXCEPT ![r] = NoRequest]
    /\ UNCHANGED <<owner, terminals, replaced>>

\* A terminal ends by itself, as ttyd does when its one client leaves.
Exits(x) == /\ x \in running
            /\ running' = running \ {x}
            /\ UNCHANGED <<owner, terminals, replaced, request>>

TermNext == \/ \E r \in Requests, id \in Panes :
                  \/ \E x \in Processes : LaunchStarts(r, id, x)
                  \/ KillTakes(r, id)
            \/ \E r \in Requests : LaunchEnters(r) \/ KillEnds(r)
            \/ \E x \in Processes : Exits(x)

TermSpec == TermInit /\ [][TermNext]_termvars

-----------------------------------------------------------------------------
\* Every terminal that runs can be killed by its pane or is about to be, unless
\* a later launch for the pane took its place: launches and kills that overlap
\* lose no other.
NoStrayTerminal ==
    \A x \in running : \/ terminals[owner[x]] = x
                       \/ \E r \in Requests : request[r].at # "none" /\ request[r].x = x
                       \/ x \in replaced
=============================================================================
