----------------------------- MODULE MCServices -----------------------------
(* What the server keeps, one service at a time: the windows, a scrollback,  *)
(* the processes with their sockets and registry, the access to it, the      *)
(* terminals and the bookmarks.  The six models share no variable; each      *)
(* behaviour is one of one of them.                                          *)
EXTENDS SessionManager, Scrollback, ServerLife, Access, Terminals, Bookmarks, TLC

CONSTANTS p1, p2, n1, n2

VARIABLE part       \* the model that this behaviour is of

partvars == <<part, mvars, vars, lifevars, accvars, termvars, markvars>>

\* Two servers on one port, or each on its own.
OneOrTwoPorts == {p1 :> n1 @@ p2 :> n1, p1 :> n1 @@ p2 :> n2}

\* No expiry asked for, a short one, and the negative that means none.
AskedFor == {0, 1, -1}

\* The lines to mark, one of them refused.
AskedLines == {-1, 0, 1}

PartsInit == /\ part \in {"manager", "scrollback", "processes", "access", "terminals",
                         "bookmarks"}
             /\ ManagerInit
             /\ Init
             /\ LifeInit /\ (part # "processes" => port[p1] = port[p2])
             /\ AccessInit
             /\ TermInit
             /\ MarkInit

PartsNext ==
    /\ UNCHANGED part
    /\ \/ /\ part = "manager" /\ ManagerNext
          /\ UNCHANGED <<vars, lifevars, accvars, termvars, markvars>>
       \/ /\ part = "scrollback" /\ Next
          /\ UNCHANGED <<mvars, lifevars, accvars, termvars, markvars>>
       \/ /\ part = "processes" /\ LifeNext
          /\ UNCHANGED <<mvars, vars, accvars, termvars, markvars>>
       \/ /\ part = "access" /\ AccessNext
          /\ UNCHANGED <<mvars, vars, lifevars, termvars, markvars>>
       \/ /\ part = "terminals" /\ TermNext
          /\ UNCHANGED <<mvars, vars, lifevars, accvars, markvars>>
       \/ /\ part = "bookmarks" /\ MarkNext
          /\ UNCHANGED <<mvars, vars, lifevars, accvars, termvars>>

PartsSpec == PartsInit /\ [][PartsNext]_partvars
=============================================================================
