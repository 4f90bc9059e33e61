------------------------------ MODULE MCClients ------------------------------
(* The clients, one at a time: the browser's windows, its keyboard, its      *)
(* lines, and rdw pipe.  The four models share no variable; each behaviour   *)
(* is one of one of them.                                                    *)
EXTENDS Browser, BrowserKeys, BrowserLines, Pipe

CONSTANTS a, b, w1, w2, h, x, y, q

VARIABLE part       \* the model that this behaviour is of

partvars == <<part, bvars, keyvars, linevars, allvars>>

\* Two windows of one pane each, so that a command may meet either of them.
PaneOf(id) == [ref |-> 0, id |-> id, split |-> h]
TwoWindows == << [ref |-> 0, name |-> w1, panes |-> <<PaneOf(a)>>],
                 [ref |-> 0, name |-> w2, panes |-> <<PaneOf(b)>>] >>

\* One key for each kind of action, two of them begun by the same g.
Key(keys, action) == [keys |-> keys, action |-> action]
KeyBindings ==
    {Key(<<"Escape">>, "mode.escape"), Key(<<"h">>, "pane.focus.left"),
     Key(<<"q">>, "pane.close"), Key(<<"s">>, "pane.split.h"), Key(<<"x">>, "pane.swap"),
     Key(<<"/">>, "search.open"), Key(<<"n">>, "search.next"),
     Key(<<"g", "t">>, "window.next"), Key(<<"g", "n">>, "window.new")}

\* One of two lines matches.
OneMatches == {<<y, q>>}

PartsInit == /\ part \in {"windows", "keys", "lines", "pipe"}
             /\ BrowserInit
             /\ KeysInit /\ (part # "keys" => screen = {})
             /\ LinesInit
             /\ PipeInit

PartsNext ==
    /\ UNCHANGED part
    /\ \/ part = "windows" /\ BrowserNext /\ UNCHANGED <<keyvars, linevars, allvars>>
       \/ part = "keys"    /\ KeysNext    /\ UNCHANGED <<bvars, linevars, allvars>>
       \/ part = "lines"   /\ LinesNext   /\ UNCHANGED <<bvars, keyvars, allvars>>
       \/ part = "pipe"    /\ PipeNext    /\ UNCHANGED <<bvars, keyvars, linevars>>

PartsSpec == PartsInit /\ [][PartsNext]_partvars
=============================================================================
