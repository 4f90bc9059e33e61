----------------------------- MODULE MCLiveness -----------------------------
(* What has to end: the goroutines of the hub and its connections, those of  *)
(* a window cycle, and the Markdown renderer.  The three models share no     *)
(* variable; each behaviour is one of one of them, with its fairness.        *)
EXTENDS Hub, Cycle, Markdown

CONSTANTS w1, w2

VARIABLE part       \* the model that this behaviour is of

partvars == <<part, vars, cyclevars, mdvars>>

OneOrTwoWindows == {<<w1>>, <<w2, w1>>}

PartsInit == /\ part \in {"hub", "cycle", "markdown"}
             /\ Init
             /\ CycleInit
             /\ MarkdownInit /\ (part # "markdown" => input = <<>>)

PartsNext == /\ UNCHANGED part
             /\ \/ part = "hub"      /\ Next         /\ UNCHANGED <<cyclevars, mdvars>>
                \/ part = "cycle"    /\ CycleNext    /\ UNCHANGED <<vars, mdvars>>
                \/ part = "markdown" /\ MarkdownNext /\ UNCHANGED <<vars, cyclevars>>

\* The fairness of the other models asks nothing: nothing of them can move.
PartsSpec == /\ PartsInit /\ [][PartsNext]_partvars
             /\ HubFairness /\ CycleFairness /\ MarkdownFairness
=============================================================================
