---------------------------- MODULE IngestProofs ----------------------------
(***************************************************************************)
(* What Ingest promises, for any panes, clients, filters and limits.       *)
(*                                                                         *)
(* First what the state is made of (TypeInv) and what each action does to  *)
(* it, one lemma an action; then, on these lemmas, one invariant for each  *)
(* of the promises: commands are not left running, the scrollback is what  *)
(* was shown, an answer goes to the line it answers, a client's lines stay *)
(* in order, and the KV store's size is counted right.                     *)
(***************************************************************************)
EXTENDS Ingest, SequenceTheorems, FiniteSetTheorems, TLAPS

-----------------------------------------------------------------------------
(* Sequences, whatever they are of. *)

IsSeq(s) == \E S : s \in Seq(S)

LEMMA SeqFacts ==
    ASSUME NEW s, IsSeq(s)
    PROVE  /\ Len(s) \in Nat /\ DOMAIN s = 1 .. Len(s)
           /\ s = <<>> <=> Len(s) = 0
BY DEF IsSeq

LEMMA EmptyIsSeq == IsSeq(<<>>) /\ Len(<<>>) = 0 /\ DOMAIN <<>> = {}
<1>1. <<>> \in Seq({})
  OBVIOUS
<1>. QED
  BY <1>1 DEF IsSeq

LEMMA AppendFacts ==
    ASSUME NEW s, IsSeq(s), NEW x
    PROVE  /\ IsSeq(Append(s, x)) /\ Len(Append(s, x)) = Len(s) + 1
           /\ DOMAIN Append(s, x) = DOMAIN s \cup {Len(s) + 1}
           /\ \A i \in DOMAIN s : Append(s, x)[i] = s[i]
           /\ Append(s, x)[Len(s) + 1] = x
           /\ ToSet(Append(s, x)) = ToSet(s) \cup {x}
<1>1. PICK S : s \in Seq(S)
  BY DEF IsSeq
<1>2. s \in Seq(S \cup {x})
  BY <1>1
<1>3. /\ Append(s, x) \in Seq(S \cup {x}) /\ Len(Append(s, x)) = Len(s) + 1
      /\ \A i \in 1 .. Len(s) : Append(s, x)[i] = s[i]
      /\ Append(s, x)[Len(s) + 1] = x
  BY <1>2, AppendProperties
<1>4. /\ DOMAIN Append(s, x) = 1 .. Len(s) + 1 /\ DOMAIN s = 1 .. Len(s) /\ Len(s) \in Nat
  BY <1>1, <1>3
<1>5. 1 .. Len(s) + 1 = (1 .. Len(s)) \cup {Len(s) + 1}
  BY <1>4
<1>6. DOMAIN Append(s, x) = DOMAIN s \cup {Len(s) + 1} /\ \A i \in DOMAIN s : Append(s, x)[i] = s[i]
  BY <1>3, <1>4, <1>5
<1>7. ToSet(Append(s, x)) = ToSet(s) \cup {x}
  BY <1>3, <1>6 DEF ToSet
<1>8. IsSeq(Append(s, x))
  BY <1>3 DEF IsSeq
<1>. QED
  BY <1>3, <1>6, <1>7, <1>8

LEMMA TailFacts ==
    ASSUME NEW s, IsSeq(s), s # <<>>
    PROVE  /\ IsSeq(Tail(s)) /\ Len(Tail(s)) = Len(s) - 1
           /\ Head(s) = s[1] /\ 1 \in DOMAIN s
           /\ \A i \in DOMAIN Tail(s) : i + 1 \in DOMAIN s /\ Tail(s)[i] = s[i + 1]
           /\ ToSet(Tail(s)) \subseteq ToSet(s) /\ Head(s) \in ToSet(s)
<1>1. PICK S : s \in Seq(S)
  BY DEF IsSeq
<1>2. /\ Tail(s) \in Seq(S) /\ Len(Tail(s)) = Len(s) - 1 /\ Head(s) = s[1]
      /\ \A i \in 1 .. Len(Tail(s)) : Tail(s)[i] = s[i + 1]
  BY <1>1, HeadTailProperties
<1>3. DOMAIN Tail(s) = 1 .. Len(s) - 1 /\ DOMAIN s = 1 .. Len(s) /\ Len(s) \in Nat \ {0}
  BY <1>1, <1>2
<1>4. \A i \in DOMAIN Tail(s) : i + 1 \in DOMAIN s /\ Tail(s)[i] = s[i + 1]
  BY <1>2, <1>3
<1>5. ToSet(Tail(s)) \subseteq ToSet(s) /\ Head(s) \in ToSet(s) /\ 1 \in DOMAIN s
  BY <1>2, <1>3, <1>4 DEF ToSet
<1>. QED
  BY <1>2, <1>4, <1>5 DEF IsSeq

\* A sequence of which one element is replaced.
LEMMA PutFacts ==
    ASSUME NEW s, IsSeq(s), NEW f \in DOMAIN s, NEW v
    PROVE  LET t == [s EXCEPT ![f] = v]
           IN  /\ IsSeq(t) /\ Len(t) = Len(s) /\ DOMAIN t = DOMAIN s
               /\ t[f] = v /\ \A i \in DOMAIN s \ {f} : t[i] = s[i]
<1>1. PICK S : s \in Seq(S)
  BY DEF IsSeq
<1> DEFINE t == [s EXCEPT ![f] = v]
<1>2. s \in [1 .. Len(s) -> S \cup {v}] /\ Len(s) \in Nat
  BY <1>1
<1>3. t \in [1 .. Len(s) -> S \cup {v}]
  BY <1>2
<1>4. t \in Seq(S \cup {v}) /\ Len(t) = Len(s)
  BY <1>2, <1>3
<1>5. DOMAIN t = DOMAIN s /\ t[f] = v /\ \A i \in DOMAIN s \ {f} : t[i] = s[i]
  BY <1>1
<1>. QED
  BY <1>4, <1>5 DEF IsSeq

-----------------------------------------------------------------------------
(* What the state is made of. *)

Carrying == {"filters", "filter_write", "filter_read", "sink"}   \* a line, on its way
Using    == {"filter_write", "filter_read"}                      \* a filter, locked
Posting  == {"line", "set"} \cup Carrying
Adding   == {"filter_add", "filter_close"}

InChain(f) == \E r \in DOMAIN pl : f \in ToSet(pl[r].filters)

PostOK(c) == /\ {"at", "p", "id", "todo"} \subseteq DOMAIN h[c]
             /\ h[c].p \in DOMAIN pl
             /\ IsSeq(h[c].todo)
             /\ h[c].at # "line" => h[c].todo # <<>>
             /\ h[c].at = "set" => "pairs" \in DOMAIN h[c]
             /\ h[c].at \in Carrying => /\ {"chain", "text"} \subseteq DOMAIN h[c]
                                       /\ IsSeq(h[c].chain)
                                       /\ \A f \in ToSet(h[c].chain) : InChain(f)
             /\ h[c].at \in Using => h[c].chain # <<>>

AddOK(c) == /\ {"at", "p", "f"} \subseteq DOMAIN h[c]
            /\ h[c].p \in DOMAIN pl
            /\ h[c].f \in DOMAIN filter

RequestOK(c) == \/ h[c] = Idle
                \/ h[c].at \in Posting /\ PostOK(c)
                \/ h[c].at \in Adding /\ AddOK(c)

PipelineOK(r) == /\ DOMAIN pl[r] = {"filters", "scrollback", "handler"}
                 /\ IsSeq(pl[r].filters) /\ IsSeq(pl[r].scrollback)
                 /\ pl[r].handler = FALSE
                 /\ ToSet(pl[r].filters) \subseteq DOMAIN filter

ProcessOK(q) == DOMAIN q = {"up", "in", "out"} /\ IsSeq(q.in) /\ IsSeq(q.out)

FilterOK(f) == /\ DOMAIN filter[f] = {"dead", "mu", "proc"}
               /\ ProcessOK(filter[f].proc)

Places == /\ IsSeq(pl) /\ \A r \in DOMAIN pl : PipelineOK(r)
          /\ IsSeq(filter) /\ \A f \in DOMAIN filter : FilterOK(f)
          /\ IsSeq(shown) /\ Len(shown) = Len(pl) /\ \A r \in DOMAIN shown : IsSeq(shown[r])
          /\ \A id \in DOMAIN pipes : pipes[id] \in DOMAIN pl

TypeInv == /\ Places
           /\ posted \in [Clients -> Nat]
           /\ DOMAIN h = Clients /\ \A c \in Clients : RequestOK(c)

LEMMA TypeInit == Init => TypeInv
<1> SUFFICES ASSUME Init PROVE TypeInv
  OBVIOUS
<1>1. /\ pl = <<>> /\ filter = <<>> /\ shown = <<>> /\ DOMAIN pipes = {}
      /\ posted \in [Clients -> Nat] /\ DOMAIN h = Clients /\ \A c \in Clients : h[c] = Idle
  BY DEF Init
<1>. QED
  BY <1>1, EmptyIsSeq DEF TypeInv, Places, RequestOK

\* A step that changes the request of one client at most.
Only(c) == DOMAIN h' = Clients /\ \A d \in Clients \ {c} : h'[d] = h[d]

\* A step after which all that there was is still there.
Grows == /\ DOMAIN pl \subseteq DOMAIN pl'
         /\ DOMAIN filter \subseteq DOMAIN filter'
         /\ \A f : InChain(f) => InChain(f)'

LEMMA GotoOnly ==
    ASSUME TypeInv, NEW c \in Clients, NEW next, Goto(c, next)
    PROVE  Only(c) /\ h'[c] = next
BY DEF TypeInv, Goto, Only

LEMMA OthersStay ==
    ASSUME TypeInv, Grows, NEW c \in Clients, Only(c), RequestOK(c)'
    PROVE  DOMAIN h' = Clients /\ \A d \in Clients : RequestOK(d)'
<1>1. ASSUME NEW d \in Clients \ {c} PROVE RequestOK(d)'
  <2>1. h'[d] = h[d] /\ RequestOK(d)
    BY DEF Only, TypeInv
  <2>2. CASE h[d] = Idle
    BY <2>1, <2>2 DEF RequestOK
  <2>3. CASE h[d].at \in Posting /\ PostOK(d)
    <3>1. PostOK(d)'
      BY <2>1, <2>3 DEF PostOK, Grows
    <3>. QED
      BY <2>1, <2>3, <3>1 DEF RequestOK
  <2>4. CASE h[d].at \in Adding /\ AddOK(d)
    <3>1. AddOK(d)'
      BY <2>1, <2>4 DEF AddOK, Grows
    <3>. QED
      BY <2>1, <2>4, <3>1 DEF RequestOK
  <2>. QED
    BY <2>1, <2>2, <2>3, <2>4 DEF RequestOK
<1>. QED
  BY <1>1 DEF Only

\* The pipelines and filters untouched, and so what is said of them.
LEMMA SamePlaces ==
    ASSUME TypeInv, UNCHANGED <<pipes, pl, filter, shown>>
    PROVE  Grows /\ Places'
BY DEF TypeInv, Places, Grows, InChain, PipelineOK, FilterOK

\* One filter, or one pipeline, replaced.
LEMMA FilterPut ==
    ASSUME TypeInv, NEW f \in DOMAIN filter, NEW v, filter' = [filter EXCEPT ![f] = v],
           DOMAIN v = {"dead", "mu", "proc"}, ProcessOK(v.proc), UNCHANGED <<pipes, pl, shown>>
    PROVE  /\ Grows /\ Places' /\ DOMAIN filter' = DOMAIN filter
           /\ filter'[f] = v /\ \A g \in DOMAIN filter \ {f} : filter'[g] = filter[g]
<1>1. /\ IsSeq(filter') /\ DOMAIN filter' = DOMAIN filter
      /\ filter'[f] = v /\ \A g \in DOMAIN filter \ {f} : filter'[g] = filter[g]
  BY PutFacts DEF TypeInv, Places
<1>2. \A g \in DOMAIN filter' : FilterOK(g)'
  BY <1>1 DEF TypeInv, Places, FilterOK
<1>3. \A r \in DOMAIN pl' : PipelineOK(r)'
  BY <1>1 DEF TypeInv, Places, PipelineOK
<1>. QED
  BY <1>1, <1>2, <1>3 DEF TypeInv, Places, Grows, InChain

LEMMA PipelinePut ==
    ASSUME TypeInv, NEW r \in DOMAIN pl, NEW v, pl' = [pl EXCEPT ![r] = v],
           DOMAIN v = {"filters", "scrollback", "handler"},
           IsSeq(v.filters), IsSeq(v.scrollback), v.handler = FALSE,
           ToSet(v.filters) \subseteq DOMAIN filter, ToSet(pl[r].filters) \subseteq ToSet(v.filters),
           UNCHANGED <<pipes, filter, shown>>
    PROVE  /\ Grows /\ Places' /\ DOMAIN pl' = DOMAIN pl
           /\ pl'[r] = v /\ \A q \in DOMAIN pl \ {r} : pl'[q] = pl[q]
<1>1. /\ IsSeq(pl') /\ DOMAIN pl' = DOMAIN pl /\ Len(pl') = Len(pl)
      /\ pl'[r] = v /\ \A q \in DOMAIN pl \ {r} : pl'[q] = pl[q]
  BY PutFacts DEF TypeInv, Places
<1>2. \A g \in DOMAIN filter' : FilterOK(g)'
  BY DEF TypeInv, Places, FilterOK
<1>3. \A q \in DOMAIN pl' : PipelineOK(q)'
  BY <1>1 DEF TypeInv, Places, PipelineOK
<1>4. \A q \in DOMAIN pl : ToSet(pl[q].filters) \subseteq ToSet(pl'[q].filters)
  BY <1>1
<1>5. Grows
  BY <1>1, <1>4 DEF Grows, InChain
<1>. QED
  BY <1>1, <1>2, <1>3, <1>5 DEF TypeInv, Places

\* What the pipelines and filters hold besides.
LEMMA PipelineFields ==
    ASSUME TypeInv, NEW r \in DOMAIN pl
    PROVE  /\ DOMAIN pl[r] = {"filters", "scrollback", "handler"}
           /\ IsSeq(pl[r].filters) /\ IsSeq(pl[r].scrollback) /\ pl[r].handler = FALSE
           /\ ToSet(pl[r].filters) \subseteq DOMAIN filter
           /\ r \in DOMAIN shown /\ IsSeq(shown[r])
<1>1. DOMAIN shown = DOMAIN pl
  BY SeqFacts DEF TypeInv, Places
<1>. QED
  BY <1>1 DEF TypeInv, Places, PipelineOK

LEMMA FilterFields ==
    ASSUME TypeInv, NEW f \in DOMAIN filter
    PROVE  /\ DOMAIN filter[f] = {"dead", "mu", "proc"} /\ DOMAIN filter[f].proc = {"up", "in", "out"}
           /\ IsSeq(filter[f].proc.in) /\ IsSeq(filter[f].proc.out)
BY DEF TypeInv, Places, FilterOK, ProcessOK

LEMMA Posts == ASSUME TypeInv, NEW c \in Clients, h[c].at \in Posting PROVE PostOK(c)
BY DEF TypeInv, RequestOK, Idle, Posting, Adding, Carrying

LEMMA Adds == ASSUME TypeInv, NEW c \in Clients, h[c].at \in Adding PROVE AddOK(c)
BY DEF TypeInv, RequestOK, Idle, Posting, Adding, Carrying

\* What a request is like after each of its steps.
LEMMA NextLineOK ==
    ASSUME TypeInv, NEW c \in Clients, h[c].at \in Posting, h[c].todo # <<>>,
           h'[c] = NextLine(c), DOMAIN pl \subseteq DOMAIN pl'
    PROVE  /\ RequestOK(c)' /\ h'[c].at = "line" /\ h'[c].p = h[c].p
           /\ h'[c].todo = Tail(h[c].todo)
<1>1. PostOK(c)
  BY Posts DEF Posting
<1>2. /\ h'[c].at = "line" /\ h'[c].p = h[c].p /\ h'[c].todo = Tail(h[c].todo)
      /\ DOMAIN h'[c] = {"at", "p", "id", "todo"}
  BY DEF NextLine
<1>3. IsSeq(h'[c].todo)
  BY <1>1, <1>2, TailFacts DEF PostOK
<1>4. PostOK(c)'
  BY <1>1, <1>2, <1>3 DEF PostOK, Carrying, Using
<1>. QED
  BY <1>2, <1>4 DEF RequestOK, Posting

LEMMA PassOnOK ==
    ASSUME TypeInv, NEW c \in Clients, h[c].at \in Carrying, h[c].chain # <<>>, NEW text,
           h'[c] = PassOn(c, text), Grows
    PROVE  /\ RequestOK(c)' /\ h'[c].at = "filters" /\ h'[c].p = h[c].p
           /\ h'[c].todo = h[c].todo /\ h'[c].text = text /\ h'[c].chain = Tail(h[c].chain)
<1>1. PostOK(c)
  BY Posts DEF Posting
<1>2. {"at", "p", "id", "todo", "chain", "text"} \subseteq DOMAIN h[c]
  BY <1>1 DEF PostOK
<1>3. /\ h'[c].at = "filters" /\ h'[c].p = h[c].p /\ h'[c].todo = h[c].todo
      /\ h'[c].text = text /\ h'[c].chain = Tail(h[c].chain)
      /\ DOMAIN h'[c] = DOMAIN h[c]
  BY <1>2 DEF PassOn
<1>4. IsSeq(h'[c].chain) /\ \A f \in ToSet(h'[c].chain) : InChain(f)'
  BY <1>1, <1>3, TailFacts DEF PostOK, Grows
<1>5. PostOK(c)'
  BY <1>1, <1>2, <1>3, <1>4 DEF PostOK, Grows, Using, Carrying
<1>. QED
  BY <1>3, <1>5 DEF RequestOK, Posting, Carrying

\* A line on its way goes on to the next of its places.
LEMMA MovesOnOK ==
    ASSUME TypeInv, NEW c \in Clients, h[c].at \in Carrying, NEW at \in Carrying,
           at \in Using => h[c].chain # <<>>,
           h'[c] = [h[c] EXCEPT !.at = at], Grows
    PROVE  /\ RequestOK(c)' /\ h'[c].at = at /\ h'[c].p = h[c].p
           /\ h'[c].todo = h[c].todo /\ h'[c].text = h[c].text /\ h'[c].chain = h[c].chain
<1>1. PostOK(c)
  BY Posts DEF Posting
<1>2. {"at", "p", "id", "todo", "chain", "text"} \subseteq DOMAIN h[c]
  BY <1>1 DEF PostOK
<1>3. /\ h'[c].at = at /\ h'[c].p = h[c].p /\ h'[c].todo = h[c].todo
      /\ h'[c].text = h[c].text /\ h'[c].chain = h[c].chain
      /\ DOMAIN h'[c] = DOMAIN h[c]
  BY <1>2
<1>4. PostOK(c)'
  BY <1>1, <1>2, <1>3 DEF PostOK, Grows, Carrying
<1>. QED
  BY <1>3, <1>4 DEF RequestOK, Posting

LEMMA IdleOK == ASSUME NEW c, h'[c] = Idle PROVE RequestOK(c)'
BY DEF RequestOK

\* A filter that a line is at is one of the filters.
LEMMA FirstFilter ==
    ASSUME TypeInv, NEW c \in Clients, h[c].at \in Carrying, h[c].chain # <<>>
    PROVE  InChain(F(c)) /\ F(c) \in DOMAIN filter
<1>1. F(c) \in ToSet(h[c].chain)
  BY Posts, TailFacts DEF PostOK, Posting, F
<1>2. InChain(F(c))
  BY <1>1, Posts DEF PostOK, Posting
<1>. QED
  BY <1>2, PipelineFields DEF InChain

-----------------------------------------------------------------------------
(* The state stays what it is made of. *)

LEMMA StepType ==
    ASSUME TypeInv, Grows, Places', posted' \in [Clients -> Nat],
           NEW c \in Clients, Only(c), RequestOK(c)'
    PROVE  TypeInv'
BY OthersStay DEF TypeInv

\* Steps of a post that touch nothing but the request itself.
Aside(c) == \/ RunEnds(c) \/ LineFails(c) \/ KVLine(c) \/ KVPair(c) \/ KVDone(c)
            \/ Content(c) \/ FilterRestartFails(c)

LEMMA AsideRequest ==
    ASSUME TypeInv, NEW c \in Clients, Aside(c)
    PROVE  /\ Only(c) /\ RequestOK(c)' /\ h[c].at \in Posting
           /\ UNCHANGED <<pipes, pl, filter, shown, posted>>
<1>0. Grows /\ UNCHANGED <<pipes, pl, filter, shown, posted>>
  BY SamePlaces DEF Aside, RunEnds, LineFails, KVLine, KVPair, KVDone, Content, FilterRestartFails
<1>1. CASE RunEnds(c) \/ LineFails(c)
  BY <1>0, <1>1, GotoOnly, IdleOK DEF RunEnds, LineFails, AtLine, Posting
<1>2. CASE KVLine(c)
  <2>1. /\ Only(c) /\ h[c].at = "line" /\ h[c].todo # <<>>
        /\ h'[c] = [at |-> "set", p |-> h[c].p, id |-> h[c].id, todo |-> h[c].todo,
                    pairs |-> Head(h[c].todo).line.pairs]
    BY <1>2, GotoOnly DEF KVLine, AtLine
  <2>2. PostOK(c)
    BY <2>1, Posts DEF Posting
  <2>3. PostOK(c)'
    BY <1>0, <2>1, <2>2 DEF PostOK, Grows, Carrying, Using
  <2>. QED
    BY <1>0, <2>1, <2>3 DEF RequestOK, Posting
<1>3. CASE KVPair(c)
  <2>1. /\ h[c].at = "set"
        /\ \/ Goto(c, Idle)
           \/ Goto(c, [h[c] EXCEPT !.pairs = Tail(@)])
    BY <1>3 DEF KVPair
  <2>2. CASE Goto(c, Idle)
    BY <1>0, <2>1, <2>2, GotoOnly, IdleOK DEF Posting
  <2>3. CASE Goto(c, [h[c] EXCEPT !.pairs = Tail(@)])
    <3>1. PostOK(c)
      BY <2>1, Posts DEF Posting
    <3>2. Only(c) /\ h'[c] = [h[c] EXCEPT !.pairs = Tail(@)]
      BY <2>3, GotoOnly
    <3>3. /\ h'[c].at = "set" /\ h'[c].p = h[c].p /\ h'[c].todo = h[c].todo
          /\ DOMAIN h'[c] = DOMAIN h[c]
      BY <2>1, <3>1, <3>2 DEF PostOK
    <3>4. PostOK(c)'
      BY <1>0, <2>1, <3>1, <3>3 DEF PostOK, Grows, Carrying, Using
    <3>. QED
      BY <1>0, <2>1, <3>2, <3>3, <3>4 DEF RequestOK, Posting
  <2>. QED
    BY <2>1, <2>2, <2>3
<1>4. CASE KVDone(c)
  <2>1. Only(c) /\ h'[c] = NextLine(c) /\ h[c].at = "set"
    BY <1>4, GotoOnly DEF KVDone
  <2>2. h[c].at \in Posting /\ h[c].todo # <<>>
    BY <2>1, Posts DEF Posting, PostOK
  <2>. QED
    BY <1>0, <2>1, <2>2, NextLineOK DEF Grows
<1>5. CASE Content(c)
  <2>1. /\ Only(c) /\ h[c].at = "line" /\ h[c].todo # <<>>
        /\ h'[c] = [at |-> "filters", p |-> h[c].p, id |-> h[c].id, todo |-> h[c].todo,
                    chain |-> pl[h[c].p].filters, text |-> Head(h[c].todo).text]
    BY <1>5, GotoOnly DEF Content, AtLine
  <2>2. PostOK(c)
    BY <2>1, Posts DEF Posting
  <2>3. IsSeq(pl[h[c].p].filters) /\ \A f \in ToSet(pl[h[c].p].filters) : InChain(f)
    BY <2>2, PipelineFields DEF PostOK, InChain
  <2>4. PostOK(c)'
    BY <1>0, <2>1, <2>2, <2>3 DEF PostOK, Grows, Using
  <2>. QED
    BY <1>0, <2>1, <2>4 DEF RequestOK, Posting, Carrying
<1>6. CASE FilterRestartFails(c)
  <2>1. Only(c) /\ h'[c] = PassOn(c, h[c].text) /\ h[c].at = "filters" /\ h[c].chain # <<>>
    BY <1>6, GotoOnly DEF FilterRestartFails
  <2>. QED
    BY <1>0, <2>1, PassOnOK DEF Posting, Carrying
<1>. QED
  BY <1>1, <1>2, <1>3, <1>4, <1>5, <1>6 DEF Aside

\* Panes that come and go.
LEMMA RegisterDoes ==
    ASSUME TypeInv, NEW id, Register(id)
    PROVE  LET new == Len(pl) + 1
           IN  /\ TypeInv' /\ Grows /\ UNCHANGED <<filter, posted, h>>
               /\ new \notin DOMAIN pl /\ DOMAIN pl' = DOMAIN pl \cup {new}
               /\ pl'[new] = NewPipeline /\ \A r \in DOMAIN pl : pl'[r] = pl[r]
               /\ DOMAIN shown = DOMAIN pl /\ DOMAIN shown' = DOMAIN pl'
               /\ shown'[new] = <<>> /\ \A r \in DOMAIN shown : shown'[r] = shown[r]
<1>. PICK new : new = Len(pl) + 1
  OBVIOUS
<1>0. /\ pl' = Append(pl, NewPipeline) /\ shown' = Append(shown, <<>>)
      /\ UNCHANGED <<filter, posted, h>>
      /\ DOMAIN pipes' = DOMAIN pipes \cup {id}
      /\ \A x \in DOMAIN pipes' : pipes'[x] = IF x = id THEN new ELSE pipes[x]
  BY DEF Register
<1>1. /\ IsSeq(pl) /\ IsSeq(shown) /\ Len(shown) = Len(pl) /\ Len(pl) \in Nat
      /\ DOMAIN pl = 1 .. Len(pl) /\ DOMAIN shown = 1 .. Len(shown)
  BY SeqFacts DEF TypeInv, Places
<1>2. /\ IsSeq(pl') /\ Len(pl') = Len(pl) + 1 /\ DOMAIN pl' = DOMAIN pl \cup {new}
      /\ \A r \in DOMAIN pl : pl'[r] = pl[r]
      /\ pl'[new] = NewPipeline
  BY <1>0, <1>1, AppendFacts
<1>3. /\ IsSeq(shown') /\ Len(shown') = Len(pl) + 1 /\ DOMAIN shown' = DOMAIN shown \cup {new}
      /\ \A r \in DOMAIN shown : shown'[r] = shown[r]
      /\ shown'[new] = <<>>
  BY <1>0, <1>1, AppendFacts
<1>4. new \notin DOMAIN pl /\ DOMAIN shown = DOMAIN pl
  BY <1>1
<1>5. \A r \in DOMAIN pl' : PipelineOK(r)'
  <2>1. ToSet(<<>>) = {}
    BY EmptyIsSeq DEF ToSet
  <2>2. PipelineOK(new)'
    BY <1>0, <1>2, <2>1, EmptyIsSeq DEF PipelineOK, NewPipeline
  <2>. QED
    BY <1>0, <1>2, <2>2 DEF TypeInv, Places, PipelineOK
<1>6. \A f \in DOMAIN filter' : FilterOK(f)'
  BY <1>0 DEF TypeInv, Places, FilterOK
<1>7. /\ \A r \in DOMAIN shown' : IsSeq(shown'[r])
      /\ \A x \in DOMAIN pipes' : pipes'[x] \in DOMAIN pl'
  BY <1>0, <1>2, <1>3, EmptyIsSeq DEF TypeInv, Places
<1>8. Places'
  BY <1>0, <1>2, <1>3, <1>5, <1>6, <1>7 DEF TypeInv, Places
<1>9. Grows
  BY <1>0, <1>2 DEF Grows, InChain
<1>10. \A c \in Clients : RequestOK(c)'
  <2> SUFFICES ASSUME NEW c \in Clients PROVE RequestOK(c)'
    OBVIOUS
  <2>1. Only(c) /\ h'[c] = h[c]
    BY <1>0 DEF Only, TypeInv
  <2>2. RequestOK(c)
    BY DEF TypeInv
  <2>. QED
    BY <1>9, <2>1, <2>2 DEF RequestOK, PostOK, AddOK, Grows
<1>11. TypeInv'
  BY <1>0, <1>8, <1>10 DEF TypeInv
<1>. QED
  BY <1>0, <1>2, <1>3, <1>4, <1>9, <1>11

LEMMA DeregisterDoes ==
    ASSUME TypeInv, NEW id, Deregister(id)
    PROVE  TypeInv' /\ Grows /\ UNCHANGED <<pl, filter, shown, posted, h>>
<1>1. /\ pipes' = [x \in DOMAIN pipes \ {id} |-> pipes[x]]
      /\ UNCHANGED <<pl, filter, shown, posted, h>>
  BY DEF Deregister, Restrict
<1>2. \A x \in DOMAIN pipes' : pipes'[x] \in DOMAIN pl'
  BY <1>1 DEF TypeInv, Places
<1>3. (\A r \in DOMAIN pl : PipelineOK(r)') /\ (\A f \in DOMAIN filter : FilterOK(f)')
  BY <1>1 DEF TypeInv, Places, PipelineOK, FilterOK
<1>4. Places'
  BY <1>1, <1>2, <1>3 DEF TypeInv, Places
<1>5. Grows
  BY <1>1 DEF Grows, InChain
<1>6. \A c \in Clients : RequestOK(c)'
  BY <1>1 DEF TypeInv, RequestOK, PostOK, AddOK, InChain
<1>. QED
  BY <1>1, <1>4, <1>5, <1>6 DEF TypeInv

\* Requests that begin.
LEMMA NumberedFacts ==
    ASSUME TypeInv, NEW c \in Clients, NEW body \in Bodies
    PROVE  /\ IsSeq(Numbered(c, body)) /\ Len(body) \in Nat
           /\ DOMAIN Numbered(c, body) = 1 .. Len(body)
           /\ \A x \in 1 .. Len(body) : Numbered(c, body)[x].text = [by |-> c, n |-> posted[c] + x]
<1>1. Len(body) \in Nat /\ DOMAIN body = 1 .. Len(body)
  BY BodiesAssumption
<1> DEFINE S == {[line |-> body[x], text |-> [by |-> c, n |-> posted[c] + x]] : x \in 1 .. Len(body)}
<1>2. Numbered(c, body) \in [1 .. Len(body) -> S]
  BY <1>1 DEF Numbered
<1>3. Numbered(c, body) \in Seq(S)
  BY <1>1, <1>2
<1>. QED
  BY <1>1, <1>2, <1>3 DEF IsSeq, Numbered

LEMMA StreamPostDoes ==
    ASSUME TypeInv, NEW c \in Clients, StreamPost(c)
    PROVE  /\ TypeInv' /\ Grows /\ UNCHANGED <<pl, filter, shown>>
           /\ Only(c) /\ h[c] = Idle /\ h'[c].at = "line"
           /\ \E body \in Bodies : /\ posted' = [posted EXCEPT ![c] = @ + Len(body)]
                                   /\ h'[c].todo = Numbered(c, body)
<1>1. PICK id \in DOMAIN pipes, body \in Bodies :
         /\ posted' = [posted EXCEPT ![c] = @ + Len(body)]
         /\ Goto(c, [at |-> "line", p |-> pipes[id], id |-> id, todo |-> Numbered(c, body)])
  BY DEF StreamPost
<1>2. h[c] = Idle /\ UNCHANGED <<pipes, pl, filter, shown>>
  BY DEF StreamPost
<1>3. Grows /\ Places'
  BY <1>2, SamePlaces
<1>4. Only(c) /\ h'[c] = [at |-> "line", p |-> pipes[id], id |-> id, todo |-> Numbered(c, body)]
  BY <1>1, GotoOnly
<1>5. IsSeq(Numbered(c, body)) /\ Len(body) \in Nat
  BY NumberedFacts
<1>6. posted' \in [Clients -> Nat]
  BY <1>1, <1>5 DEF TypeInv
<1>7. PostOK(c)'
  BY <1>2, <1>4, <1>5 DEF PostOK, Carrying, Using, TypeInv, Places
<1>8. RequestOK(c)'
  BY <1>4, <1>7 DEF RequestOK, Posting
<1>. QED
  <2>1. TypeInv'
    BY <1>3, <1>4, <1>6, <1>8, StepType
  <2>2. h'[c].at = "line" /\ h'[c].todo = Numbered(c, body)
    BY <1>4
  <2>. QED
    BY <1>1, <1>2, <1>3, <1>4, <2>1, <2>2

LEMMA KVRequestDoes ==
    ASSUME TypeInv, NEW c \in Clients, KVRequest(c)
    PROVE  /\ TypeInv' /\ Grows /\ UNCHANGED <<pl, filter, shown, h>>
           /\ posted' = [posted EXCEPT ![c] = @ + 1]
<1>1. posted' = [posted EXCEPT ![c] = @ + 1] /\ UNCHANGED <<pipes, pl, filter, shown, h>>
  BY DEF KVRequest
<1>2. Grows /\ Places'
  BY <1>1, SamePlaces
<1>3. posted' \in [Clients -> Nat]
  BY <1>1 DEF TypeInv
<1>4. Only(c) /\ RequestOK(c)'
  BY <1>1 DEF TypeInv, Only, RequestOK, PostOK, AddOK, InChain
<1>. QED
  BY <1>1, <1>2, <1>3, <1>4, StepType

LEMMA FilterStartDoes ==
    ASSUME TypeInv, NEW c \in Clients, FilterStart(c)
    PROVE  LET new == Len(filter) + 1
           IN  /\ TypeInv' /\ Grows /\ UNCHANGED <<pl, shown, posted>>
               /\ Only(c) /\ h[c] = Idle /\ h'[c].at = "filter_add" /\ h'[c].f = new
               /\ new \notin DOMAIN filter /\ DOMAIN filter' = DOMAIN filter \cup {new}
               /\ filter'[new] = NewFilter /\ \A f \in DOMAIN filter : filter'[f] = filter[f]
<1>. PICK new : new = Len(filter) + 1
  OBVIOUS
<1>1. PICK id \in DOMAIN pipes :
         /\ filter' = Append(filter, NewFilter)
         /\ Goto(c, [at |-> "filter_add", p |-> pipes[id], f |-> Len(filter) + 1])
  BY DEF FilterStart
<1>2. h[c] = Idle /\ UNCHANGED <<pipes, pl, shown, posted>>
  BY DEF FilterStart
<1>3. Only(c) /\ h'[c] = [at |-> "filter_add", p |-> pipes[id], f |-> new]
  BY <1>1, GotoOnly
<1>4. IsSeq(filter) /\ new \notin DOMAIN filter
  BY SeqFacts DEF TypeInv, Places
<1>5. /\ IsSeq(filter') /\ DOMAIN filter' = DOMAIN filter \cup {new}
      /\ filter'[new] = NewFilter /\ \A f \in DOMAIN filter : filter'[f] = filter[f]
  BY <1>1, <1>4, AppendFacts
<1>6. Grows
  BY <1>2, <1>5 DEF Grows, InChain
<1>7. \A f \in DOMAIN filter' : FilterOK(f)'
  <2>1. FilterOK(new)'
    BY <1>5, EmptyIsSeq DEF FilterOK, NewFilter, NewProcess, ProcessOK
  <2>. QED
    BY <1>5, <2>1 DEF TypeInv, Places, FilterOK
<1>8. \A r \in DOMAIN pl' : PipelineOK(r)'
  BY <1>2, <1>5 DEF TypeInv, Places, PipelineOK
<1>9. Places'
  BY <1>2, <1>5, <1>7, <1>8 DEF TypeInv, Places
<1>10. AddOK(c)'
  BY <1>2, <1>3, <1>5 DEF AddOK, TypeInv, Places
<1>11. RequestOK(c)'
  BY <1>3, <1>10 DEF RequestOK, Adding
<1>12. posted' \in [Clients -> Nat]
  BY <1>2 DEF TypeInv
<1>13. TypeInv'
  BY <1>3, <1>6, <1>9, <1>11, <1>12, StepType
<1>. QED
  BY <1>2, <1>3, <1>4, <1>5, <1>6, <1>13

\* What a post has in hand is the line it read, and steps that leave it so.
TextOK(c) == h[c].at \in Carrying => h[c].text = Head(h[c].todo).text

LEMMA ControlLineDoes ==
    ASSUME TypeInv, NEW c \in Clients, ControlLine(c)
    PROVE  /\ Only(c) /\ RequestOK(c)' /\ UNCHANGED <<pipes, pl, filter, shown, posted>>
           /\ h[c].at = "line" /\ h[c].todo # <<>>
           /\ h'[c].at = "line" /\ h'[c].todo = Tail(h[c].todo)
<1>1. h[c].at = "line" /\ h[c].todo # <<>> /\ Only(c) /\ h'[c] = NextLine(c)
  BY GotoOnly DEF ControlLine, AtLine
<1>2. h[c].p \in DOMAIN pl
  BY <1>1, Posts DEF Posting, PostOK
<1>3. pl[h[c].p].handler = FALSE
  BY <1>2, PipelineFields
<1>4. UNCHANGED <<pipes, pl, filter, shown, posted>>
  BY <1>3 DEF ControlLine
<1>. QED
  BY <1>1, <1>4, NextLineOK DEF Posting

LEMMA AsideDoes ==
    ASSUME TypeInv, NEW c \in Clients, Aside(c) \/ ControlLine(c)
    PROVE  /\ TypeInv' /\ Grows /\ UNCHANGED <<pl, filter, shown, posted>> /\ Only(c)
           /\ h[c].at \in {"line", "set", "filters"}
           /\ \/ h'[c] = Idle
              \/ /\ h'[c].at \in {"line", "set", "filters"}
                 /\ \/ h'[c].todo = h[c].todo
                    \/ h[c].todo # <<>> /\ h'[c].todo = Tail(h[c].todo)
           /\ TextOK(c) => TextOK(c)'
<1>1. Only(c) /\ RequestOK(c)' /\ UNCHANGED <<pipes, pl, filter, shown, posted>>
  BY AsideRequest, ControlLineDoes
<1>2. Grows /\ Places' /\ posted' \in [Clients -> Nat]
  BY <1>1, SamePlaces DEF TypeInv
<1>3. TypeInv'
  BY <1>1, <1>2, StepType
<1>4. /\ h[c].at \in {"line", "set", "filters"}
      /\ \/ h'[c] = Idle
         \/ /\ h'[c].at \in {"line", "set", "filters"}
            /\ \/ h'[c].todo = h[c].todo
               \/ h[c].todo # <<>> /\ h'[c].todo = Tail(h[c].todo)
      /\ TextOK(c) => TextOK(c)'
  <2>1. CASE RunEnds(c) \/ LineFails(c)
    <3>1. h[c].at = "line" /\ h'[c] = Idle
      BY <2>1, GotoOnly DEF RunEnds, LineFails, AtLine
    <3>2. h'[c].at = "idle"
      BY <3>1 DEF Idle
    <3>. QED
      BY <3>1, <3>2 DEF TextOK, Carrying
  <2>2. CASE KVLine(c)
    <3>1. /\ h[c].at = "line" /\ h'[c].at = "set" /\ h'[c].todo = h[c].todo
      BY <2>2, GotoOnly DEF KVLine, AtLine
    <3>. QED
      BY <3>1 DEF TextOK, Carrying
  <2>3. CASE KVPair(c)
    <3>1. /\ h[c].at = "set"
          /\ \/ h'[c] = Idle
             \/ h'[c] = [h[c] EXCEPT !.pairs = Tail(@)]
      BY <2>3, GotoOnly DEF KVPair
    <3>2. PostOK(c)
      BY <3>1, Posts DEF Posting
    <3>. QED
      BY <3>1, <3>2 DEF TextOK, Carrying, Idle, PostOK
  <2>4. CASE KVDone(c)
    <3>1. h[c].at = "set" /\ h'[c] = NextLine(c)
      BY <2>4, GotoOnly DEF KVDone
    <3>2. h'[c].at = "line" /\ h'[c].todo = Tail(h[c].todo)
      BY <3>1 DEF NextLine
    <3>3. h[c].todo # <<>>
      BY <3>1, Posts DEF Posting, PostOK
    <3>. QED
      BY <3>1, <3>2, <3>3 DEF TextOK, Carrying
  <2>5. CASE Content(c)
    <3>1. /\ h[c].at = "line" /\ h'[c].at = "filters" /\ h'[c].todo = h[c].todo
          /\ h'[c].text = Head(h[c].todo).text
      BY <2>5, GotoOnly DEF Content, AtLine
    <3>. QED
      BY <3>1 DEF TextOK
  <2>6. CASE FilterRestartFails(c)
    <3>1. h'[c] = PassOn(c, h[c].text) /\ h[c].at = "filters" /\ h[c].chain # <<>>
      BY <2>6, GotoOnly DEF FilterRestartFails
    <3>2. h'[c].at = "filters" /\ h'[c].todo = h[c].todo /\ h'[c].text = h[c].text
      BY <1>2, <3>1, PassOnOK DEF Carrying
    <3>. QED
      BY <3>1, <3>2 DEF TextOK, Carrying
  <2>7. CASE ControlLine(c)
    BY <2>7, ControlLineDoes DEF TextOK, Carrying
  <2>. QED
    BY <2>1, <2>2, <2>3, <2>4, <2>5, <2>6, <2>7 DEF Aside
<1>. QED
  BY <1>1, <1>2, <1>3, <1>4

\* The steps at a filter.
AtFilter(f) == /\ f \in DOMAIN filter /\ DOMAIN filter' = DOMAIN filter
               /\ \A g \in DOMAIN filter \ {f} : filter'[g] = filter[g]

LEMMA FilterLockDoes ==
    ASSUME TypeInv, NEW c \in Clients, FilterLock(c)
    PROVE  /\ TypeInv' /\ Grows /\ UNCHANGED <<pl, shown, posted>> /\ Only(c)
           /\ h[c].at = "filters" /\ h'[c].at = "filter_write"
           /\ h'[c].p = h[c].p /\ h'[c].todo = h[c].todo /\ h'[c].text = h[c].text
           /\ h'[c].chain = h[c].chain /\ F(c)' = F(c)
           /\ AtFilter(F(c)) /\ InChain(F(c))
           /\ filter[F(c)].mu = Free /\ filter'[F(c)].mu = c
           /\ filter'[F(c)].proc \in {NewProcess, filter[F(c)].proc}
<1>. PICK f : f = F(c)
  OBVIOUS
<1>1. /\ h[c].at = "filters" /\ h[c].chain # <<>> /\ filter[f].mu = Free
      /\ filter' = [filter EXCEPT ![f] = [IF @.dead THEN NewFilter ELSE @ EXCEPT !.mu = c]]
      /\ Goto(c, [h[c] EXCEPT !.at = "filter_write"])
      /\ UNCHANGED <<pipes, pl, shown, posted>>
  BY DEF FilterLock
<1>2. f \in DOMAIN filter /\ InChain(f)
  BY <1>1, FirstFilter DEF Carrying
<1> DEFINE v == [IF filter[f].dead THEN NewFilter ELSE filter[f] EXCEPT !.mu = c]
<1>3. /\ filter' = [filter EXCEPT ![f] = v] /\ DOMAIN v = {"dead", "mu", "proc"} /\ v.mu = c
      /\ v.proc \in {NewProcess, filter[f].proc}
  BY <1>1, <1>2, FilterFields DEF NewFilter
<1>4. ProcessOK(v.proc)
  BY <1>2, <1>3, FilterFields, EmptyIsSeq DEF NewProcess, ProcessOK
<1>. HIDE DEF v
<1>5. Grows /\ Places' /\ AtFilter(f) /\ filter'[f] = v
  BY <1>1, <1>2, <1>3, <1>4, FilterPut DEF AtFilter
<1>6. Only(c) /\ h'[c] = [h[c] EXCEPT !.at = "filter_write"]
  BY <1>1, GotoOnly
<1>7. /\ RequestOK(c)' /\ h'[c].at = "filter_write" /\ h'[c].p = h[c].p
      /\ h'[c].todo = h[c].todo /\ h'[c].text = h[c].text /\ h'[c].chain = h[c].chain
  BY <1>1, <1>5, <1>6, MovesOnOK DEF Carrying, Using
<1>8. TypeInv'
  BY <1>1, <1>5, <1>6, <1>7, StepType DEF TypeInv
<1>. QED
  BY <1>1, <1>2, <1>3, <1>5, <1>6, <1>7, <1>8 DEF F

LEMMA FilterWriteDoes ==
    ASSUME TypeInv, NEW c \in Clients, FilterWrite(c)
    PROVE  /\ TypeInv' /\ Grows /\ UNCHANGED <<pl, shown, posted>> /\ Only(c)
           /\ h[c].at = "filter_write"
           /\ h'[c].p = h[c].p /\ h'[c].todo = h[c].todo /\ h'[c].text = h[c].text
           /\ AtFilter(F(c))
           /\ \/ /\ filter[F(c)].proc.up /\ h'[c].at = "filter_read" /\ h'[c].chain = h[c].chain
                 /\ F(c)' = F(c) /\ filter'[F(c)].mu = filter[F(c)].mu
                 /\ filter'[F(c)].proc.up = filter[F(c)].proc.up
                 /\ filter'[F(c)].proc.in = Append(filter[F(c)].proc.in, h[c].text)
                 /\ filter'[F(c)].proc.out = filter[F(c)].proc.out
              \/ /\ ~filter[F(c)].proc.up /\ h'[c].at = "filters"
                 /\ filter'[F(c)].proc = filter[F(c)].proc
<1>. PICK f : f = F(c)
  OBVIOUS
<1>1. h[c].at = "filter_write" /\ UNCHANGED <<pipes, pl, shown, posted>>
  BY DEF FilterWrite
<1>2. /\ h[c].chain # <<>> /\ {"at", "p", "id", "todo", "chain", "text"} \subseteq DOMAIN h[c]
  BY <1>1, Posts DEF PostOK, Posting, Carrying, Using
<1>3. f \in DOMAIN filter
  BY <1>1, <1>2, FirstFilter DEF Carrying
<1>4. /\ DOMAIN filter[f] = {"dead", "mu", "proc"} /\ DOMAIN filter[f].proc = {"up", "in", "out"}
      /\ IsSeq(filter[f].proc.in) /\ IsSeq(filter[f].proc.out)
  BY <1>3, FilterFields
<1>5. CASE /\ filter[f].proc.up
           /\ filter' = [filter EXCEPT ![f].proc.in = Append(@, h[c].text)]
           /\ Goto(c, [h[c] EXCEPT !.at = "filter_read"])
  <2> DEFINE v == [filter[f] EXCEPT !.proc.in = Append(@, h[c].text)]
  <2>1. filter' = [filter EXCEPT ![f] = v]
    BY <1>5
  <2>2. /\ DOMAIN v = {"dead", "mu", "proc"} /\ v.mu = filter[f].mu
        /\ DOMAIN v.proc = {"up", "in", "out"} /\ v.proc.up = filter[f].proc.up
        /\ v.proc.in = Append(filter[f].proc.in, h[c].text) /\ v.proc.out = filter[f].proc.out
    BY <1>4
  <2>. HIDE DEF v
  <2>3. ProcessOK(v.proc)
    BY <1>4, <2>2, AppendFacts DEF ProcessOK
  <2>4. Grows /\ Places' /\ AtFilter(f) /\ filter'[f] = v
    BY <1>1, <1>3, <2>1, <2>2, <2>3, FilterPut DEF AtFilter
  <2>5. Only(c) /\ h'[c] = [h[c] EXCEPT !.at = "filter_read"]
    BY <1>5, GotoOnly
  <2>6. /\ RequestOK(c)' /\ h'[c].at = "filter_read" /\ h'[c].p = h[c].p
        /\ h'[c].todo = h[c].todo /\ h'[c].text = h[c].text /\ h'[c].chain = h[c].chain
    BY <1>1, <1>2, <2>4, <2>5, MovesOnOK DEF Carrying, Using
  <2>7. TypeInv'
    BY <1>1, <2>4, <2>5, <2>6, StepType DEF TypeInv
  <2>. QED
    BY <1>1, <1>5, <2>2, <2>4, <2>5, <2>6, <2>7 DEF F
<1>6. CASE /\ ~filter[f].proc.up
           /\ filter' = [filter EXCEPT ![f] = [Unlocked(@) EXCEPT !.dead = TRUE]]
           /\ Goto(c, PassOn(c, h[c].text))
  <2> DEFINE v == [Unlocked(filter[f]) EXCEPT !.dead = TRUE]
  <2>1. filter' = [filter EXCEPT ![f] = v]
    BY <1>6
  <2>2. /\ DOMAIN v = {"dead", "mu", "proc"} /\ v.proc = filter[f].proc
    BY <1>4 DEF Unlocked
  <2>. HIDE DEF v
  <2>3. ProcessOK(v.proc)
    BY <1>4, <2>2 DEF ProcessOK
  <2>4. Grows /\ Places' /\ AtFilter(f) /\ filter'[f] = v
    BY <1>1, <1>3, <2>1, <2>2, <2>3, FilterPut DEF AtFilter
  <2>5. Only(c) /\ h'[c] = PassOn(c, h[c].text)
    BY <1>6, GotoOnly
  <2>6. /\ RequestOK(c)' /\ h'[c].at = "filters" /\ h'[c].p = h[c].p
        /\ h'[c].todo = h[c].todo /\ h'[c].text = h[c].text
    BY <1>1, <1>2, <2>4, <2>5, PassOnOK DEF Carrying
  <2>7. TypeInv'
    BY <1>1, <2>4, <2>5, <2>6, StepType DEF TypeInv
  <2>. QED
    BY <1>1, <1>6, <2>2, <2>4, <2>5, <2>6, <2>7
<1>. QED
  BY <1>5, <1>6 DEF FilterWrite

LEMMA FilterReadDoes ==
    ASSUME TypeInv, NEW c \in Clients, FilterRead(c)
    PROVE  /\ TypeInv' /\ Grows /\ UNCHANGED <<pl, shown, posted>> /\ Only(c)
           /\ h[c].at = "filter_read" /\ h'[c].p = h[c].p
           /\ AtFilter(F(c))
           /\ filter'[F(c)].proc.up = filter[F(c)].proc.up
           /\ filter'[F(c)].proc.in = filter[F(c)].proc.in
           /\ \/ /\ filter[F(c)].proc.out # <<>>
                 /\ filter'[F(c)].proc.out = Tail(filter[F(c)].proc.out)
                 /\ \/ h'[c].at = "line" /\ h'[c].todo = Tail(h[c].todo) /\ h[c].todo # <<>>
                    \/ /\ h'[c].at = "filters" /\ h'[c].todo = h[c].todo
                       /\ h'[c].text = Head(filter[F(c)].proc.out)
                       /\ h'[c].text # Blank
              \/ /\ filter[F(c)].proc.out = <<>> /\ ~filter[F(c)].proc.up
                 /\ filter'[F(c)].proc.out = <<>>
                 /\ h'[c].at = "filters" /\ h'[c].todo = h[c].todo /\ h'[c].text = h[c].text
<1>. PICK f : f = F(c)
  OBVIOUS
<1>1. h[c].at = "filter_read" /\ UNCHANGED <<pipes, pl, shown, posted>>
  BY DEF FilterRead
<1>2. /\ h[c].chain # <<>> /\ h[c].todo # <<>>
      /\ {"at", "p", "id", "todo", "chain", "text"} \subseteq DOMAIN h[c]
  BY <1>1, Posts DEF PostOK, Posting, Carrying, Using
<1>3. f \in DOMAIN filter
  BY <1>1, <1>2, FirstFilter DEF Carrying
<1>4. /\ DOMAIN filter[f] = {"dead", "mu", "proc"} /\ DOMAIN filter[f].proc = {"up", "in", "out"}
      /\ IsSeq(filter[f].proc.in) /\ IsSeq(filter[f].proc.out)
  BY <1>3, FilterFields
<1>5. CASE /\ filter[f].proc.out # <<>>
           /\ filter' = [filter EXCEPT ![f] = [Unlocked(@) EXCEPT !.proc.out = Tail(filter[f].proc.out)]]
           /\ Goto(c, IF Head(filter[f].proc.out) = Blank THEN NextLine(c)
                      ELSE PassOn(c, Head(filter[f].proc.out)))
  <2> DEFINE v == [Unlocked(filter[f]) EXCEPT !.proc.out = Tail(filter[f].proc.out)]
  <2>1. filter' = [filter EXCEPT ![f] = v]
    BY <1>5
  <2>2. /\ DOMAIN v = {"dead", "mu", "proc"}
        /\ DOMAIN v.proc = {"up", "in", "out"} /\ v.proc.up = filter[f].proc.up
        /\ v.proc.in = filter[f].proc.in /\ v.proc.out = Tail(filter[f].proc.out)
    BY <1>4 DEF Unlocked
  <2>. HIDE DEF v
  <2>3. ProcessOK(v.proc)
    BY <1>4, <1>5, <2>2, TailFacts DEF ProcessOK
  <2>4. Grows /\ Places' /\ AtFilter(f) /\ filter'[f] = v
    BY <1>1, <1>3, <2>1, <2>2, <2>3, FilterPut DEF AtFilter
  <2>5. CASE Head(filter[f].proc.out) = Blank
    <3>1. Only(c) /\ h'[c] = NextLine(c)
      BY <1>5, <2>5, GotoOnly
    <3>2. /\ RequestOK(c)' /\ h'[c].at = "line" /\ h'[c].p = h[c].p
          /\ h'[c].todo = Tail(h[c].todo)
      BY <1>1, <1>2, <2>4, <3>1, NextLineOK DEF Carrying, Posting, Grows
    <3>3. TypeInv'
      BY <1>1, <2>4, <3>1, <3>2, StepType DEF TypeInv
    <3>. QED
      BY <1>1, <1>2, <1>5, <2>2, <2>4, <3>1, <3>2, <3>3
  <2>6. CASE Head(filter[f].proc.out) # Blank
    <3>1. Only(c) /\ h'[c] = PassOn(c, Head(filter[f].proc.out))
      BY <1>5, <2>6, GotoOnly
    <3>2. /\ RequestOK(c)' /\ h'[c].at = "filters" /\ h'[c].p = h[c].p
          /\ h'[c].todo = h[c].todo /\ h'[c].text = Head(filter[f].proc.out)
      BY <1>1, <1>2, <2>4, <3>1, PassOnOK DEF Carrying
    <3>3. TypeInv'
      BY <1>1, <2>4, <3>1, <3>2, StepType DEF TypeInv
    <3>. QED
      BY <1>1, <1>2, <1>5, <2>2, <2>4, <2>6, <3>1, <3>2, <3>3
  <2>. QED
    BY <2>5, <2>6
<1>6. CASE /\ filter[f].proc.out = <<>> /\ ~filter[f].proc.up
           /\ filter' = [filter EXCEPT ![f] = [Unlocked(@) EXCEPT !.dead = TRUE]]
           /\ Goto(c, PassOn(c, h[c].text))
  <2> DEFINE v == [Unlocked(filter[f]) EXCEPT !.dead = TRUE]
  <2>1. filter' = [filter EXCEPT ![f] = v]
    BY <1>6
  <2>2. /\ DOMAIN v = {"dead", "mu", "proc"} /\ v.proc = filter[f].proc
    BY <1>4 DEF Unlocked
  <2>. HIDE DEF v
  <2>3. ProcessOK(v.proc)
    BY <1>4, <2>2 DEF ProcessOK
  <2>4. Grows /\ Places' /\ AtFilter(f) /\ filter'[f] = v
    BY <1>1, <1>3, <2>1, <2>2, <2>3, FilterPut DEF AtFilter
  <2>5. Only(c) /\ h'[c] = PassOn(c, h[c].text)
    BY <1>6, GotoOnly
  <2>6. /\ RequestOK(c)' /\ h'[c].at = "filters" /\ h'[c].p = h[c].p
        /\ h'[c].todo = h[c].todo /\ h'[c].text = h[c].text
    BY <1>1, <1>2, <2>4, <2>5, PassOnOK DEF Carrying
  <2>7. TypeInv'
    BY <1>1, <2>4, <2>5, <2>6, StepType DEF TypeInv
  <2>. QED
    BY <1>1, <1>6, <2>2, <2>4, <2>5, <2>6, <2>7
<1>. QED
  BY <1>5, <1>6 DEF FilterRead

\* The steps at a pipeline's end, and those that add a filter.
LEMMA ScrollbackAppendDoes ==
    ASSUME TypeInv, NEW c \in Clients, ScrollbackAppend(c)
    PROVE  /\ TypeInv' /\ Grows /\ UNCHANGED <<filter, shown, posted>> /\ Only(c)
           /\ h[c].at = "filters" /\ h'[c].at = "sink"
           /\ h'[c].p = h[c].p /\ h'[c].todo = h[c].todo /\ h'[c].text = h[c].text
           /\ h[c].p \in DOMAIN pl /\ DOMAIN pl' = DOMAIN pl
           /\ \A r \in DOMAIN pl : pl'[r].filters = pl[r].filters
           /\ \A r \in DOMAIN pl \ {h[c].p} : pl'[r] = pl[r]
           /\ pl'[h[c].p].scrollback = KeepLast(Append(pl[h[c].p].scrollback, h[c].text))
<1>. PICK r : r = h[c].p
  OBVIOUS
<1>1. /\ h[c].at = "filters" /\ UNCHANGED <<pipes, filter, shown, posted>>
      /\ pl' = [pl EXCEPT ![r].scrollback = KeepLast(Append(@, h[c].text))]
      /\ Goto(c, [h[c] EXCEPT !.at = "sink"])
  BY DEF ScrollbackAppend
<1>2. r \in DOMAIN pl
  BY <1>1, Posts DEF PostOK, Posting, Carrying
<1>3. /\ DOMAIN pl[r] = {"filters", "scrollback", "handler"}
      /\ IsSeq(pl[r].filters) /\ IsSeq(pl[r].scrollback) /\ pl[r].handler = FALSE
      /\ ToSet(pl[r].filters) \subseteq DOMAIN filter
  BY <1>2, PipelineFields
<1> DEFINE longer == Append(pl[r].scrollback, h[c].text)
<1>4. IsSeq(longer) /\ Len(longer) # 0 /\ longer # <<>>
  <2>1. IsSeq(longer) /\ Len(longer) = Len(pl[r].scrollback) + 1 /\ Len(pl[r].scrollback) \in Nat
    BY <1>3, AppendFacts, SeqFacts
  <2>. QED
    BY <2>1, SeqFacts
<1>5. IsSeq(KeepLast(longer))
  BY <1>4, TailFacts DEF KeepLast
<1>. HIDE DEF longer
<1> DEFINE v == [pl[r] EXCEPT !.scrollback = KeepLast(longer)]
<1>6. pl' = [pl EXCEPT ![r] = v]
  BY <1>1 DEF longer
<1>7. /\ DOMAIN v = {"filters", "scrollback", "handler"}
      /\ v.scrollback = KeepLast(longer) /\ v.filters = pl[r].filters /\ v.handler = FALSE
  BY <1>3
<1>. HIDE DEF v
<1>7a. /\ IsSeq(v.filters) /\ IsSeq(v.scrollback)
       /\ ToSet(v.filters) \subseteq DOMAIN filter
       /\ ToSet(pl[r].filters) \subseteq ToSet(v.filters)
  BY <1>3, <1>5, <1>7
<1>8. /\ Grows /\ Places' /\ DOMAIN pl' = DOMAIN pl
      /\ pl'[r] = v /\ \A q \in DOMAIN pl \ {r} : pl'[q] = pl[q]
  BY <1>1, <1>2, <1>6, <1>7, <1>7a, PipelinePut
<1>9. Only(c) /\ h'[c] = [h[c] EXCEPT !.at = "sink"]
  BY <1>1, GotoOnly
<1>10. /\ RequestOK(c)' /\ h'[c].at = "sink" /\ h'[c].p = h[c].p
       /\ h'[c].todo = h[c].todo /\ h'[c].text = h[c].text
  BY <1>1, <1>8, <1>9, MovesOnOK DEF Carrying, Using
<1>11. TypeInv'
  BY <1>1, <1>8, <1>9, <1>10, StepType DEF TypeInv
<1>. QED
  BY <1>1, <1>2, <1>7, <1>8, <1>9, <1>10, <1>11 DEF longer

LEMMA SinkDoes ==
    ASSUME TypeInv, NEW c \in Clients, Sink(c)
    PROVE  /\ TypeInv' /\ Grows /\ UNCHANGED <<pl, filter, posted>> /\ Only(c)
           /\ h[c].at = "sink" /\ h'[c].at = "line"
           /\ h[c].todo # <<>> /\ h'[c].todo = Tail(h[c].todo)
           /\ h[c].p \in DOMAIN shown /\ DOMAIN shown' = DOMAIN shown
           /\ shown'[h[c].p] = Append(shown[h[c].p], h[c].text)
           /\ \A r \in DOMAIN shown \ {h[c].p} : shown'[r] = shown[r]
<1>. PICK r : r = h[c].p
  OBVIOUS
<1>1. /\ h[c].at = "sink" /\ UNCHANGED <<pipes, pl, filter, posted>>
      /\ shown' = [shown EXCEPT ![r] = Append(shown[r], h[c].text)]
      /\ Goto(c, NextLine(c))
  BY DEF Sink
<1>2. r \in DOMAIN pl /\ h[c].todo # <<>>
  BY <1>1, Posts DEF PostOK, Posting, Carrying
<1>3. r \in DOMAIN shown /\ IsSeq(shown[r]) /\ IsSeq(shown)
  BY <1>2, PipelineFields DEF TypeInv, Places
<1>. PICK longer : longer = Append(shown[r], h[c].text)
  OBVIOUS
<1>3a. IsSeq(longer) /\ shown' = [shown EXCEPT ![r] = longer]
  BY <1>1, <1>3, AppendFacts
<1>4. /\ IsSeq(shown') /\ Len(shown') = Len(shown) /\ DOMAIN shown' = DOMAIN shown
      /\ shown'[r] = longer
      /\ \A q \in DOMAIN shown \ {r} : shown'[q] = shown[q]
  <2> DEFINE t == [shown EXCEPT ![r] = longer]
  <2>1. /\ IsSeq(t) /\ Len(t) = Len(shown) /\ DOMAIN t = DOMAIN shown
        /\ t[r] = longer /\ \A q \in DOMAIN shown \ {r} : t[q] = shown[q]
    BY <1>3, PutFacts
  <2>2. shown' = t
    BY <1>3a
  <2>. HIDE DEF t
  <2>. QED
    BY <2>1, <2>2
<1>5. \A q \in DOMAIN shown' : IsSeq(shown'[q])
  BY <1>3, <1>3a, <1>4 DEF TypeInv, Places
<1>6. Places'
  BY <1>1, <1>4, <1>5 DEF TypeInv, Places, PipelineOK, FilterOK
<1>7. Grows
  BY <1>1 DEF Grows, InChain
<1>8. Only(c) /\ h'[c] = NextLine(c)
  BY <1>1, GotoOnly
<1>9. /\ RequestOK(c)' /\ h'[c].at = "line" /\ h'[c].todo = Tail(h[c].todo)
  BY <1>1, <1>2, <1>8, NextLineOK DEF Carrying, Posting
<1>10. TypeInv'
  BY <1>1, <1>6, <1>7, <1>8, <1>9, StepType DEF TypeInv
<1>. QED
  BY <1>1, <1>2, <1>3, <1>4, <1>7, <1>8, <1>9, <1>10

LEMMA AddFilterDoes ==
    ASSUME TypeInv, NEW c \in Clients, AddFilter(c)
    PROVE  /\ TypeInv' /\ Grows /\ UNCHANGED <<filter, shown, posted>> /\ Only(c)
           /\ h[c].at = "filter_add" /\ h[c].f \in DOMAIN filter /\ DOMAIN pl' = DOMAIN pl
           /\ \/ /\ h'[c] = Idle /\ h[c].p \in DOMAIN pl
                 /\ ToSet(pl'[h[c].p].filters) = ToSet(pl[h[c].p].filters) \cup {h[c].f}
                 /\ \A r \in DOMAIN pl : pl'[r].scrollback = pl[r].scrollback
                 /\ \A r \in DOMAIN pl \ {h[c].p} : pl'[r] = pl[r]
              \/ h'[c].at = "filter_close" /\ h'[c].f = h[c].f /\ pl' = pl
<1>. PICK r, f : r = h[c].p /\ f = h[c].f
  OBVIOUS
<1>1. h[c].at = "filter_add" /\ UNCHANGED <<pipes, filter, shown, posted>>
  BY DEF AddFilter
<1>2. {"at", "p", "f"} \subseteq DOMAIN h[c] /\ r \in DOMAIN pl /\ f \in DOMAIN filter
  BY <1>1, Adds DEF AddOK, Adding
<1>3. CASE /\ pl' = [pl EXCEPT ![r].filters = Append(@, f)]
           /\ Goto(c, Idle)
  <2>1. /\ DOMAIN pl[r] = {"filters", "scrollback", "handler"}
        /\ IsSeq(pl[r].filters) /\ IsSeq(pl[r].scrollback) /\ pl[r].handler = FALSE
        /\ ToSet(pl[r].filters) \subseteq DOMAIN filter
    BY <1>2, PipelineFields
  <2> DEFINE v == [pl[r] EXCEPT !.filters = Append(pl[r].filters, f)]
  <2>2. pl' = [pl EXCEPT ![r] = v]
    BY <1>3
  <2>3. /\ DOMAIN v = {"filters", "scrollback", "handler"}
        /\ v.filters = Append(pl[r].filters, f) /\ v.scrollback = pl[r].scrollback /\ v.handler = FALSE
    BY <2>1
  <2>. HIDE DEF v
  <2>4. IsSeq(v.filters) /\ ToSet(v.filters) = ToSet(pl[r].filters) \cup {f}
    BY <2>1, <2>3, AppendFacts
  <2>5. /\ Grows /\ Places' /\ DOMAIN pl' = DOMAIN pl
        /\ pl'[r] = v /\ \A q \in DOMAIN pl \ {r} : pl'[q] = pl[q]
    BY <1>1, <1>2, <2>1, <2>2, <2>3, <2>4, PipelinePut
  <2>6. Only(c) /\ h'[c] = Idle /\ RequestOK(c)'
    BY <1>3, GotoOnly, IdleOK
  <2>7. TypeInv'
    BY <1>1, <2>5, <2>6, StepType DEF TypeInv
  <2>8. \A q \in DOMAIN pl : pl'[q].scrollback = pl[q].scrollback
    BY <2>3, <2>5
  <2>9. ToSet(pl'[r].filters) = ToSet(pl[r].filters) \cup {f}
    BY <2>4, <2>5
  <2>. QED
    BY <1>1, <1>2, <2>5, <2>6, <2>7, <2>8, <2>9
<1>4. CASE Goto(c, [h[c] EXCEPT !.at = "filter_close"]) /\ UNCHANGED pl
  <2>1. Only(c) /\ h'[c] = [h[c] EXCEPT !.at = "filter_close"]
    BY <1>4, GotoOnly
  <2>2. /\ h'[c].at = "filter_close" /\ h'[c].f = f /\ h'[c].p = r
        /\ DOMAIN h'[c] = DOMAIN h[c]
    BY <1>2, <2>1
  <2>3. AddOK(c)'
    BY <1>1, <1>2, <1>4, <2>2 DEF AddOK
  <2>4. RequestOK(c)'
    BY <2>2, <2>3 DEF RequestOK, Adding
  <2>5. Grows /\ Places'
    BY <1>1, <1>4, SamePlaces
  <2>6. TypeInv'
    BY <1>1, <2>1, <2>4, <2>5, StepType DEF TypeInv
  <2>. QED
    BY <1>1, <1>2, <1>4, <2>1, <2>2, <2>5, <2>6
<1>. QED
  BY <1>3, <1>4 DEF AddFilter

\* A command that is closed, that answers, that ends.
LEMMA ProcessPut ==
    ASSUME TypeInv, NEW f \in DOMAIN filter, NEW v, ProcessOK(v.proc),
           DOMAIN v = {"dead", "mu", "proc"}, filter' = [filter EXCEPT ![f] = v],
           UNCHANGED <<pipes, pl, shown, posted>>
    PROVE  /\ Places' /\ Grows /\ AtFilter(f) /\ filter'[f] = v /\ posted' \in [Clients -> Nat]
BY FilterPut DEF AtFilter, TypeInv

LEMMA FilterCloseDoes ==
    ASSUME TypeInv, NEW c \in Clients, FilterClose(c)
    PROVE  /\ TypeInv' /\ Grows /\ UNCHANGED <<pl, shown, posted>> /\ Only(c)
           /\ h[c].at = "filter_close" /\ h'[c] = Idle
           /\ AtFilter(h[c].f) /\ ~filter'[h[c].f].proc.up
           /\ filter'[h[c].f].proc.in = filter[h[c].f].proc.in
           /\ filter'[h[c].f].proc.out = filter[h[c].f].proc.out
           /\ filter'[h[c].f].mu = filter[h[c].f].mu
<1>. PICK f : f = h[c].f
  OBVIOUS
<1>1. /\ h[c].at = "filter_close" /\ UNCHANGED <<pipes, pl, shown, posted>> /\ Goto(c, Idle)
      /\ filter' = [filter EXCEPT ![f].dead = TRUE, ![f].proc.up = FALSE]
  BY DEF FilterClose
<1>2. f \in DOMAIN filter
  BY <1>1, Adds DEF AddOK, Adding
<1> DEFINE v == [filter[f] EXCEPT !.dead = TRUE, !.proc.up = FALSE]
<1>3. filter' = [filter EXCEPT ![f] = v]
  BY <1>1, <1>2
<1>4. /\ DOMAIN v = {"dead", "mu", "proc"} /\ DOMAIN v.proc = {"up", "in", "out"}
      /\ ~v.proc.up /\ v.mu = filter[f].mu
      /\ v.proc.in = filter[f].proc.in /\ v.proc.out = filter[f].proc.out
  BY <1>2, FilterFields
<1>. HIDE DEF v
<1>5. ProcessOK(v.proc)
  BY <1>2, <1>4, FilterFields DEF ProcessOK
<1>6. /\ Places' /\ Grows /\ AtFilter(f) /\ filter'[f] = v /\ posted' \in [Clients -> Nat]
  BY <1>1, <1>2, <1>3, <1>4, <1>5, ProcessPut
<1>7. Only(c) /\ h'[c] = Idle /\ RequestOK(c)'
  BY <1>1, GotoOnly, IdleOK
<1>8. TypeInv'
  BY <1>6, <1>7, StepType
<1>. QED
  BY <1>1, <1>4, <1>6, <1>7, <1>8

LEMMA NobodyMoves ==
    ASSUME TypeInv, Grows, Places', UNCHANGED <<posted, h>>
    PROVE  TypeInv'
<1>1. \A c \in Clients : RequestOK(c)'
  <2> SUFFICES ASSUME NEW c \in Clients PROVE RequestOK(c)'
    OBVIOUS
  <2>. QED
    BY DEF TypeInv, Grows, RequestOK, PostOK, AddOK
<1>. QED
  BY <1>1 DEF TypeInv

LEMMA CommandAnswersDoes ==
    ASSUME TypeInv, NEW f \in DOMAIN filter, CommandAnswers(f)
    PROVE  /\ TypeInv' /\ Grows /\ UNCHANGED <<pl, shown, posted, h>> /\ AtFilter(f)
           /\ filter[f].proc.up /\ filter[f].proc.in # <<>>
           /\ filter'[f].mu = filter[f].mu /\ filter'[f].proc.up
           /\ filter'[f].proc.in = Tail(filter[f].proc.in)
           /\ \E out \in Answers(Head(filter[f].proc.in)) :
                 filter'[f].proc.out = filter[f].proc.out \o out
<1>1. PICK out \in Answers(Head(filter[f].proc.in)) :
         filter' = [filter EXCEPT ![f].proc.in = Tail(@), ![f].proc.out = @ \o out]
  BY DEF CommandAnswers
<1>2. filter[f].proc.up /\ filter[f].proc.in # <<>> /\ UNCHANGED <<pipes, pl, shown, posted, h>>
  BY DEF CommandAnswers
<1> DEFINE v == [filter[f] EXCEPT !.proc.in = Tail(filter[f].proc.in),
                                  !.proc.out = filter[f].proc.out \o out]
<1>3. filter' = [filter EXCEPT ![f] = v]
  BY <1>1, FilterFields
<1>4. /\ DOMAIN v = {"dead", "mu", "proc"} /\ DOMAIN v.proc = {"up", "in", "out"}
      /\ v.proc.up /\ v.mu = filter[f].mu
      /\ v.proc.in = Tail(filter[f].proc.in) /\ v.proc.out = filter[f].proc.out \o out
  BY <1>2, FilterFields
<1>. HIDE DEF v
<1>5. IsSeq(v.proc.in)
  BY <1>2, <1>4, FilterFields, TailFacts
<1>6. IsSeq(v.proc.out)
  <2>1. PICK S : filter[f].proc.out \in Seq(S)
    BY FilterFields DEF IsSeq
  <2> DEFINE T == S \cup {Head(filter[f].proc.in), Blank}
  <2>. PICK x : x = Head(filter[f].proc.in)
    OBVIOUS
  <2>a. out = <<x>> \/ out = <<Blank>> \/ out = <<>> \/ out = <<x, x>>
    BY DEF Answers
  <2>b. x \in T /\ Blank \in T /\ S \subseteq T
    OBVIOUS
  <2>. HIDE DEF T
  <2>c. <<x>> \in Seq(T) /\ <<Blank>> \in Seq(T) /\ <<>> \in Seq(T) /\ <<x, x>> \in Seq(T)
    BY <2>b
  <2>2. filter[f].proc.out \in Seq(T) /\ out \in Seq(T)
    <3>1. out \in Seq(T)
      BY <2>a, <2>c
    <3>2. filter[f].proc.out \in Seq(T)
      BY <2>1, <2>b
    <3>. QED
      BY <3>1, <3>2
  <2>3. v.proc.out \in Seq(T)
    BY <1>4, <2>2
  <2>. QED
    BY <2>3 DEF IsSeq
<1>7. ProcessOK(v.proc)
  BY <1>4, <1>5, <1>6 DEF ProcessOK
<1>8. /\ Places' /\ Grows /\ AtFilter(f) /\ filter'[f] = v
  BY <1>2, <1>3, <1>4, <1>7, ProcessPut
<1>9. TypeInv'
  BY <1>2, <1>8, NobodyMoves
<1>. QED
  BY <1>2, <1>4, <1>8, <1>9

LEMMA CommandEndsDoes ==
    ASSUME TypeInv, NEW f \in DOMAIN filter, CommandEnds(f)
    PROVE  /\ TypeInv' /\ Grows /\ UNCHANGED <<pl, shown, posted, h>> /\ AtFilter(f)
           /\ filter'[f].mu = filter[f].mu /\ ~filter'[f].proc.up
           /\ filter'[f].proc.in = <<>> /\ filter'[f].proc.out = filter[f].proc.out
<1>1. /\ UNCHANGED <<pipes, pl, shown, posted, h>>
      /\ filter' = [filter EXCEPT ![f].proc.up = FALSE, ![f].proc.in = <<>>]
  BY DEF CommandEnds
<1> DEFINE v == [filter[f] EXCEPT !.proc.up = FALSE, !.proc.in = <<>>]
<1>2. filter' = [filter EXCEPT ![f] = v]
  BY <1>1, FilterFields
<1>3. /\ DOMAIN v = {"dead", "mu", "proc"} /\ DOMAIN v.proc = {"up", "in", "out"}
      /\ ~v.proc.up /\ v.mu = filter[f].mu
      /\ v.proc.in = <<>> /\ v.proc.out = filter[f].proc.out
  BY FilterFields
<1>. HIDE DEF v
<1>4. ProcessOK(v.proc)
  BY <1>3, FilterFields, EmptyIsSeq DEF ProcessOK
<1>5. /\ Places' /\ Grows /\ AtFilter(f) /\ filter'[f] = v
  BY <1>1, <1>2, <1>3, <1>4, ProcessPut
<1>6. TypeInv'
  BY <1>1, <1>5, NobodyMoves
<1>. QED
  BY <1>1, <1>3, <1>5, <1>6

LEMMA StutterDoes ==
    ASSUME TypeInv, UNCHANGED vars
    PROVE  TypeInv' /\ Grows /\ UNCHANGED <<pl, filter, shown, posted, h>>
<1>1. UNCHANGED <<pipes, pl, filter, shown, posted, h>>
  BY DEF vars
<1>. QED
  BY <1>1, SamePlaces, NobodyMoves

LEMMA TypeNext == TypeInv /\ [Next]_vars => TypeInv'
BY RegisterDoes, DeregisterDoes, StreamPostDoes, KVRequestDoes, FilterStartDoes, AsideDoes,
   FilterLockDoes, FilterWriteDoes, FilterReadDoes, ScrollbackAppendDoes, SinkDoes,
   AddFilterDoes, FilterCloseDoes, CommandAnswersDoes, CommandEndsDoes, StutterDoes
   DEF Next, Request, Step, Aside

\* The sequences, records and tables of the model keep their shape: every pane
\* ID stands for a pipeline there is, every filter of a chain was started, and
\* a request is at one of its places with what it needs there.
THEOREM TypesHold == Spec => []TypeInv
BY TypeInit, TypeNext, PTL DEF Spec

-----------------------------------------------------------------------------
(* No command runs that no chain has, but for those being added. *)

Served(f) == InChain(f) \/ \E c \in Clients : h[c].at \in Adding /\ h[c].f = f
OrphanInv == \A f \in DOMAIN filter : filter[f].proc.up => Served(f)

LEMMA StaysServed ==
    ASSUME TypeInv, OrphanInv, Grows, NEW c \in Clients, Only(c), h[c].at \notin Adding,
           DOMAIN filter' = DOMAIN filter,
           \A f \in DOMAIN filter : filter'[f].proc.up => filter[f].proc.up \/ InChain(f)
    PROVE  OrphanInv'
<1> SUFFICES ASSUME NEW f \in DOMAIN filter, filter'[f].proc.up PROVE Served(f)'
  BY DEF OrphanInv
<1>1. CASE InChain(f)
  BY <1>1 DEF Grows, Served
<1>2. CASE ~InChain(f)
  <2>1. PICK d \in Clients : h[d].at \in Adding /\ h[d].f = f
    BY <1>2 DEF OrphanInv, Served
  <2>2. h'[d] = h[d]
    BY <2>1 DEF Only
  <2>. QED
    BY <2>1, <2>2 DEF Served
<1>. QED
  BY <1>1, <1>2

LEMMA OrphanNext == TypeInv /\ OrphanInv /\ [Next]_vars => OrphanInv'
<1> SUFFICES ASSUME TypeInv, OrphanInv, [Next]_vars PROVE OrphanInv'
  OBVIOUS
<1>0. h' = h /\ filter' = filter /\ Grows => OrphanInv'
  BY DEF OrphanInv, Served, Grows
<1>1. ASSUME NEW id, Register(id) PROVE OrphanInv'
  BY <1>0, <1>1, RegisterDoes
<1>2. ASSUME NEW id, Deregister(id) PROVE OrphanInv'
  BY <1>0, <1>2, DeregisterDoes
<1>3. ASSUME NEW c \in Clients, StreamPost(c) PROVE OrphanInv'
  BY <1>3, StreamPostDoes, StaysServed DEF Idle, Adding
<1>4. ASSUME NEW c \in Clients, KVRequest(c) PROVE OrphanInv'
  BY <1>0, <1>4, KVRequestDoes
<1>5. ASSUME NEW c \in Clients, FilterStart(c) PROVE OrphanInv'
  <2>. PICK new : new = Len(filter) + 1
    OBVIOUS
  <2>1. /\ Grows /\ Only(c) /\ h[c] = Idle /\ h'[c].at = "filter_add" /\ h'[c].f = new
        /\ DOMAIN filter' = DOMAIN filter \cup {new}
        /\ \A f \in DOMAIN filter : filter'[f] = filter[f]
    BY <1>5, FilterStartDoes
  <2>2. Served(new)'
    BY <2>1 DEF Served, Adding
  <2>3. ASSUME NEW f \in DOMAIN filter, filter'[f].proc.up PROVE Served(f)'
    <3>1. Served(f)
      BY <2>1, <2>3 DEF OrphanInv
    <3>2. ASSUME NEW d \in Clients, h[d].at \in Adding, h[d].f = f PROVE Served(f)'
      <4>1. h'[d] = h[d]
        BY <2>1, <3>2 DEF Only, Idle, Adding
      <4>. QED
        BY <3>2, <4>1 DEF Served
    <3>. QED
      BY <2>1, <3>1, <3>2 DEF Served, Grows
  <2>. QED
    BY <2>1, <2>2, <2>3 DEF OrphanInv
<1>6. ASSUME NEW c \in Clients, Aside(c) \/ ControlLine(c) PROVE OrphanInv'
  BY <1>6, AsideDoes, StaysServed DEF Adding
<1>7. ASSUME NEW c \in Clients, FilterLock(c) PROVE OrphanInv'
  <2>1. \A f \in DOMAIN filter : filter'[f].proc.up => filter[f].proc.up \/ InChain(f)
    BY <1>7, FilterLockDoes DEF AtFilter
  <2>. QED
    BY <1>7, <2>1, FilterLockDoes, StaysServed DEF Adding, AtFilter
<1>8. ASSUME NEW c \in Clients, FilterWrite(c) PROVE OrphanInv'
  <2>1. \A f \in DOMAIN filter : filter'[f].proc.up => filter[f].proc.up
    BY <1>8, FilterWriteDoes DEF AtFilter
  <2>. QED
    BY <1>8, <2>1, FilterWriteDoes, StaysServed DEF Adding, AtFilter
<1>9. ASSUME NEW c \in Clients, FilterRead(c) PROVE OrphanInv'
  <2>1. \A f \in DOMAIN filter : filter'[f].proc.up => filter[f].proc.up
    BY <1>9, FilterReadDoes DEF AtFilter
  <2>. QED
    BY <1>9, <2>1, FilterReadDoes, StaysServed DEF Adding, AtFilter
<1>10. ASSUME NEW c \in Clients, ScrollbackAppend(c) PROVE OrphanInv'
  BY <1>10, ScrollbackAppendDoes, StaysServed DEF Adding
<1>11. ASSUME NEW c \in Clients, Sink(c) PROVE OrphanInv'
  BY <1>11, SinkDoes, StaysServed DEF Adding
<1>12. ASSUME NEW c \in Clients, AddFilter(c) PROVE OrphanInv'
  <2>1. /\ Grows /\ Only(c) /\ filter' = filter /\ DOMAIN pl' = DOMAIN pl
        /\ \/ /\ h[c].p \in DOMAIN pl
              /\ ToSet(pl'[h[c].p].filters) = ToSet(pl[h[c].p].filters) \cup {h[c].f}
           \/ h'[c].at = "filter_close" /\ h'[c].f = h[c].f
    BY <1>12, AddFilterDoes
  <2>3. ASSUME NEW f \in DOMAIN filter, filter[f].proc.up PROVE Served(f)'
    <3>1. CASE f = h[c].f
      BY <2>1, <3>1 DEF Served, InChain, Adding
    <3>2. CASE InChain(f)
      BY <2>1, <3>2 DEF Served, Grows
    <3>3. CASE f # h[c].f /\ ~InChain(f)
      <4>1. PICK d \in Clients : h[d].at \in Adding /\ h[d].f = f
        BY <2>3, <3>3 DEF OrphanInv, Served
      <4>2. h'[d] = h[d]
        BY <2>1, <3>3, <4>1 DEF Only
      <4>. QED
        BY <4>1, <4>2 DEF Served
    <3>. QED
      BY <3>1, <3>2, <3>3
  <2>. QED
    BY <2>1, <2>3 DEF OrphanInv
<1>13. ASSUME NEW c \in Clients, FilterClose(c) PROVE OrphanInv'
  <2>1. /\ Grows /\ Only(c) /\ DOMAIN filter' = DOMAIN filter /\ ~filter'[h[c].f].proc.up
        /\ \A g \in DOMAIN filter \ {h[c].f} : filter'[g] = filter[g]
    BY <1>13, FilterCloseDoes DEF AtFilter
  <2>2. ASSUME NEW f \in DOMAIN filter, filter'[f].proc.up PROVE Served(f)'
    <3>1. f # h[c].f /\ filter[f].proc.up
      BY <2>1, <2>2
    <3>2. ASSUME NEW d \in Clients, h[d].at \in Adding, h[d].f = f PROVE Served(f)'
      <4>1. h'[d] = h[d]
        BY <2>1, <3>1, <3>2 DEF Only
      <4>. QED
        BY <3>2, <4>1 DEF Served
    <3>. QED
      BY <2>1, <3>1, <3>2 DEF OrphanInv, Served, Grows
  <2>. QED
    BY <2>1, <2>2 DEF OrphanInv
<1>14. ASSUME NEW f \in DOMAIN filter, CommandAnswers(f) \/ CommandEnds(f) PROVE OrphanInv'
  <2>1. Grows /\ h' = h /\ AtFilter(f) /\ (filter'[f].proc.up => filter[f].proc.up)
    BY <1>14, CommandAnswersDoes, CommandEndsDoes
  <2>. QED
    BY <2>1 DEF OrphanInv, Served, Grows, AtFilter
<1>15. CASE UNCHANGED vars
  BY <1>0, <1>15, StutterDoes
<1>. QED
  BY <1>1, <1>2, <1>3, <1>4, <1>5, <1>6, <1>7, <1>8, <1>9, <1>10, <1>11, <1>12, <1>13, <1>14, <1>15
     DEF Next, Request, Step, Aside

\* With no request in progress, a command still running is in the chain it was
\* started for, that of a pipeline closed meanwhile included: the command that a
\* full chain refused has been stopped (routes.go, handlePaneFilterAdd), and no
\* filter ever leaves its chain.  Those of a closed pane are stopped by nobody.
THEOREM RefusedAreStopped == Spec => []RefusedCommandsEnd
<1>1. Init => OrphanInv
  BY EmptyIsSeq DEF Init, OrphanInv
<1>2. TypeInv /\ OrphanInv => RefusedCommandsEnd
  BY DEF OrphanInv, Served, RefusedCommandsEnd, Quiet, InChain, Idle, Adding
<1>. QED
  BY <1>1, <1>2, TypeInit, TypeNext, OrphanNext, PTL DEF Spec

-----------------------------------------------------------------------------
(* What the scrollback holds was shown, or is about to be. *)

AtSink(r) == {c \in Clients : h[c].at = "sink" /\ h[c].p = r}
Coming(r) == {h[c].text : c \in AtSink(r)}
Sent(r) == Len(shown[r]) + Cardinality(AtSink(r))

HoldsOK(r) == /\ IsFiniteSet(AtSink(r))
              /\ ToSet(pl[r].scrollback) \subseteq ToSet(shown[r]) \cup Coming(r)
              /\ Len(pl[r].scrollback) = IF Sent(r) <= ScrollbackCap THEN Sent(r) ELSE ScrollbackCap

HoldInv == \A r \in DOMAIN pl : HoldsOK(r)

LEMMA KeepLastFacts ==
    ASSUME NEW s, IsSeq(s), Len(s) <= ScrollbackCap, NEW x
    PROVE  LET t == KeepLast(Append(s, x))
           IN  /\ ToSet(t) \subseteq ToSet(s) \cup {x}
               /\ Len(t) = IF Len(s) + 1 <= ScrollbackCap THEN Len(s) + 1 ELSE ScrollbackCap
<1>. PICK t : t = Append(s, x)
  OBVIOUS
<1>1. IsSeq(t) /\ Len(t) = Len(s) + 1 /\ ToSet(t) = ToSet(s) \cup {x} /\ Len(s) \in Nat
  BY AppendFacts, SeqFacts
<1>2. t # <<>>
  BY <1>1, SeqFacts
<1>3. Len(Tail(t)) = Len(t) - 1 /\ ToSet(Tail(t)) \subseteq ToSet(t)
  BY <1>1, <1>2, TailFacts
<1>4. ToSet(KeepLast(t)) \subseteq ToSet(t)
  BY <1>3 DEF KeepLast
<1>5. Len(KeepLast(t)) = IF Len(s) + 1 <= ScrollbackCap THEN Len(s) + 1 ELSE ScrollbackCap
  BY <1>1, <1>3, BoundAssumption DEF KeepLast
<1>. QED
  BY <1>1, <1>4, <1>5

\* Nobody comes to the sink or leaves it.
LEMMA SinkStays ==
    ASSUME TypeInv, NEW c \in Clients, Only(c), h[c].at # "sink", h'[c].at # "sink"
    PROVE  \A r : AtSink(r)' = AtSink(r) /\ Coming(r)' = Coming(r)
<1> SUFFICES ASSUME NEW r PROVE AtSink(r)' = AtSink(r) /\ Coming(r)' = Coming(r)
  OBVIOUS
<1>1. AtSink(r)' = AtSink(r)
  BY DEF Only, AtSink
<1>2. \A d \in AtSink(r) : h'[d] = h[d]
  BY DEF Only, AtSink
<1>. QED
  BY <1>1, <1>2 DEF Coming

LEMMA HoldsStays ==
    ASSUME HoldInv, NEW r \in DOMAIN pl, AtSink(r)' = AtSink(r), Coming(r)' = Coming(r),
           pl'[r].scrollback = pl[r].scrollback, shown'[r] = shown[r]
    PROVE  HoldsOK(r)'
BY DEF HoldInv, HoldsOK, Sent

LEMMA HoldNext == TypeInv /\ HoldInv /\ [Next]_vars => HoldInv'
<1> SUFFICES ASSUME TypeInv, HoldInv, [Next]_vars PROVE HoldInv'
  OBVIOUS
<1>0. UNCHANGED <<pl, shown, h>> => HoldInv'
  <2> SUFFICES ASSUME UNCHANGED <<pl, shown, h>>, NEW r \in DOMAIN pl PROVE HoldsOK(r)'
    BY DEF HoldInv
  <2>. QED
    BY HoldsStays DEF AtSink, Coming
<1>a. ASSUME NEW c \in Clients, Only(c), h[c].at # "sink", h'[c].at # "sink", UNCHANGED <<pl, shown>>
      PROVE  HoldInv'
  <2>. QED
    BY <1>a, SinkStays, HoldsStays DEF HoldInv
<1>1. ASSUME NEW id, Register(id) PROVE HoldInv'
  <2>. PICK new : new = Len(pl) + 1
    OBVIOUS
  <2>1. /\ h' = h /\ new \notin DOMAIN pl /\ DOMAIN pl' = DOMAIN pl \cup {new}
        /\ pl'[new] = NewPipeline /\ \A r \in DOMAIN pl : pl'[r] = pl[r]
        /\ shown'[new] = <<>> /\ \A r \in DOMAIN pl : shown'[r] = shown[r]
    BY <1>1, RegisterDoes
  <2>2. \A r \in DOMAIN pl : HoldsOK(r)'
    BY <2>1, HoldsStays DEF AtSink, Coming
  <2>3. AtSink(new)' = {}
    <3>1. \A c \in Clients : h[c].at = "sink" => h[c].p \in DOMAIN pl
      BY Posts DEF PostOK, Posting, Carrying
    <3>. QED
      BY <2>1, <3>1 DEF AtSink
  <2>4. ToSet(<<>>) = {} /\ Len(<<>>) = 0
    BY EmptyIsSeq DEF ToSet
  <2>5. Sent(new)' = 0 /\ IsFiniteSet(AtSink(new))'
    <3>1. Cardinality({}) = 0 /\ IsFiniteSet({})
      BY FS_EmptySet
    <3>2. Len(shown'[new]) = 0
      BY <2>1, <2>4
    <3>3. Cardinality(AtSink(new))' = 0
      BY <2>3, <3>1
    <3>4. IsFiniteSet(AtSink(new))'
      BY <2>3, <3>1
    <3>5. Sent(new)' = 0
      BY <3>2, <3>3 DEF Sent
    <3>. QED
      BY <3>4, <3>5
  <2>6. HoldsOK(new)'
    BY <2>1, <2>3, <2>4, <2>5, BoundAssumption DEF HoldsOK, NewPipeline
  <2>. QED
    BY <2>1, <2>2, <2>6 DEF HoldInv
<1>2. ASSUME NEW id, Deregister(id) PROVE HoldInv'
  BY <1>0, <1>2, DeregisterDoes
<1>3. ASSUME NEW c \in Clients, StreamPost(c) PROVE HoldInv'
  BY <1>3, <1>a, StreamPostDoes DEF Idle
<1>4. ASSUME NEW c \in Clients, KVRequest(c) PROVE HoldInv'
  BY <1>0, <1>4, KVRequestDoes
<1>5. ASSUME NEW c \in Clients, FilterStart(c) PROVE HoldInv'
  BY <1>5, <1>a, FilterStartDoes DEF Idle
<1>6. ASSUME NEW c \in Clients, Aside(c) \/ ControlLine(c) PROVE HoldInv'
  BY <1>6, <1>a, AsideDoes DEF Idle
<1>7. ASSUME NEW c \in Clients, FilterLock(c) PROVE HoldInv'
  BY <1>7, <1>a, FilterLockDoes
<1>8. ASSUME NEW c \in Clients, FilterWrite(c) PROVE HoldInv'
  BY <1>8, <1>a, FilterWriteDoes
<1>9. ASSUME NEW c \in Clients, FilterRead(c) PROVE HoldInv'
  BY <1>9, <1>a, FilterReadDoes
<1>10. ASSUME NEW c \in Clients, ScrollbackAppend(c) PROVE HoldInv'
  <2>. PICK p : p = h[c].p
    OBVIOUS
  <2>1. /\ Only(c) /\ h[c].at = "filters" /\ h'[c].at = "sink" /\ h'[c].p = p
        /\ h'[c].text = h[c].text /\ shown' = shown /\ p \in DOMAIN pl /\ DOMAIN pl' = DOMAIN pl
        /\ \A r \in DOMAIN pl \ {p} : pl'[r] = pl[r]
        /\ pl'[p].scrollback = KeepLast(Append(pl[p].scrollback, h[c].text))
    BY <1>10, ScrollbackAppendDoes
  <2>2. /\ c \notin AtSink(p) /\ AtSink(p)' = AtSink(p) \cup {c}
        /\ \A d \in AtSink(p) : h'[d] = h[d]
    BY <2>1 DEF AtSink, Only
  <2>3. Coming(p)' = Coming(p) \cup {h[c].text}
    BY <2>1, <2>2 DEF Coming
  <2>4. /\ IsFiniteSet(AtSink(p))' /\ Cardinality(AtSink(p))' = Cardinality(AtSink(p)) + 1
        /\ Cardinality(AtSink(p)) \in Nat
    BY <2>1, <2>2, FS_AddElement, FS_CardinalityType DEF HoldInv, HoldsOK
  <2>5. /\ IsSeq(pl[p].scrollback) /\ IsSeq(shown[p]) /\ Len(shown[p]) \in Nat
        /\ Len(pl[p].scrollback) \in Nat
    BY <2>1, PipelineFields, SeqFacts
  <2>6. /\ Sent(p) \in Nat /\ Sent(p)' = Sent(p) + 1
        /\ Len(pl[p].scrollback) = IF Sent(p) <= ScrollbackCap THEN Sent(p) ELSE ScrollbackCap
    BY <2>1, <2>4, <2>5 DEF Sent, HoldInv, HoldsOK
  <2>7. Len(pl[p].scrollback) <= ScrollbackCap
    BY <2>6, BoundAssumption
  <2>8. /\ ToSet(pl'[p].scrollback) \subseteq ToSet(pl[p].scrollback) \cup {h[c].text}
        /\ Len(pl'[p].scrollback) = IF Len(pl[p].scrollback) + 1 <= ScrollbackCap
                                    THEN Len(pl[p].scrollback) + 1 ELSE ScrollbackCap
    BY <2>1, <2>5, <2>7, KeepLastFacts
  <2>9. Len(pl'[p].scrollback) = IF Sent(p)' <= ScrollbackCap THEN Sent(p)' ELSE ScrollbackCap
    BY <2>6, <2>8, BoundAssumption
  <2>10. ToSet(pl'[p].scrollback) \subseteq ToSet(shown'[p]) \cup Coming(p)'
    BY <2>1, <2>3, <2>8 DEF HoldInv, HoldsOK
  <2>11. HoldsOK(p)'
    BY <2>4, <2>9, <2>10 DEF HoldsOK
  <2>12. ASSUME NEW r \in DOMAIN pl \ {p} PROVE HoldsOK(r)'
    <3>1. AtSink(r)' = AtSink(r) /\ \A d \in AtSink(r) : h'[d] = h[d]
      BY <2>1 DEF AtSink, Only
    <3>2. Coming(r)' = Coming(r)
      BY <3>1 DEF Coming
    <3>. QED
      BY <2>1, <3>1, <3>2, HoldsStays
  <2>. QED
    BY <2>1, <2>11, <2>12 DEF HoldInv
<1>11. ASSUME NEW c \in Clients, Sink(c) PROVE HoldInv'
  <2>. PICK p : p = h[c].p
    OBVIOUS
  <2>1. /\ Only(c) /\ h[c].at = "sink" /\ h'[c].at = "line" /\ pl' = pl
        /\ p \in DOMAIN shown
        /\ shown'[p] = Append(shown[p], h[c].text)
        /\ \A r \in DOMAIN shown \ {p} : shown'[r] = shown[r]
    BY <1>11, SinkDoes
  <2>2. DOMAIN shown = DOMAIN pl
    BY SeqFacts DEF TypeInv, Places
  <2>3. /\ c \in AtSink(p) /\ AtSink(p)' = AtSink(p) \ {c}
        /\ \A d \in AtSink(p) \ {c} : h'[d] = h[d]
    BY <2>1 DEF AtSink, Only
  <2>4. Coming(p) \subseteq Coming(p)' \cup {h[c].text}
    BY <2>3 DEF Coming
  <2>5. /\ IsFiniteSet(AtSink(p))' /\ Cardinality(AtSink(p))' = Cardinality(AtSink(p)) - 1
        /\ Cardinality(AtSink(p)) \in Nat
    BY <2>1, <2>2, <2>3, FS_RemoveElement, FS_CardinalityType DEF HoldInv, HoldsOK
  <2>6. /\ IsSeq(shown[p]) /\ Len(shown[p]) \in Nat
        /\ Len(shown'[p]) = Len(shown[p]) + 1
        /\ ToSet(shown'[p]) = ToSet(shown[p]) \cup {h[c].text}
    <3>1. IsSeq(shown[p]) /\ Len(shown[p]) \in Nat
      BY <2>1, <2>2, PipelineFields, SeqFacts
    <3>. QED
      BY <2>1, <3>1, AppendFacts
  <2>7. Sent(p)' = Sent(p)
    BY <2>5, <2>6 DEF Sent
  <2>8. HoldsOK(p)'
    BY <2>1, <2>2, <2>4, <2>5, <2>6, <2>7 DEF HoldInv, HoldsOK
  <2>9. ASSUME NEW r \in DOMAIN pl \ {p} PROVE HoldsOK(r)'
    <3>1. AtSink(r)' = AtSink(r) /\ \A d \in AtSink(r) : h'[d] = h[d]
      BY <2>1 DEF AtSink, Only
    <3>2. Coming(r)' = Coming(r)
      BY <3>1 DEF Coming
    <3>. QED
      BY <2>1, <2>2, <3>1, <3>2, HoldsStays
  <2>. QED
    BY <2>1, <2>2, <2>8, <2>9 DEF HoldInv
<1>12. ASSUME NEW c \in Clients, AddFilter(c) PROVE HoldInv'
  <2>1. /\ Only(c) /\ h[c].at = "filter_add" /\ h'[c].at # "sink" /\ shown' = shown
        /\ DOMAIN pl' = DOMAIN pl /\ \A r \in DOMAIN pl : pl'[r].scrollback = pl[r].scrollback
    BY <1>12, AddFilterDoes DEF Idle
  <2>. QED
    BY <2>1, SinkStays, HoldsStays DEF HoldInv
<1>13. ASSUME NEW c \in Clients, FilterClose(c) PROVE HoldInv'
  BY <1>13, <1>a, FilterCloseDoes DEF Idle
<1>14. ASSUME NEW f \in DOMAIN filter, CommandAnswers(f) \/ CommandEnds(f) PROVE HoldInv'
  BY <1>0, <1>14, CommandAnswersDoes, CommandEndsDoes
<1>15. CASE UNCHANGED vars
  BY <1>0, <1>15, StutterDoes
<1>. QED
  BY <1>1, <1>2, <1>3, <1>4, <1>5, <1>6, <1>7, <1>8, <1>9, <1>10, <1>11, <1>12, <1>13, <1>14, <1>15
     DEF Next, Request, Step, Aside

\* With no post in progress the scrollback holds what the browsers were sent,
\* short of what a full buffer pushed out: dispatchContent appends to the one
\* and calls the sink for the other, on however many goroutines.
THEOREM ScrollbackIsWhatWasShown == Spec => []ScrollbackMatchesShown
<1>1. Init => HoldInv
  BY EmptyIsSeq DEF Init, HoldInv
<1>2. TypeInv /\ HoldInv => ScrollbackMatchesShown
  <2> SUFFICES ASSUME TypeInv, HoldInv, Quiet, NEW r \in DOMAIN pl
               PROVE  /\ ToSet(pl[r].scrollback) \subseteq ToSet(shown[r])
                      /\ Len(shown[r]) <= ScrollbackCap => Len(pl[r].scrollback) = Len(shown[r])
    BY DEF ScrollbackMatchesShown
  <2>1. AtSink(r) = {} /\ Coming(r) = {}
    BY DEF Quiet, AtSink, Coming, Idle
  <2>2. Cardinality(AtSink(r)) = 0 /\ Len(shown[r]) \in Nat
    <3>1. Cardinality({}) = 0
      BY FS_EmptySet
    <3>2. Len(shown[r]) \in Nat
      BY PipelineFields, SeqFacts
    <3>. QED
      BY <2>1, <3>1, <3>2
  <2>3. Sent(r) = Len(shown[r])
    BY <2>2 DEF Sent
  <2>4. HoldsOK(r)
    BY DEF HoldInv
  <2>. QED
    BY <2>1, <2>3, <2>4 DEF HoldsOK
<1>. QED
  BY <1>1, <1>2, TypeInit, TypeNext, HoldNext, PTL DEF Spec

-----------------------------------------------------------------------------
(* The filter that a request is adding is its own, and in no chain. *)

OwnFilter(c) == h[c].at \in Adding =>
                   /\ ~InChain(h[c].f)
                   /\ \A d \in Clients \ {c} : h[d].at \in Adding => h[d].f # h[c].f
AddInv == \A c \in Clients : OwnFilter(c)

\* What does not add a filter to a chain.
SameChains == \A f : InChain(f)' => InChain(f)

LEMMA SameFilters ==
    ASSUME DOMAIN pl' = DOMAIN pl, \A r \in DOMAIN pl : pl'[r].filters = pl[r].filters
    PROVE  SameChains
BY DEF SameChains, InChain

LEMMA AddStays ==
    ASSUME AddInv, SameChains, NEW c \in Clients, Only(c),
           h'[c].at \in Adding => h[c].at \in Adding /\ h'[c].f = h[c].f
    PROVE  AddInv'
BY DEF AddInv, OwnFilter, SameChains, Only

LEMMA AddNext == TypeInv /\ AddInv /\ [Next]_vars => AddInv'
<1> SUFFICES ASSUME TypeInv, AddInv, [Next]_vars PROVE AddInv'
  OBVIOUS
<1>a. pl' = pl => SameChains
  BY SameFilters
<1>0. UNCHANGED h /\ SameChains => AddInv'
  BY DEF AddInv, OwnFilter, SameChains
<1>i. Idle.at = "idle"
  BY DEF Idle
<1>1. ASSUME NEW id, Register(id) PROVE AddInv'
  <2>. PICK new : new = Len(pl) + 1
    OBVIOUS
  <2>1. /\ h' = h /\ DOMAIN pl' = DOMAIN pl \cup {new}
        /\ pl'[new] = NewPipeline /\ \A r \in DOMAIN pl : pl'[r] = pl[r]
    BY <1>1, RegisterDoes
  <2>2. pl'[new].filters = <<>> /\ ToSet(<<>>) = {}
    BY <2>1, EmptyIsSeq DEF NewPipeline, ToSet
  <2>3. SameChains
    BY <2>1, <2>2 DEF SameChains, InChain
  <2>. QED
    BY <1>0, <2>1, <2>3
<1>2. ASSUME NEW id, Deregister(id) PROVE AddInv'
  BY <1>0, <1>a, <1>2, DeregisterDoes
<1>3. ASSUME NEW c \in Clients, StreamPost(c) PROVE AddInv'
  BY <1>3, <1>a, StreamPostDoes, AddStays DEF Adding
<1>4. ASSUME NEW c \in Clients, KVRequest(c) PROVE AddInv'
  BY <1>0, <1>a, <1>4, KVRequestDoes
<1>5. ASSUME NEW c \in Clients, FilterStart(c) PROVE AddInv'
  <2>. PICK new : new = Len(filter) + 1
    OBVIOUS
  <2>1. /\ Only(c) /\ h'[c].f = new /\ pl' = pl /\ new \notin DOMAIN filter
    BY <1>5, FilterStartDoes
  <2>2. \A d \in Clients : h[d].at \in Adding => h[d].f # new
    BY <2>1, Adds DEF AddOK
  <2>3. ~InChain(new)
    BY <2>1, PipelineFields DEF InChain
  <2>. QED
    BY <1>a, <2>1, <2>2, <2>3 DEF AddInv, OwnFilter, Only, SameChains
<1>6. ASSUME NEW c \in Clients, Aside(c) \/ ControlLine(c) PROVE AddInv'
  BY <1>6, <1>a, <1>i, AsideDoes, AddStays DEF Adding
<1>7. ASSUME NEW c \in Clients, FilterLock(c) PROVE AddInv'
  BY <1>7, <1>a, FilterLockDoes, AddStays DEF Adding
<1>8. ASSUME NEW c \in Clients, FilterWrite(c) PROVE AddInv'
  BY <1>8, <1>a, FilterWriteDoes, AddStays DEF Adding
<1>9. ASSUME NEW c \in Clients, FilterRead(c) PROVE AddInv'
  BY <1>9, <1>a, FilterReadDoes, AddStays DEF Adding
<1>10. ASSUME NEW c \in Clients, ScrollbackAppend(c) PROVE AddInv'
  BY <1>10, ScrollbackAppendDoes, SameFilters, AddStays DEF Adding
<1>11. ASSUME NEW c \in Clients, Sink(c) PROVE AddInv'
  BY <1>11, <1>a, SinkDoes, AddStays DEF Adding
<1>12. ASSUME NEW c \in Clients, AddFilter(c) PROVE AddInv'
  <2>1. /\ Only(c) /\ h[c].at = "filter_add" /\ DOMAIN pl' = DOMAIN pl
        /\ \/ /\ h'[c] = Idle /\ h[c].p \in DOMAIN pl
              /\ ToSet(pl'[h[c].p].filters) = ToSet(pl[h[c].p].filters) \cup {h[c].f}
              /\ \A r \in DOMAIN pl \ {h[c].p} : pl'[r] = pl[r]
           \/ h'[c].at = "filter_close" /\ h'[c].f = h[c].f /\ pl' = pl
    BY <1>12, AddFilterDoes
  <2>2. CASE h'[c].at = "filter_close" /\ h'[c].f = h[c].f /\ pl' = pl
    BY <1>a, <2>1, <2>2, AddStays DEF Adding
  <2>3. CASE /\ h'[c] = Idle
             /\ ToSet(pl'[h[c].p].filters) = ToSet(pl[h[c].p].filters) \cup {h[c].f}
             /\ \A r \in DOMAIN pl \ {h[c].p} : pl'[r] = pl[r]
    <3>1. \A f : InChain(f)' => InChain(f) \/ f = h[c].f
      BY <2>1, <2>3 DEF InChain
    <3>2. h'[c].at \notin Adding
      BY <1>i, <2>3 DEF Adding
    <3>. QED
      BY <2>1, <3>1, <3>2 DEF AddInv, OwnFilter, Only, Adding
  <2>. QED
    BY <2>1, <2>2, <2>3
<1>13. ASSUME NEW c \in Clients, FilterClose(c) PROVE AddInv'
  BY <1>13, <1>a, <1>i, FilterCloseDoes, AddStays DEF Adding
<1>14. ASSUME NEW f \in DOMAIN filter, CommandAnswers(f) \/ CommandEnds(f) PROVE AddInv'
  BY <1>0, <1>a, <1>14, CommandAnswersDoes, CommandEndsDoes
<1>15. CASE UNCHANGED vars
  BY <1>0, <1>a, <1>15, StutterDoes
<1>. QED
  BY <1>1, <1>2, <1>3, <1>4, <1>5, <1>6, <1>7, <1>8, <1>9, <1>10, <1>11, <1>12, <1>13, <1>14, <1>15
     DEF Next, Request, Step, Aside

-----------------------------------------------------------------------------
(* One line at a time goes into a filter, and its answer comes out before  *)
(* the next: so much the mutex gives, if no command answers a line twice.  *)

NoneAnswersTwice == "two" \notin Behaviours

HeldOK(c) == h[c].at \in Using => filter[F(c)].mu = c
WaitOK(c) == h[c].at = "filter_read" =>
                \/ /\ filter[F(c)].proc.in = <<h[c].text>>
                   /\ filter[F(c)].proc.out = <<>>
                \/ /\ filter[F(c)].proc.in = <<>>
                   /\ filter[F(c)].proc.out \in {<<h[c].text>>, <<Blank>>, <<>>}

Empty(f) == filter[f].proc.in = <<>> /\ filter[f].proc.out = <<>>
Reader(f) == \E c \in Clients : h[c].at = "filter_read" /\ F(c) = f
PairOK(f) == /\ ~filter[f].proc.up => filter[f].proc.in = <<>>
             /\ Empty(f) \/ Reader(f)

AnswerInv == /\ \A c \in Clients : HeldOK(c) /\ WaitOK(c) /\ TextOK(c)
             /\ \A f \in DOMAIN filter : PairOK(f)

\* A step of a client that is at no filter before or after it.
LEMMA AwayFromFilters ==
    ASSUME TypeInv, AnswerInv, NEW c \in Clients, Only(c), UNCHANGED filter,
           h[c].at \notin Using, h'[c].at \notin Using, TextOK(c)'
    PROVE  AnswerInv'
<1>1. \A d \in Clients \ {c} : h'[d] = h[d]
  BY DEF Only
<1>2. \A d \in Clients \ {c} : HeldOK(d)' /\ WaitOK(d)' /\ TextOK(d)'
  BY <1>1 DEF AnswerInv, HeldOK, WaitOK, TextOK, F
<1>3. HeldOK(c)' /\ WaitOK(c)'
  BY DEF HeldOK, WaitOK, Using
<1>4. \A f \in DOMAIN filter : PairOK(f)'
  BY <1>1 DEF AnswerInv, PairOK, Empty, Reader, F, Using
<1>. QED
  BY <1>2, <1>3, <1>4 DEF AnswerInv

\* A step of a client at a filter that no other has locked.
LEMMA AloneAtFilter ==
    ASSUME TypeInv, AnswerInv, NEW c \in Clients, Only(c), NEW f, AtFilter(f),
           \A d \in Clients \ {c} : h[d].at \in Using => F(d) # f,
           h[c].at = "filter_read" => F(c) = f,
           HeldOK(c)', WaitOK(c)', TextOK(c)', PairOK(f)'
    PROVE  AnswerInv'
<1>1. \A d \in Clients \ {c} : h'[d] = h[d]
  BY DEF Only
<1>2. ASSUME NEW d \in Clients \ {c} PROVE HeldOK(d)' /\ WaitOK(d)' /\ TextOK(d)'
  <2>1. HeldOK(d) /\ WaitOK(d) /\ TextOK(d) /\ h'[d] = h[d]
    BY <1>1 DEF AnswerInv
  <2>2. ASSUME h[d].at \in Using PROVE filter'[F(d)] = filter[F(d)]
    <3>1. h[d].chain # <<>>
      BY <2>2, Posts DEF PostOK, Posting, Carrying, Using
    <3>2. F(d) \in DOMAIN filter
      BY <2>2, <3>1, FirstFilter DEF Using, Carrying
    <3>. QED
      BY <2>2, <3>2 DEF AtFilter
  <2>3. F(d)' = F(d)
    BY <2>1 DEF F
  <2>. QED
    BY <2>1, <2>2, <2>3 DEF HeldOK, WaitOK, TextOK, Using
<1>3. ASSUME NEW g \in DOMAIN filter \ {f} PROVE PairOK(g)'
  <2>1. filter'[g] = filter[g] /\ PairOK(g)
    BY DEF AtFilter, AnswerInv
  <2>2. ASSUME NEW d \in Clients, h[d].at = "filter_read", F(d) = g PROVE Reader(g)'
    <3>1. d # c /\ h'[d] = h[d]
      BY <1>1, <2>2
    <3>. QED
      BY <2>2, <3>1 DEF Reader, F
  <2>. QED
    BY <2>1, <2>2 DEF PairOK, Empty, Reader
<1>. QED
  BY <1>2, <1>3 DEF AnswerInv, AtFilter

\* Who may be at a filter besides.
LEMMA OthersElsewhere ==
    ASSUME AnswerInv, NEW c \in Clients, NEW f, filter[f].mu \in {Free, c}
    PROVE  \A d \in Clients \ {c} : h[d].at \in Using => F(d) # f
BY FreeAssumption DEF AnswerInv, HeldOK

LEMMA NobodyReads ==
    ASSUME AnswerInv, NEW c \in Clients, NEW f \in DOMAIN filter,
           filter[f].mu \in {Free, c}, h[c].at # "filter_read"
    PROVE  Empty(f)
<1>1. ~Reader(f)
  BY OthersElsewhere DEF Reader, Using
<1>. QED
  BY <1>1 DEF AnswerInv, PairOK

LEMMA AnswerNext ==
    NoneAnswersTwice /\ TypeInv /\ AddInv /\ AnswerInv /\ [Next]_vars => AnswerInv'
<1> SUFFICES ASSUME NoneAnswersTwice, TypeInv, AddInv, AnswerInv, [Next]_vars PROVE AnswerInv'
  OBVIOUS
<1>0. UNCHANGED <<h, filter>> => AnswerInv'
  BY DEF AnswerInv, HeldOK, WaitOK, TextOK, PairOK, Empty, Reader, F
<1>i. Idle.at = "idle"
  BY DEF Idle
<1>1. ASSUME NEW id, Register(id) PROVE AnswerInv'
  BY <1>0, <1>1, RegisterDoes
<1>2. ASSUME NEW id, Deregister(id) PROVE AnswerInv'
  BY <1>0, <1>2, DeregisterDoes
<1>3. ASSUME NEW c \in Clients, StreamPost(c) PROVE AnswerInv'
  <2>1. h[c] = Idle /\ h'[c].at = "line" /\ Only(c) /\ UNCHANGED filter
    BY <1>3, StreamPostDoes
  <2>. QED
    BY <1>i, <2>1, AwayFromFilters DEF Using, Carrying, TextOK
<1>4. ASSUME NEW c \in Clients, KVRequest(c) PROVE AnswerInv'
  BY <1>0, <1>4, KVRequestDoes
<1>5. ASSUME NEW c \in Clients, FilterStart(c) PROVE AnswerInv'
  <2>. PICK new : new = Len(filter) + 1
    OBVIOUS
  <2>1. /\ Only(c) /\ h[c] = Idle /\ h'[c].at = "filter_add"
        /\ new \notin DOMAIN filter /\ DOMAIN filter' = DOMAIN filter \cup {new}
        /\ filter'[new] = NewFilter /\ \A f \in DOMAIN filter : filter'[f] = filter[f]
    BY <1>5, FilterStartDoes
  <2>2. ASSUME NEW d \in Clients PROVE HeldOK(d)' /\ WaitOK(d)' /\ TextOK(d)'
    <3>1. CASE d = c
      BY <2>1, <3>1 DEF HeldOK, WaitOK, TextOK, Using, Carrying
    <3>2. CASE d # c
      <4>1. HeldOK(d) /\ WaitOK(d) /\ TextOK(d) /\ h'[d] = h[d]
        BY <2>1, <3>2 DEF AnswerInv, Only
      <4>2. ASSUME h[d].at \in Using PROVE filter'[F(d)] = filter[F(d)]
        <5>1. h[d].chain # <<>>
          BY <4>2, Posts DEF PostOK, Posting, Carrying, Using
        <5>2. F(d) \in DOMAIN filter
          BY <4>2, <5>1, FirstFilter DEF Using, Carrying
        <5>. QED
          BY <2>1, <5>2
      <4>3. F(d)' = F(d)
        BY <4>1 DEF F
      <4>. QED
        BY <4>1, <4>2, <4>3 DEF HeldOK, WaitOK, TextOK, Using
    <3>. QED
      BY <3>1, <3>2
  <2>3. PairOK(new)'
    BY <2>1 DEF PairOK, Empty, NewFilter, NewProcess
  <2>4. ASSUME NEW f \in DOMAIN filter PROVE PairOK(f)'
    <3>1. filter'[f] = filter[f] /\ PairOK(f)
      BY <2>1 DEF AnswerInv
    <3>2. Reader(f) => Reader(f)'
      BY <1>i, <2>1 DEF Reader, Only, F
    <3>. QED
      BY <3>1, <3>2 DEF PairOK, Empty
  <2>. QED
    BY <2>1, <2>2, <2>3, <2>4 DEF AnswerInv
<1>6. ASSUME NEW c \in Clients, Aside(c) \/ ControlLine(c) PROVE AnswerInv'
  <2>1. /\ Only(c) /\ UNCHANGED filter /\ h[c].at \in {"line", "set", "filters"}
        /\ h'[c].at \in {"idle", "line", "set", "filters"}
        /\ TextOK(c) => TextOK(c)'
    BY <1>6, <1>i, AsideDoes
  <2>. QED
    BY <2>1, AwayFromFilters DEF Using, AnswerInv
<1>7. ASSUME NEW c \in Clients, FilterLock(c) PROVE AnswerInv'
  <2>. PICK f : f = F(c)
    OBVIOUS
  <2>1. /\ Only(c) /\ h[c].at = "filters" /\ h'[c].at = "filter_write"
        /\ h'[c].todo = h[c].todo /\ h'[c].text = h[c].text /\ F(c)' = f
        /\ AtFilter(f) /\ filter[f].mu = Free /\ filter'[f].mu = c
        /\ filter'[f].proc \in {NewProcess, filter[f].proc}
    BY <1>7, FilterLockDoes
  <2>2. Empty(f) /\ PairOK(f)
    BY <2>1, NobodyReads DEF AtFilter, AnswerInv
  <2>3. PairOK(f)'
    BY <2>1, <2>2 DEF PairOK, Empty, NewProcess
  <2>4. HeldOK(c)' /\ WaitOK(c)' /\ TextOK(c)'
    BY <2>1 DEF HeldOK, WaitOK, TextOK, AnswerInv, Carrying
  <2>5. \A d \in Clients \ {c} : h[d].at \in Using => F(d) # f
    BY <2>1, OthersElsewhere
  <2>. QED
    BY <2>1, <2>3, <2>4, <2>5, AloneAtFilter
<1>8. ASSUME NEW c \in Clients, FilterWrite(c) PROVE AnswerInv'
  <2>. PICK f : f = F(c)
    OBVIOUS
  <2>1. /\ Only(c) /\ h[c].at = "filter_write" /\ AtFilter(f)
        /\ h'[c].todo = h[c].todo /\ h'[c].text = h[c].text
        /\ \/ /\ filter[f].proc.up /\ h'[c].at = "filter_read" /\ F(c)' = f
              /\ filter'[f].mu = filter[f].mu /\ filter'[f].proc.up = filter[f].proc.up
              /\ filter'[f].proc.in = Append(filter[f].proc.in, h[c].text)
              /\ filter'[f].proc.out = filter[f].proc.out
           \/ /\ ~filter[f].proc.up /\ h'[c].at = "filters"
              /\ filter'[f].proc = filter[f].proc
    BY <1>8, FilterWriteDoes
  <2>2. filter[f].mu = c
    BY <2>1 DEF AnswerInv, HeldOK, Using
  <2>3. Empty(f) /\ PairOK(f)
    BY <2>1, <2>2, NobodyReads DEF AtFilter, AnswerInv
  <2>4. \A d \in Clients \ {c} : h[d].at \in Using => F(d) # f
    BY <2>2, OthersElsewhere
  <2>5. TextOK(c)'
    BY <2>1 DEF TextOK, AnswerInv, Carrying
  <2>6. CASE h'[c].at = "filter_read"
    <3>1. filter'[f].proc.in = <<h[c].text>> /\ filter'[f].proc.out = <<>>
      BY <2>1, <2>3, <2>6 DEF Empty
    <3>2. WaitOK(c)' /\ HeldOK(c)'
      BY <2>1, <2>2, <2>6, <3>1 DEF WaitOK, HeldOK
    <3>3. PairOK(f)'
      BY <2>1, <2>6 DEF PairOK, Reader
    <3>. QED
      BY <2>1, <2>4, <2>5, <3>2, <3>3, AloneAtFilter
  <2>7. CASE h'[c].at = "filters"
    <3>1. WaitOK(c)' /\ HeldOK(c)'
      BY <2>7 DEF WaitOK, HeldOK, Using
    <3>2. PairOK(f)'
      BY <2>1, <2>3, <2>7 DEF PairOK, Empty
    <3>. QED
      BY <2>1, <2>4, <2>5, <3>1, <3>2, AloneAtFilter
  <2>. QED
    BY <2>1, <2>6, <2>7
<1>9. ASSUME NEW c \in Clients, FilterRead(c) PROVE AnswerInv'
  <2>. PICK f : f = F(c)
    OBVIOUS
  <2>1. /\ Only(c) /\ h[c].at = "filter_read" /\ AtFilter(f)
        /\ filter'[f].proc.up = filter[f].proc.up /\ filter'[f].proc.in = filter[f].proc.in
        /\ \/ /\ filter[f].proc.out # <<>> /\ filter'[f].proc.out = Tail(filter[f].proc.out)
              /\ \/ h'[c].at = "line"
                 \/ /\ h'[c].at = "filters" /\ h'[c].todo = h[c].todo
                    /\ h'[c].text = Head(filter[f].proc.out)
                    /\ h'[c].text # Blank
           \/ /\ filter[f].proc.out = <<>> /\ ~filter[f].proc.up /\ filter'[f].proc.out = <<>>
              /\ h'[c].at = "filters" /\ h'[c].todo = h[c].todo /\ h'[c].text = h[c].text
    BY <1>9, FilterReadDoes
  <2>2. filter[f].mu = c
    BY <2>1 DEF AnswerInv, HeldOK, Using
  <2>3. PairOK(f) /\ TextOK(c)
    BY <2>1 DEF AtFilter, AnswerInv
  <2>4. \A d \in Clients \ {c} : h[d].at \in Using => F(d) # f
    BY <2>2, OthersElsewhere
  <2>5. \/ filter[f].proc.in = <<h[c].text>> /\ filter[f].proc.out = <<>>
        \/ filter[f].proc.in = <<>> /\ filter[f].proc.out \in {<<h[c].text>>, <<Blank>>, <<>>}
    BY <2>1 DEF AnswerInv, WaitOK
  <2>6. Empty(f)' /\ TextOK(c)'
    <3>1. CASE filter[f].proc.out # <<>>
      <4>1. \E x \in {h[c].text, Blank} : filter[f].proc.out = <<x>>
        BY <2>5, <3>1
      <4>2. /\ filter[f].proc.in = <<>> /\ Tail(filter[f].proc.out) = <<>>
            /\ Head(filter[f].proc.out) \in {h[c].text, Blank}
        BY <2>5, <3>1, <4>1
      <4>. QED
        BY <2>1, <2>3, <3>1, <4>2 DEF Empty, TextOK, Carrying
    <3>2. CASE filter[f].proc.out = <<>>
      BY <2>1, <2>3, <3>2 DEF Empty, PairOK, TextOK, Carrying
    <3>. QED
      BY <3>1, <3>2
  <2>7. HeldOK(c)' /\ WaitOK(c)' /\ PairOK(f)'
    BY <2>1, <2>6 DEF HeldOK, WaitOK, PairOK, Using, Empty
  <2>. QED
    BY <2>1, <2>4, <2>6, <2>7, AloneAtFilter
<1>10. ASSUME NEW c \in Clients, ScrollbackAppend(c) PROVE AnswerInv'
  <2>1. /\ Only(c) /\ UNCHANGED filter /\ h[c].at = "filters" /\ h'[c].at = "sink"
        /\ h'[c].todo = h[c].todo /\ h'[c].text = h[c].text
    BY <1>10, ScrollbackAppendDoes
  <2>2. TextOK(c)'
    BY <2>1 DEF AnswerInv, TextOK, Carrying
  <2>. QED
    BY <2>1, <2>2, AwayFromFilters DEF Using
<1>11. ASSUME NEW c \in Clients, Sink(c) PROVE AnswerInv'
  BY <1>11, SinkDoes, AwayFromFilters DEF Using, Carrying, TextOK
<1>12. ASSUME NEW c \in Clients, AddFilter(c) PROVE AnswerInv'
  <2>1. /\ Only(c) /\ UNCHANGED filter /\ h[c].at = "filter_add"
        /\ h'[c].at \in {"idle", "filter_close"}
    BY <1>12, <1>i, AddFilterDoes
  <2>. QED
    BY <2>1, AwayFromFilters DEF Using, Carrying, TextOK
<1>13. ASSUME NEW c \in Clients, FilterClose(c) PROVE AnswerInv'
  <2>. PICK f : f = h[c].f
    OBVIOUS
  <2>1. /\ Only(c) /\ h[c].at = "filter_close" /\ h'[c] = Idle /\ AtFilter(f)
        /\ ~filter'[f].proc.up /\ filter'[f].proc.in = filter[f].proc.in
        /\ filter'[f].proc.out = filter[f].proc.out
    BY <1>13, FilterCloseDoes
  <2>2. ~InChain(f)
    BY <2>1 DEF AddInv, OwnFilter, Adding
  <2>3. \A d \in Clients : h[d].at \in Using => F(d) # f
    <3> SUFFICES ASSUME NEW d \in Clients, h[d].at \in Using PROVE InChain(F(d))
      BY <2>2
    <3>1. h[d].chain # <<>>
      BY Posts DEF PostOK, Posting, Carrying, Using
    <3>. QED
      BY <3>1, FirstFilter DEF Using, Carrying
  <2>4. Empty(f)
    BY <2>1, <2>3 DEF AnswerInv, PairOK, Reader, Using, AtFilter
  <2>5. PairOK(f)' /\ HeldOK(c)' /\ WaitOK(c)' /\ TextOK(c)'
    BY <1>i, <2>1, <2>4 DEF PairOK, Empty, HeldOK, WaitOK, TextOK, Using, Carrying
  <2>. QED
    BY <2>1, <2>3, <2>5, AloneAtFilter
<1>14. ASSUME NEW f \in DOMAIN filter, CommandAnswers(f) \/ CommandEnds(f) PROVE AnswerInv'
  <2>1. h' = h /\ AtFilter(f) /\ filter'[f].mu = filter[f].mu
    BY <1>14, CommandAnswersDoes, CommandEndsDoes
  <2>2. /\ ~filter'[f].proc.up => filter'[f].proc.in = <<>>
        /\ Empty(f)' \/ Reader(f)
        /\ \A d \in Clients : (h[d].at = "filter_read" /\ F(d) = f) => WaitOK(d)'
    <3>1. CASE CommandAnswers(f)
      <4>1. /\ filter[f].proc.in # <<>> /\ filter'[f].proc.up
            /\ filter'[f].proc.in = Tail(filter[f].proc.in)
            /\ \E out \in Answers(Head(filter[f].proc.in)) :
                  filter'[f].proc.out = filter[f].proc.out \o out
        BY <3>1, CommandAnswersDoes
      <4>2. Reader(f)
        BY <4>1 DEF AnswerInv, PairOK, Empty
      <4>3. ASSUME NEW d \in Clients, h[d].at = "filter_read", F(d) = f PROVE WaitOK(d)'
        <5>. PICK t : t = h[d].text
          OBVIOUS
        <5>1. filter[f].proc.in = <<t>> /\ filter[f].proc.out = <<>>
          BY <4>1, <4>3 DEF AnswerInv, WaitOK
        <5>2. Head(<<t>>) = t /\ Tail(<<t>>) = <<>>
          OBVIOUS
        <5>3. Answers(t) \subseteq {<<t>>, <<Blank>>, <<>>}
          BY DEF Answers, NoneAnswersTwice
        <5>4. \E out \in {<<t>>, <<Blank>>, <<>>} : filter'[f].proc.out = <<>> \o out
          BY <4>1, <5>1, <5>2, <5>3
        <5>5. <<>> \o <<t>> = <<t>> /\ <<>> \o <<Blank>> = <<Blank>> /\ <<>> \o <<>> = <<>>
          OBVIOUS
        <5>6. filter'[f].proc.out \in {<<t>>, <<Blank>>, <<>>} /\ filter'[f].proc.in = <<>>
          BY <4>1, <5>1, <5>2, <5>4, <5>5
        <5>. QED
          BY <2>1, <4>3, <5>6 DEF WaitOK, F
      <4>. QED
        BY <4>1, <4>2, <4>3
    <3>2. CASE CommandEnds(f)
      <4>1. filter'[f].proc.in = <<>> /\ filter'[f].proc.out = filter[f].proc.out
        BY <3>2, CommandEndsDoes
      <4>2. Empty(f)' \/ Reader(f)
        BY <4>1 DEF AnswerInv, PairOK, Empty
      <4>3. ASSUME NEW d \in Clients, h[d].at = "filter_read", F(d) = f PROVE WaitOK(d)'
        <5>1. filter[f].proc.out \in {<<h[d].text>>, <<Blank>>, <<>>}
          BY <4>3 DEF AnswerInv, WaitOK
        <5>. QED
          BY <2>1, <4>1, <4>3, <5>1 DEF WaitOK, F
      <4>. QED
        BY <4>1, <4>2, <4>3
    <3>. QED
      BY <1>14, <3>1, <3>2
  <2>3. ASSUME NEW d \in Clients PROVE HeldOK(d)' /\ WaitOK(d)' /\ TextOK(d)'
    <3>1. HeldOK(d) /\ WaitOK(d) /\ TextOK(d) /\ F(d)' = F(d)
      BY <2>1 DEF AnswerInv, F
    <3>2. ASSUME h[d].at \in Using PROVE F(d) \in DOMAIN filter
      <4>1. h[d].chain # <<>>
        BY <3>2, Posts DEF PostOK, Posting, Carrying, Using
      <4>. QED
        BY <3>2, <4>1, FirstFilter DEF Using, Carrying
    <3>3. HeldOK(d)' /\ TextOK(d)'
      BY <2>1, <3>1, <3>2 DEF HeldOK, TextOK, AtFilter
    <3>4. WaitOK(d)'
      BY <2>1, <2>2, <3>1, <3>2 DEF WaitOK, AtFilter, Using
    <3>. QED
      BY <3>3, <3>4
  <2>4. ASSUME NEW g \in DOMAIN filter PROVE PairOK(g)'
    <3>1. Reader(g)' <=> Reader(g)
      BY <2>1 DEF Reader, F
    <3>2. CASE g = f
      BY <2>2, <3>1, <3>2 DEF PairOK
    <3>3. CASE g # f
      BY <2>1, <3>1, <3>3 DEF PairOK, Empty, AtFilter, AnswerInv
    <3>. QED
      BY <3>2, <3>3
  <2>. QED
    BY <2>1, <2>3, <2>4 DEF AnswerInv, AtFilter
<1>15. CASE UNCHANGED vars
  BY <1>0, <1>15, StutterDoes
<1>. QED
  BY <1>1, <1>2, <1>3, <1>4, <1>5, <1>6, <1>7, <1>8, <1>9, <1>10, <1>11, <1>12, <1>13, <1>14, <1>15
     DEF Next, Request, Step, Aside

LEMMA AnswerInit == Init => AddInv /\ AnswerInv
BY EmptyIsSeq DEF Init, AddInv, AnswerInv, OwnFilter, HeldOK, WaitOK, TextOK, Idle,
   Adding, Using, Carrying

\* A post that a filter has dealt with goes on with the answer to its own line:
\* CmdFilter.Filter writes the line and reads the answer under the filter's
\* mutex, so while commands answer a line once at most, no answer waits for the
\* next line - not after a restart, an end, or a close either.
THEOREM AnswersAreOwn == ASSUME NoneAnswersTwice PROVE Spec => []OwnAnswer
<1>1. TypeInv /\ AddInv /\ AnswerInv /\ [Next]_vars => AnswerInv'
  BY AnswerNext
<1>2. AnswerInv => OwnAnswer
  BY DEF AnswerInv, TextOK, OwnAnswer, Carrying
<1>. QED
  BY <1>1, <1>2, TypeInit, TypeNext, AnswerInit, AddNext, PTL DEF Spec

-----------------------------------------------------------------------------
(* A client's lines are numbered, and go one after the other. *)

TodoOK(c) == h[c].at \in Posting =>
                /\ \A x \in DOMAIN h[c].todo : /\ h[c].todo[x].text.by = c
                                               /\ h[c].todo[x].text.n \in Nat
                                               /\ h[c].todo[x].text.n <= posted[c]
                /\ \A x, y \in DOMAIN h[c].todo :
                      x < y => h[c].todo[x].text.n < h[c].todo[y].text.n

\* A line that was shown was posted before what its client has yet to deal with.
PastOK(t) == /\ t.by \in Clients /\ t.n \in Nat /\ t.n <= posted[t.by]
             /\ h[t.by].at \in Posting => \A x \in DOMAIN h[t.by].todo : t.n < h[t.by].todo[x].text.n

InOrder(s) == \A x, y \in DOMAIN s : (x < y /\ s[x].by = s[y].by) => s[x].n < s[y].n

OrderInv == /\ \A c \in Clients : TodoOK(c)
            /\ \A r \in DOMAIN shown : InOrder(shown[r]) /\ \A t \in ToSet(shown[r]) : PastOK(t)

\* What is left of the lines of a post, or none of them.
Less(c) == \/ h'[c].at \notin Posting
           \/ /\ h[c].at \in Posting
              /\ \/ h'[c].todo = h[c].todo
                 \/ h[c].todo # <<>> /\ h'[c].todo = Tail(h[c].todo)

\* What is shown of it stays behind what is left.
Behind(c) == \A t : PastOK(t) => PastOK(t)'

LEMMA LessOfTodo ==
    ASSUME TypeInv, OrderInv, NEW c \in Clients, Only(c), UNCHANGED posted, Less(c)
    PROVE  (\A d \in Clients : TodoOK(d)') /\ Behind(c)
<1>1. \A d \in Clients \ {c} : h'[d] = h[d]
  BY DEF Only
<1>2. \A d \in Clients \ {c} : TodoOK(d)'
  BY <1>1 DEF OrderInv, TodoOK
<1>3. CASE h'[c].at \notin Posting
  <2>1. TodoOK(c)'
    BY <1>3 DEF TodoOK
  <2>2. Behind(c)
    BY <1>1, <1>3 DEF Behind, PastOK
  <2>. QED
    BY <1>2, <2>1, <2>2
<1>4. CASE h[c].at \in Posting /\ h'[c].todo = h[c].todo
  <2>1. TodoOK(c)'
    BY <1>4 DEF TodoOK, OrderInv
  <2>2. Behind(c)
    BY <1>1, <1>4 DEF Behind, PastOK
  <2>. QED
    BY <1>2, <2>1, <2>2
<1>5. CASE h[c].at \in Posting /\ h[c].todo # <<>> /\ h'[c].todo = Tail(h[c].todo)
  <2>1. /\ IsSeq(h[c].todo) /\ DOMAIN h[c].todo \subseteq Nat
    BY <1>5, Posts, SeqFacts DEF PostOK
  <2>2. \A x \in DOMAIN h'[c].todo : x \in Nat /\ x + 1 \in DOMAIN h[c].todo
                                        /\ h'[c].todo[x] = h[c].todo[x + 1]
    <3>1. IsSeq(Tail(h[c].todo))
      BY <1>5, <2>1, TailFacts
    <3>2. DOMAIN Tail(h[c].todo) \subseteq Nat
      BY <3>1, SeqFacts
    <3>. QED
      BY <1>5, <2>1, <3>2, TailFacts
  <2>3. /\ \A x \in DOMAIN h[c].todo : /\ h[c].todo[x].text.by = c
                                       /\ h[c].todo[x].text.n \in Nat
                                       /\ h[c].todo[x].text.n <= posted[c]
        /\ \A x, y \in DOMAIN h[c].todo : x < y => h[c].todo[x].text.n < h[c].todo[y].text.n
    BY <1>5 DEF TodoOK, OrderInv
  <2>4. \A x \in DOMAIN h'[c].todo : /\ h'[c].todo[x].text.by = c
                                     /\ h'[c].todo[x].text.n \in Nat
                                     /\ h'[c].todo[x].text.n <= posted'[c]
    BY <2>2, <2>3
  <2>5. \A x, y \in DOMAIN h'[c].todo : x < y => h'[c].todo[x].text.n < h'[c].todo[y].text.n
    <3> SUFFICES ASSUME NEW x \in DOMAIN h'[c].todo, NEW y \in DOMAIN h'[c].todo, x < y
                 PROVE  h'[c].todo[x].text.n < h'[c].todo[y].text.n
      OBVIOUS
    <3>1. x + 1 \in DOMAIN h[c].todo /\ y + 1 \in DOMAIN h[c].todo /\ x + 1 < y + 1
      BY <2>2
    <3>2. h[c].todo[x + 1].text.n < h[c].todo[y + 1].text.n
      BY <2>3, <3>1
    <3>. QED
      BY <2>2, <3>2
  <2>6. TodoOK(c)'
    BY <2>4, <2>5 DEF TodoOK
  <2>7. Behind(c)
    <3> SUFFICES ASSUME NEW t, PastOK(t) PROVE PastOK(t)'
      BY DEF Behind
    <3>1. CASE t.by = c
      <4>1. \A x \in DOMAIN h[c].todo : t.n < h[c].todo[x].text.n
        BY <1>5, <3>1 DEF PastOK
      <4>2. \A x \in DOMAIN h'[c].todo : t.n < h'[c].todo[x].text.n
        BY <2>2, <4>1
      <4>. QED
        BY <3>1, <4>2 DEF PastOK
    <3>2. CASE t.by # c
      BY <1>1, <3>2 DEF PastOK
    <3>. QED
      BY <3>1, <3>2
  <2>. QED
    BY <1>2, <2>6, <2>7
<1>. QED
  BY <1>3, <1>4, <1>5 DEF Less

LEMMA LessOrder ==
    ASSUME TypeInv, OrderInv, NEW c \in Clients, Only(c), UNCHANGED <<posted, shown>>, Less(c)
    PROVE  OrderInv'
BY LessOfTodo DEF OrderInv, Behind

\* A step that takes no request a step further.
LEMMA SameOrder ==
    ASSUME TypeInv, OrderInv, UNCHANGED <<shown, h>>,
           \A c \in Clients : posted[c] <= posted'[c], posted' \in [Clients -> Nat]
    PROVE  OrderInv'
<1>1. ASSUME NEW c \in Clients PROVE TodoOK(c)'
  <2>1. posted[c] \in Nat /\ posted'[c] \in Nat /\ posted[c] <= posted'[c] /\ TodoOK(c)
    BY DEF TypeInv, OrderInv
  <2>. QED
    BY <2>1 DEF TodoOK
<1>2. ASSUME NEW t, PastOK(t) PROVE PastOK(t)'
  <2>1. t.by \in Clients /\ posted[t.by] \in Nat /\ posted'[t.by] \in Nat /\ posted[t.by] <= posted'[t.by]
    BY <1>2 DEF TypeInv, PastOK
  <2>. QED
    BY <1>2, <2>1 DEF PastOK
<1>. QED
  BY <1>1, <1>2 DEF OrderInv

LEMMA OrderNext ==
    TypeInv /\ AnswerInv /\ OrderInv /\ [Next]_vars => OrderInv'
<1> SUFFICES ASSUME TypeInv, AnswerInv, OrderInv, [Next]_vars PROVE OrderInv'
  OBVIOUS
<1>i. Idle.at = "idle"
  BY DEF Idle
<1>p. \A c \in Clients : posted[c] \in Nat /\ posted[c] <= posted[c]
  BY DEF TypeInv
<1>0. UNCHANGED <<shown, h, posted>> => OrderInv'
  BY <1>p, SameOrder DEF TypeInv
<1>1. ASSUME NEW id, Register(id) PROVE OrderInv'
  <2>. PICK new : new = Len(pl) + 1
    OBVIOUS
  <2>1. /\ UNCHANGED <<posted, h>> /\ DOMAIN shown' = DOMAIN shown \cup {new}
        /\ shown'[new] = <<>> /\ \A r \in DOMAIN shown : shown'[r] = shown[r]
    BY <1>1, RegisterDoes
  <2>2. DOMAIN shown'[new] = {} /\ ToSet(shown'[new]) = {}
    BY <2>1, EmptyIsSeq DEF ToSet
  <2>3. \A c \in Clients : TodoOK(c)'
    BY <2>1 DEF TodoOK, OrderInv
  <2>4. \A t : PastOK(t) => PastOK(t)'
    BY <2>1 DEF PastOK
  <2>. QED
    BY <2>1, <2>2, <2>3, <2>4 DEF OrderInv, InOrder
<1>2. ASSUME NEW id, Deregister(id) PROVE OrderInv'
  BY <1>0, <1>2, DeregisterDoes
<1>3. ASSUME NEW c \in Clients, StreamPost(c) PROVE OrderInv'
  <2>1. /\ h[c] = Idle /\ Only(c) /\ h'[c].at = "line" /\ UNCHANGED shown
        /\ posted \in [Clients -> Nat]
    BY <1>3, StreamPostDoes DEF TypeInv
  <2>2. PICK body \in Bodies : /\ posted' = [posted EXCEPT ![c] = @ + Len(body)]
                               /\ h'[c].todo = Numbered(c, body)
    BY <1>3, StreamPostDoes
  <2>3. /\ Len(body) \in Nat /\ DOMAIN h'[c].todo = 1 .. Len(body)
        /\ \A x \in 1 .. Len(body) : h'[c].todo[x].text = [by |-> c, n |-> posted[c] + x]
    BY <2>2, NumberedFacts
  <2>4. posted'[c] = posted[c] + Len(body) /\ \A d \in Clients \ {c} : posted'[d] = posted[d]
    BY <2>1, <2>2
  <2>5. posted[c] \in Nat /\ posted'[c] \in Nat
    BY <2>1, <2>3, <2>4
  <2>6a. \A x \in DOMAIN h'[c].todo :
            /\ x \in Nat /\ x <= Len(body) /\ h'[c].todo[x].text.by = c
            /\ h'[c].todo[x].text.n = posted[c] + x /\ posted[c] < posted[c] + x
    <3>1. \A x \in 1 .. Len(body) : x \in Nat /\ x <= Len(body) /\ posted[c] < posted[c] + x
      BY <2>3, <2>5
    <3>2. ASSUME NEW x \in 1 .. Len(body)
          PROVE  h'[c].todo[x].text.by = c /\ h'[c].todo[x].text.n = posted[c] + x
      <4>1. h'[c].todo[x].text = [by |-> c, n |-> posted[c] + x]
        BY <2>3
      <4>. QED
        BY <4>1
    <3>. QED
      BY <2>3, <3>1, <3>2
  <2>6b. \A x \in DOMAIN h'[c].todo : /\ h'[c].todo[x].text.by = c
                                      /\ h'[c].todo[x].text.n \in Nat
                                      /\ h'[c].todo[x].text.n <= posted'[c]
    BY <2>3, <2>4, <2>5, <2>6a
  <2>6c. \A x, y \in DOMAIN h'[c].todo : x < y => h'[c].todo[x].text.n < h'[c].todo[y].text.n
    BY <2>5, <2>6a
  <2>6. TodoOK(c)'
    BY <2>6b, <2>6c DEF TodoOK
  <2>7. \A d \in Clients \ {c} : TodoOK(d)'
    BY <2>1, <2>4 DEF TodoOK, OrderInv, Only
  <2>8. ASSUME NEW t, PastOK(t) PROVE PastOK(t)'
    <3>1. CASE t.by = c
      <4>1. t.n \in Nat /\ t.n <= posted[c]
        BY <2>8, <3>1 DEF PastOK
      <4>2. t.n <= posted'[c]
        BY <2>3, <2>4, <2>5, <4>1
      <4>3. \A x \in DOMAIN h'[c].todo : t.n < h'[c].todo[x].text.n
        BY <2>5, <2>6a, <4>1
      <4>. QED
        BY <3>1, <4>1, <4>2, <4>3 DEF PastOK
    <3>2. CASE t.by # c
      BY <2>1, <2>4, <2>8, <3>2 DEF PastOK, Only
    <3>. QED
      BY <3>1, <3>2
  <2>. QED
    BY <2>1, <2>6, <2>7, <2>8 DEF OrderInv
<1>4. ASSUME NEW c \in Clients, KVRequest(c) PROVE OrderInv'
  <2>1. /\ UNCHANGED <<shown, h>> /\ posted' = [posted EXCEPT ![c] = @ + 1]
        /\ posted' \in [Clients -> Nat]
    BY <1>4, KVRequestDoes DEF TypeInv
  <2>. QED
    BY <1>p, <2>1, SameOrder DEF TypeInv
<1>5. ASSUME NEW c \in Clients, FilterStart(c) PROVE OrderInv'
  BY <1>5, FilterStartDoes, LessOrder DEF Less, Posting, Carrying
<1>6. ASSUME NEW c \in Clients, Aside(c) \/ ControlLine(c) PROVE OrderInv'
  <2>1. /\ Only(c) /\ UNCHANGED <<posted, shown>> /\ h[c].at \in {"line", "set", "filters"}
        /\ \/ h'[c] = Idle
           \/ h'[c].todo = h[c].todo
           \/ h[c].todo # <<>> /\ h'[c].todo = Tail(h[c].todo)
    BY <1>6, AsideDoes
  <2>. QED
    BY <1>i, <2>1, LessOrder DEF Less, Posting, Carrying
<1>7. ASSUME NEW c \in Clients, FilterLock(c) PROVE OrderInv'
  BY <1>7, FilterLockDoes, LessOrder DEF Less, Posting, Carrying
<1>8. ASSUME NEW c \in Clients, FilterWrite(c) PROVE OrderInv'
  BY <1>8, FilterWriteDoes, LessOrder DEF Less, Posting, Carrying
<1>9. ASSUME NEW c \in Clients, FilterRead(c) PROVE OrderInv'
  BY <1>9, FilterReadDoes, LessOrder DEF Less, Posting, Carrying
<1>10. ASSUME NEW c \in Clients, ScrollbackAppend(c) PROVE OrderInv'
  BY <1>10, ScrollbackAppendDoes, LessOrder DEF Less, Posting, Carrying
<1>11. ASSUME NEW c \in Clients, Sink(c) PROVE OrderInv'
  <2>. PICK p, t, s : p = h[c].p /\ t = h[c].text /\ s = shown[p]
    OBVIOUS
  <2>1. /\ Only(c) /\ UNCHANGED posted /\ h[c].at = "sink"
        /\ h'[c].at = "line" /\ h[c].todo # <<>> /\ h'[c].todo = Tail(h[c].todo)
        /\ p \in DOMAIN shown /\ DOMAIN shown' = DOMAIN shown
        /\ shown'[p] = Append(s, t) /\ \A r \in DOMAIN shown \ {p} : shown'[r] = shown[r]
    BY <1>11, SinkDoes
  <2>2. (\A d \in Clients : TodoOK(d)') /\ \A u : PastOK(u) => PastOK(u)'
    BY <2>1, LessOfTodo DEF Less, Behind, Posting, Carrying
  <2>3. /\ IsSeq(h[c].todo) /\ Head(h[c].todo) = h[c].todo[1] /\ 1 \in DOMAIN h[c].todo
        /\ DOMAIN h[c].todo \subseteq Nat
    BY <2>1, Posts, TailFacts, SeqFacts DEF PostOK, Posting, Carrying
  <2>4. t = h[c].todo[1].text
    BY <2>1, <2>3 DEF AnswerInv, TextOK, Carrying
  <2>5. t.by = c /\ t.n \in Nat /\ t.n <= posted[c]
    BY <2>1, <2>3, <2>4 DEF OrderInv, TodoOK, Posting, Carrying
  <2>6. \A x \in DOMAIN h'[c].todo : t.n < h'[c].todo[x].text.n
    <3> SUFFICES ASSUME NEW x \in DOMAIN h'[c].todo PROVE t.n < h'[c].todo[x].text.n
      OBVIOUS
    <3>1. IsSeq(Tail(h[c].todo))
      BY <2>1, <2>3, TailFacts
    <3>2. x \in Nat \ {0}
      BY <2>1, <3>1, SeqFacts
    <3>3. x + 1 \in DOMAIN h[c].todo /\ h'[c].todo[x] = h[c].todo[x + 1] /\ 1 < x + 1
      BY <2>1, <2>3, <3>2, TailFacts
    <3>. QED
      BY <2>1, <2>3, <2>4, <3>3 DEF OrderInv, TodoOK, Posting, Carrying
  <2>7. PastOK(t)'
    BY <2>1, <2>5, <2>6 DEF PastOK
  <2>8. /\ IsSeq(s) /\ DOMAIN s = 1 .. Len(s) /\ Len(s) \in Nat
    BY <2>1, SeqFacts DEF TypeInv, Places
  <2>9. /\ DOMAIN Append(s, t) = DOMAIN s \cup {Len(s) + 1}
        /\ \A x \in DOMAIN s : Append(s, t)[x] = s[x]
        /\ Append(s, t)[Len(s) + 1] = t
    BY <2>8, AppendFacts
  <2>10. InOrder(s) /\ \A u \in ToSet(s) : PastOK(u)
    BY <2>1 DEF OrderInv
  <2>11. \A x \in DOMAIN s : s[x].n \in Nat /\ (s[x].by = c => s[x].n < t.n)
    <3> SUFFICES ASSUME NEW x \in DOMAIN s PROVE s[x].n \in Nat /\ (s[x].by = c => s[x].n < t.n)
      OBVIOUS
    <3>1. PastOK(s[x])
      BY <2>10 DEF ToSet
    <3>. QED
      BY <2>1, <2>3, <2>4, <3>1 DEF PastOK, Posting, Carrying
  <2>12. InOrder(Append(s, t))
    BY <2>5, <2>8, <2>9, <2>10, <2>11 DEF InOrder
  <2>13. \A u \in ToSet(shown'[p]) : PastOK(u)'
    BY <2>1, <2>2, <2>7, <2>8, <2>10, AppendFacts
  <2>. QED
    BY <2>1, <2>2, <2>12, <2>13 DEF OrderInv
<1>12. ASSUME NEW c \in Clients, AddFilter(c) PROVE OrderInv'
  <2>1. /\ Only(c) /\ UNCHANGED <<posted, shown>> /\ h'[c].at \in {"idle", "filter_close"}
    BY <1>12, <1>i, AddFilterDoes
  <2>. QED
    BY <2>1, LessOrder DEF Less, Posting, Carrying
<1>13. ASSUME NEW c \in Clients, FilterClose(c) PROVE OrderInv'
  BY <1>i, <1>13, FilterCloseDoes, LessOrder DEF Less, Posting, Carrying
<1>14. ASSUME NEW f \in DOMAIN filter, CommandAnswers(f) \/ CommandEnds(f) PROVE OrderInv'
  BY <1>0, <1>14, CommandAnswersDoes, CommandEndsDoes
<1>15. CASE UNCHANGED vars
  BY <1>0, <1>15, StutterDoes
<1>. QED
  BY <1>1, <1>2, <1>3, <1>4, <1>5, <1>6, <1>7, <1>8, <1>9, <1>10, <1>11, <1>12, <1>13, <1>14, <1>15
     DEF Next, Request, Step, Aside

\* The lines a client posts one after the other are shown in that order and
\* once each: dispatchContent has a line through the filters and the sink
\* before Run scans the next.  With a command that answers a line twice the
\* second answer would be taken for the next line's.
THEOREM PostersKeepTheirOrder == ASSUME NoneAnswersTwice PROVE Spec => []PosterOrder
<1>1. TypeInv /\ AddInv /\ AnswerInv /\ [Next]_vars => AnswerInv'
  BY AnswerNext
<1>2. Init => OrderInv
  BY EmptyIsSeq DEF Init, OrderInv, TodoOK, Idle, Posting, Carrying
<1>3. OrderInv => PosterOrder
  BY DEF OrderInv, InOrder, PosterOrder
<1>. QED
  BY <1>1, <1>2, <1>3, TypeInit, TypeNext, AnswerInit, AddNext, OrderNext, PTL DEF Spec

-----------------------------------------------------------------------------
(* The sum of a function over a finite set. *)

\* Induction over the subsets of a finite set: the least that fails.
LEMMA LeastSubset ==
    ASSUME NEW S, IsFiniteSet(S), NEW Q \in SUBSET SUBSET S, Q # {}
    PROVE  \E T \in Q : \A U \in Q : U \subseteq T => U = T
<1>1. IsWellFoundedOn(StrictSubsetOrdering(S), SUBSET S)
  BY FS_FiniteSubsetsOfFinite, FS_StrictSubsetOrderingWellFounded
<1>2. PICK T \in Q : \A U \in Q : ~(<<U, T>> \in StrictSubsetOrdering(S))
  BY <1>1, WFMin
<1>3. \A U \in Q : U \subseteq T => U = T
  BY <1>2 DEF StrictSubsetOrdering
<1>. QED
  BY <1>3

Total(w) == FoldFunction(+, 0, w)
Numbers(w) == IsFiniteSet(DOMAIN w) /\ \A x \in DOMAIN w : w[x] \in Nat
Without(w, k, v) == DOMAIN v = DOMAIN w \ {k} /\ \A x \in DOMAIN v : v[x] = w[x]

Choice(s) == CHOOSE x \in s : TRUE

\* sums holds the sums of w over all subsets of T.
IsTable(sums, T, w) ==
    sums = [s \in SUBSET T |-> IF s = {} THEN 0
                            ELSE LET x == CHOOSE x \in s : TRUE IN w[x] + sums[s \ {x}]]

LEMMA TableStart ==
    ASSUME NEW sums, NEW T, NEW w, IsTable(sums, T, w)
    PROVE  sums[{}] = 0
BY DEF IsTable

LEMMA TableStep ==
    ASSUME NEW sums, NEW T, NEW w, IsTable(sums, T, w), NEW s \in SUBSET T, s # {}, NEW x, x = Choice(s)
    PROVE  x \in s /\ sums[s] = w[x] + sums[s \ {x}]
<1> DEFINE totals == [t \in SUBSET T |-> IF t = {} THEN 0 ELSE w[Choice(t)] + sums[t \ {Choice(t)}]]
<1>1. sums = totals
  BY DEF IsTable, Choice
<1>2. totals[s] = w[x] + sums[s \ {x}]
  OBVIOUS
<1>3. x \in s
  BY DEF Choice
<1>. HIDE DEF totals
<1>. QED
  BY <1>1, <1>2, <1>3

LEMMA TablesAgree ==
    ASSUME NEW S, IsFiniteSet(S), NEW A, NEW B, S \subseteq A, S \subseteq B,
           NEW w, NEW v, \A x \in S : w[x] = v[x],
           NEW sums, IsTable(sums, A, w), NEW totals, IsTable(totals, B, v)
    PROVE  sums[S] = totals[S]
<1> DEFINE Q == {T \in SUBSET S : sums[T] # totals[T]}
<1> SUFFICES ASSUME Q # {} PROVE FALSE
  OBVIOUS
<1>1. PICK T \in Q : \A U \in Q : U \subseteq T => U = T
  <2>1. Q \in SUBSET SUBSET S
    OBVIOUS
  <2>. HIDE DEF Q
  <2>. QED
    BY <2>1, LeastSubset
<1>2. T \in SUBSET S /\ sums[T] # totals[T] /\ \A x \in T : sums[T \ {x}] = totals[T \ {x}]
  BY <1>1
<1>. HIDE DEF Q
<1>3. T # {}
  <2>1. sums[{}] = 0 /\ totals[{}] = 0
    BY TableStart
  <2>. QED
    BY <1>2, <2>1
<1>4. PICK x : x = Choice(T)
  OBVIOUS
<1>5. x \in T /\ sums[T] = w[x] + sums[T \ {x}]
  <2>1. T \in SUBSET A
    BY <1>2
  <2>. QED
    BY <1>3, <1>4, <2>1, TableStep
<1>6. totals[T] = v[x] + totals[T \ {x}]
  <2>1. T \in SUBSET B
    BY <1>2
  <2>. QED
    BY <1>3, <1>4, <2>1, TableStep
<1>7. w[x] = v[x] /\ sums[T \ {x}] = totals[T \ {x}]
  BY <1>2, <1>5
<1>. QED
  BY <1>2, <1>5, <1>6, <1>7

LEMMA TableExists ==
    ASSUME NEW S, IsFiniteSet(S), NEW w
    PROVE  \E sums : IsTable(sums, S, w)
<1> DEFINE Q == {T \in SUBSET S : ~ \E sums : IsTable(sums, T, w)}
<1> SUFFICES ASSUME Q # {} PROVE FALSE
  OBVIOUS
<1>1. PICK T \in Q : \A U \in Q : U \subseteq T => U = T
  <2>1. Q \in SUBSET SUBSET S
    OBVIOUS
  <2>. HIDE DEF Q
  <2>. QED
    BY <2>1, LeastSubset
<1> DEFINE tab(U) == CHOOSE sums : IsTable(sums, U, w)
           top == IF T = {} THEN 0 ELSE w[Choice(T)] + tab(T \ {Choice(T)})[T \ {Choice(T)}]
           sums == [s \in SUBSET T |-> IF s = T THEN top ELSE tab(s)[s]]
<1>2. \A U \in SUBSET T : U # T => IsTable(tab(U), U, w)
  <2> SUFFICES ASSUME NEW U \in SUBSET T, U # T PROVE \E totals : IsTable(totals, U, w)
    OBVIOUS
  <2>. QED
    BY <1>1
<1>3. \A s : s # {} => Choice(s) \in s
  BY DEF Choice
<1>4. ASSUME NEW s \in SUBSET T
      PROVE  sums[s] = IF s = {} THEN 0 ELSE w[Choice(s)] + sums[s \ {Choice(s)}]
  <2>1. CASE s = T
    <3>1. T # {} => T \ {Choice(T)} # T
      BY <1>3
    <3>. HIDE DEF tab
    <3>. QED
      BY <2>1, <3>1
  <2>2. CASE s # T /\ s = {}
    <3>1. tab(s)[s] = 0
      BY <1>2, <2>2, TableStart
    <3>. HIDE DEF tab, top
    <3>. QED
      BY <2>2, <3>1
  <2>3. CASE s # T /\ s # {}
    <3> DEFINE u == s \ {Choice(s)}
    <3>1. u \in SUBSET T /\ u # T /\ u \subseteq s /\ Choice(s) \in s
      BY <1>3, <2>3
    <3>2. tab(s)[s] = w[Choice(s)] + tab(s)[u]
      <4>1. IsTable(tab(s), s, w) /\ s \in SUBSET s
        BY <1>2, <2>3
      <4>. HIDE DEF tab
      <4>. QED
        BY <2>3, <4>1, TableStep
    <3>3. IsFiniteSet(u)
      BY <3>1, FS_Subset
    <3>4. tab(s)[u] = tab(u)[u]
      <4>1. IsTable(tab(s), s, w) /\ IsTable(tab(u), u, w)
        BY <1>2, <2>3, <3>1
      <4>. HIDE DEF tab, u
      <4>. QED
        BY <3>1, <3>3, <4>1, TablesAgree
    <3>. HIDE DEF tab, top
    <3>. QED
      BY <2>3, <3>1, <3>2, <3>4
  <2>. QED
    BY <2>1, <2>2, <2>3
<1>5. sums = [s \in SUBSET T |-> IF s = {} THEN 0 ELSE w[Choice(s)] + sums[s \ {Choice(s)}]]
  <2>1. sums = [s \in SUBSET T |-> sums[s]]
    OBVIOUS
  <2>. HIDE DEF sums
  <2>. QED
    BY <1>4, <2>1
<1>6. IsTable(sums, T, w)
  <2>. HIDE DEF sums
  <2>. QED
    BY <1>5 DEF IsTable, Choice
<1>. QED
  BY <1>1, <1>6

\* It does not matter which element a sum begins with.
AnyOrder(sums, S, w) == \A T \in SUBSET S : /\ sums[T] \in Nat
                                         /\ \A x \in T : sums[T] = w[x] + sums[T \ {x}]

LEMMA TableSums ==
    ASSUME NEW S, IsFiniteSet(S), NEW w, \A x \in S : w[x] \in Nat,
           NEW sums, IsTable(sums, S, w)
    PROVE  AnyOrder(sums, S, w)
<1> DEFINE Q == {T \in SUBSET S : ~(sums[T] \in Nat /\ \A x \in T : sums[T] = w[x] + sums[T \ {x}])}
<1> SUFFICES ASSUME Q # {} PROVE FALSE
  BY DEF AnyOrder
<1>1. PICK T \in Q : \A U \in Q : U \subseteq T => U = T
  <2>1. Q \in SUBSET SUBSET S
    OBVIOUS
  <2>. HIDE DEF Q
  <2>. QED
    BY <2>1, LeastSubset
<1>2. /\ T \in SUBSET S /\ ~(sums[T] \in Nat /\ \A x \in T : sums[T] = w[x] + sums[T \ {x}])
      /\ \A y \in T : /\ sums[T \ {y}] \in Nat
                      /\ \A x \in T \ {y} : sums[T \ {y}] = w[x] + sums[(T \ {y}) \ {x}]
  <2>1. T \in SUBSET S /\ ~(sums[T] \in Nat /\ \A x \in T : sums[T] = w[x] + sums[T \ {x}])
    OBVIOUS
  <2>2. ASSUME NEW y \in T
        PROVE  /\ sums[T \ {y}] \in Nat
               /\ \A x \in T \ {y} : sums[T \ {y}] = w[x] + sums[(T \ {y}) \ {x}]
    <3>1. T \ {y} \subseteq T /\ T \ {y} # T
      OBVIOUS
    <3>2. T \ {y} \notin Q
      <4>. HIDE DEF Q
      <4>. QED
        BY <1>1, <3>1
    <3>3. T \ {y} \in SUBSET S
      BY <2>1
    <3>. QED
      BY <3>2, <3>3
  <2>. QED
    BY <2>1, <2>2
<1>. HIDE DEF Q
<1>3. T # {}
  <2>1. sums[{}] = 0
    BY TableStart
  <2>2. T = {} => sums[T] \in Nat
    BY <2>1
  <2>3. T = {} => \A x \in T : sums[T] = w[x] + sums[T \ {x}]
    OBVIOUS
  <2>. QED
    BY <1>2, <2>2, <2>3
<1>4. PICK c : c = Choice(T)
  OBVIOUS
<1>5. c \in T /\ sums[T] = w[c] + sums[T \ {c}]
  BY <1>2, <1>3, <1>4, TableStep
<1>6. sums[T] \in Nat
  <2>1. w[c] \in Nat /\ sums[T \ {c}] \in Nat
    BY <1>2, <1>5
  <2>. QED
    BY <1>5, <2>1
<1>7. ASSUME NEW x \in T, x # c PROVE sums[T] = w[x] + sums[T \ {x}]
  <2>1. sums[T \ {x}] = w[c] + sums[(T \ {x}) \ {c}]
    BY <1>2, <1>5, <1>7
  <2>2. sums[T \ {c}] = w[x] + sums[(T \ {c}) \ {x}]
    BY <1>2, <1>5, <1>7
  <2>3. (T \ {x}) \ {c} = (T \ {c}) \ {x}
    OBVIOUS
  <2>4. (T \ {c}) \ {x} \in SUBSET S /\ w[x] \in Nat /\ w[c] \in Nat
    BY <1>2, <1>5, <1>7
  <2>5. PICK rest : rest = sums[(T \ {c}) \ {x}]
    OBVIOUS
  <2>6. rest \in Nat
    <3>1. (T \ {c}) \ {x} \notin Q
      BY <1>1, <1>5
    <3>. QED
      BY <2>4, <2>5, <3>1 DEF Q
  <2>. QED
    <3>1. /\ sums[T] = w[c] + (w[x] + rest) /\ sums[T \ {x}] = w[c] + rest
      BY <1>5, <2>1, <2>2, <2>3, <2>5
    <3>. QED
      BY <2>4, <2>6, <3>1
<1>. QED
  BY <1>2, <1>5, <1>6, <1>7

LEMMA SumIsInTable ==
    ASSUME NEW w, IsFiniteSet(DOMAIN w)
    PROVE  \E sums : IsTable(sums, DOMAIN w, w) /\ Total(w) = sums[DOMAIN w]
<1> DEFINE sums == CHOOSE sums : IsTable(sums, DOMAIN w, w)
<1>1. IsTable(sums, DOMAIN w, w)
  BY TableExists
<1>2. Total(w) = sums[DOMAIN w]
  BY DEF Total, FoldFunction, FoldFunctionOnSet, MapThenFoldSet, IsTable
<1>. QED
  BY <1>1, <1>2

LEMMA SumOfNothing == ASSUME NEW w, DOMAIN w = {} PROVE Total(w) = 0
<1>1. PICK sums : IsTable(sums, DOMAIN w, w) /\ Total(w) = sums[DOMAIN w]
  BY SumIsInTable, FS_EmptySet
<1>2. sums[{}] = 0
  BY <1>1, TableStart
<1>. QED
  BY <1>1, <1>2

LEMMA SumIsNat ==
    ASSUME NEW w, Numbers(w)
    PROVE  Total(w) \in Nat
<1>1. PICK sums : IsTable(sums, DOMAIN w, w) /\ Total(w) = sums[DOMAIN w]
  BY SumIsInTable DEF Numbers
<1>2. AnyOrder(sums, DOMAIN w, w)
  BY <1>1, TableSums DEF Numbers
<1>. QED
  BY <1>1, <1>2 DEF AnyOrder

\* One element more.
LEMMA SumOfOneMore ==
    ASSUME NEW w, Numbers(w), NEW k \in DOMAIN w, NEW v, Without(w, k, v)
    PROVE  Total(v) \in Nat /\ Total(w) = w[k] + Total(v)
<1>0. /\ IsFiniteSet(DOMAIN w) /\ \A x \in DOMAIN w : w[x] \in Nat
      /\ DOMAIN v = DOMAIN w \ {k} /\ \A x \in DOMAIN v : v[x] = w[x]
  BY DEF Numbers, Without
<1>1. IsFiniteSet(DOMAIN v)
  BY <1>0, FS_Subset
<1>2. PICK sums : IsTable(sums, DOMAIN w, w) /\ Total(w) = sums[DOMAIN w]
  BY <1>0, SumIsInTable
<1>3. PICK totals : IsTable(totals, DOMAIN v, v) /\ Total(v) = totals[DOMAIN v]
  BY <1>1, SumIsInTable
<1>4. sums[DOMAIN v] = totals[DOMAIN v]
  <2>. PICK S, A : S = DOMAIN v /\ A = DOMAIN w
    OBVIOUS
  <2>1. S \subseteq A /\ S \subseteq S /\ IsFiniteSet(S) /\ IsTable(sums, A, w) /\ IsTable(totals, S, v)
    BY <1>0, <1>1, <1>2, <1>3
  <2>2. \A x \in S : w[x] = v[x]
    BY <1>0
  <2>3. sums[S] = totals[S]
    BY <2>1, <2>2, TablesAgree
  <2>. QED
    BY <2>3
<1>5. sums[DOMAIN w] = w[k] + sums[DOMAIN w \ {k}] /\ sums[DOMAIN v] \in Nat
  <2>1. DOMAIN w \in SUBSET DOMAIN w /\ DOMAIN v \in SUBSET DOMAIN w
    BY <1>0
  <2>. QED
    <3>1. AnyOrder(sums, DOMAIN w, w)
      BY <1>0, <1>2, TableSums
    <3>. QED
      BY <1>0, <2>1, <3>1 DEF AnyOrder
<1>. QED
  BY <1>0, <1>2, <1>3, <1>4, <1>5

-----------------------------------------------------------------------------
(* The store counts its size along. *)

PairsOK(s) == IsSeq(s) /\ \A x \in ToSet(s) : x[2] \in Values
LineOK(t) == t.line.kind = "kv" => PairsOK(t.line.pairs)

\* What is to be set has a size.
CarryOK(c) == /\ h[c].at \in Posting => \A t \in ToSet(h[c].todo) : LineOK(t)
              /\ h[c].at = "set" => PairsOK(h[c].pairs)

SizesOf(d) == [k \in DOMAIN d |-> SizeOf[d[k]]]

Counts(d, n) == /\ IsFiniteSet(DOMAIN d)
                /\ \A k \in DOMAIN d : d[k] \in Values
                /\ n = Total(SizesOf(d))

DataOK == Counts(data, totalBytes)

LEMMA SizesAre ==
    ASSUME NEW d, IsFiniteSet(DOMAIN d), \A k \in DOMAIN d : d[k] \in Values
    PROVE  Numbers(SizesOf(d)) /\ DOMAIN SizesOf(d) = DOMAIN d
BY SizeAssumption DEF SizesOf, Numbers

LEMMA Counted == DataOK => Numbers(SizesOf(data)) /\ totalBytes = Total(SizesOf(data))
BY SizesAre DEF DataOK, Counts

LEMMA WithoutKey ==
    ASSUME DataOK, NEW k, NEW d, Without(data, k, d)
    PROVE  /\ Total(SizesOf(d)) = totalBytes - Existing(k)
           /\ Total(SizesOf(d)) \in Nat /\ totalBytes \in Nat /\ Existing(k) \in Nat
<1>. PICK w, v : w = SizesOf(data) /\ v = SizesOf(d)
  OBVIOUS
<1>1. Numbers(w) /\ totalBytes = Total(w) /\ totalBytes \in Nat
  BY Counted, SumIsNat
<1>2. /\ DOMAIN w = DOMAIN data /\ Without(w, k, v)
      /\ k \in DOMAIN w => w[k] = Existing(k)
  BY DEF SizesOf, Without, Existing
<1>3. CASE k \in DOMAIN w
  <2>1. Total(v) \in Nat /\ totalBytes = w[k] + Total(v)
    BY <1>1, <1>2, <1>3, SumOfOneMore
  <2>2. w[k] \in Nat
    BY <1>1, <1>3 DEF Numbers
  <2>. QED
    BY <1>1, <1>2, <1>3, <2>1, <2>2
<1>4. CASE k \notin DOMAIN w
  <2>1. v = w
    BY <1>2, <1>4 DEF SizesOf, Without
  <2>. QED
    BY <1>1, <1>2, <1>4, <2>1 DEF Existing
<1>. QED
  BY <1>3, <1>4

LEMMA SetKeeps ==
    ASSUME DataOK, NEW k, NEW v \in Values, Set(k, v)
    PROVE  DataOK'
<1> DEFINE d == [j \in DOMAIN data \ {k} |-> data[j]]
<1>. PICK new, w, u : new = data' /\ w = SizesOf(new) /\ u = SizesOf(d)
  OBVIOUS
<1>1. /\ DOMAIN new = DOMAIN data \cup {k} /\ new[k] = v
      /\ \A j \in DOMAIN data \ {k} : new[j] = data[j]
      /\ totalBytes' = totalBytes + SizeOf[v] - Existing(k)
  BY DEF Set
<1>2. /\ Total(u) = totalBytes - Existing(k)
      /\ Total(u) \in Nat /\ totalBytes \in Nat /\ Existing(k) \in Nat
  <2>1. Without(data, k, d)
    BY DEF Without
  <2>. QED
    BY <2>1, WithoutKey
<1>3. IsFiniteSet(DOMAIN new) /\ \A j \in DOMAIN new : new[j] \in Values
  BY <1>1, FS_AddElement DEF DataOK, Counts
<1>4. Numbers(w) /\ k \in DOMAIN w /\ Without(w, k, u) /\ w[k] = SizeOf[v] /\ SizeOf[v] \in Nat
  BY <1>1, <1>3, SizesAre, SizeAssumption DEF SizesOf, Without
<1>5. Total(w) = SizeOf[v] + Total(u)
  BY <1>4, SumOfOneMore
<1>6. totalBytes' = Total(w)
  BY <1>1, <1>2, <1>4, <1>5
<1>. QED
  <2>1. Counts(new, totalBytes')
    BY <1>3, <1>6 DEF Counts
  <2>. QED
    BY <2>1 DEF DataOK

LEMMA DeleteKeeps ==
    ASSUME DataOK, NEW k, Delete(k)
    PROVE  DataOK'
<1>. PICK new : new = data'
  OBVIOUS
<1>1. Without(data, k, new) /\ totalBytes' = totalBytes - Existing(k)
  BY DEF Delete, Restrict, Without
<1>2. IsFiniteSet(DOMAIN new) /\ \A j \in DOMAIN new : new[j] \in Values
  BY <1>1, FS_RemoveElement DEF DataOK, Counts, Without
<1>3. Total(SizesOf(new)) = totalBytes'
  BY <1>1, WithoutKey
<1>. QED
  <2>1. Counts(new, totalBytes')
    BY <1>2, <1>3 DEF Counts
  <2>. QED
    BY <2>1 DEF DataOK

KVInv == DataOK /\ \A c \in Clients : CarryOK(c)

\* A step that leaves the store alone, and after which no more is to be set.
LEMMA LessCarried ==
    ASSUME TypeInv, KVInv, NEW c \in Clients, Only(c), UNCHANGED kvars, Less(c),
           h'[c].at = "set" => PairsOK(h'[c].pairs)
    PROVE  KVInv'
<1>1. DataOK'
  BY DEF KVInv, DataOK, kvars
<1>2. \A d \in Clients \ {c} : CarryOK(d)'
  BY DEF KVInv, Only, CarryOK
<1>3. ASSUME h'[c].at \in Posting, NEW t \in ToSet(h'[c].todo) PROVE LineOK(t)
  <2>1. h[c].at \in Posting /\ IsSeq(h[c].todo)
    BY <1>3, Posts DEF Less, PostOK
  <2>2. ToSet(h'[c].todo) \subseteq ToSet(h[c].todo)
    BY <1>3, <2>1, TailFacts DEF Less
  <2>. QED
    BY <1>3, <2>1, <2>2 DEF KVInv, CarryOK
<1>4. CarryOK(c)'
  BY <1>3 DEF CarryOK
<1>. QED
  BY <1>1, <1>2, <1>4 DEF KVInv

LEMMA SameCarried ==
    ASSUME KVInv, UNCHANGED h, DataOK'
    PROVE  KVInv'
BY DEF KVInv, CarryOK

LEMMA StreamPostCarries == ASSUME TypeInv, KVInv, NEW c \in Clients, StreamPost(c) PROVE KVInv'
<1>1. Only(c) /\ h'[c].at = "line" /\ UNCHANGED kvars
  BY StreamPostDoes DEF StreamPost
<1>2. PICK body \in Bodies : h'[c].todo = Numbered(c, body)
  BY StreamPostDoes
<1>3. ASSUME NEW t \in ToSet(h'[c].todo) PROVE LineOK(t)
  <2>1. PICK x \in DOMAIN body : t.line = body[x]
    BY <1>2 DEF Numbered, ToSet
  <2>2. CASE body[x].kind = "kv"
    <3>. PICK s : s = body[x].pairs
      OBVIOUS
    <3>1. s \in Seq(STRING \X Values)
      BY <2>2, BodiesAssumption
    <3>2. \A j \in DOMAIN s : s[j] \in STRING \X Values
      BY <3>1
    <3>3. PairsOK(s)
      BY <3>1, <3>2 DEF PairsOK, IsSeq, ToSet
    <3>. QED
      BY <2>1, <3>3 DEF LineOK
  <2>. QED
    BY <2>1, <2>2 DEF LineOK
<1>4. CarryOK(c)'
  BY <1>1, <1>3 DEF CarryOK
<1>5. \A d \in Clients \ {c} : CarryOK(d)'
  BY <1>1 DEF KVInv, Only, CarryOK
<1>. QED
  BY <1>1, <1>4, <1>5 DEF KVInv, DataOK, kvars

LEMMA KVPairCarries == ASSUME TypeInv, KVInv, NEW c \in Clients, KVPair(c) PROVE KVInv'
<1>1. Only(c) /\ h[c].at = "set" /\ PairsOK(h[c].pairs) /\ h[c].pairs # <<>>
  <2>1. Only(c)
    BY AsideDoes DEF Aside
  <2>. QED
    BY <2>1 DEF KVPair, KVInv, CarryOK
<1>2. /\ Head(h[c].pairs)[2] \in Values /\ PairsOK(Tail(h[c].pairs))
  <2>. PICK s : s = h[c].pairs
    OBVIOUS
  <2>1. ToSet(Tail(s)) \subseteq ToSet(s) /\ Head(s) \in ToSet(s) /\ IsSeq(Tail(s))
    BY <1>1, TailFacts DEF PairsOK
  <2>. QED
    BY <1>1, <2>1 DEF PairsOK
<1>3. PostOK(c)
  BY <1>1, Posts DEF Posting
<1>4. CASE UNCHANGED kvars /\ Goto(c, Idle)
  <2>1. h'[c].at = "idle"
    BY <1>4, GotoOnly DEF Idle
  <2>. QED
    BY <1>1, <1>4, <2>1, LessCarried DEF Less, Posting, Carrying
<1>5. CASE /\ Set(Head(h[c].pairs)[1], Head(h[c].pairs)[2])
           /\ Goto(c, [h[c] EXCEPT !.pairs = Tail(@)])
  <2>1. h'[c] = [h[c] EXCEPT !.pairs = Tail(@)]
    BY <1>5, GotoOnly
  <2>2. h'[c].at = "set" /\ h'[c].todo = h[c].todo /\ h'[c].pairs = Tail(h[c].pairs)
    BY <1>1, <1>3, <2>1 DEF PostOK
  <2>3. CarryOK(c)'
    BY <1>1, <1>2, <2>2 DEF KVInv, CarryOK, Posting
  <2>4. \A d \in Clients \ {c} : CarryOK(d)'
    BY <1>1 DEF KVInv, Only, CarryOK
  <2>5. DataOK'
    BY <1>2, <1>5, SetKeeps DEF KVInv
  <2>. QED
    BY <2>3, <2>4, <2>5 DEF KVInv
<1>. QED
  BY <1>4, <1>5 DEF KVPair

LEMMA AsideCarries ==
    ASSUME TypeInv, KVInv, NEW c \in Clients, Aside(c) \/ ControlLine(c), ~KVPair(c)
    PROVE  KVInv'
<1>1. Only(c) /\ UNCHANGED kvars /\ Less(c)
  <2>1. /\ Only(c) /\ h[c].at \in {"line", "set", "filters"}
        /\ \/ h'[c] = Idle
           \/ h'[c].todo = h[c].todo
           \/ h[c].todo # <<>> /\ h'[c].todo = Tail(h[c].todo)
    BY AsideDoes
  <2>2. UNCHANGED kvars
    BY DEF Aside, RunEnds, LineFails, KVLine, KVDone, Content, FilterRestartFails, ControlLine
  <2>3. Idle.at \notin Posting
    BY DEF Idle, Posting, Carrying
  <2>. QED
    BY <2>1, <2>2, <2>3 DEF Less, Posting, Carrying
<1>2. h'[c].at = "set" => PairsOK(h'[c].pairs)
  <2>1. CASE KVLine(c)
    <3>1. /\ h[c].at = "line" /\ h[c].todo # <<>> /\ Head(h[c].todo).line.kind = "kv"
          /\ h'[c].pairs = Head(h[c].todo).line.pairs
      BY <2>1, GotoOnly DEF KVLine, AtLine
    <3>2. Head(h[c].todo) \in ToSet(h[c].todo)
      BY <3>1, Posts, TailFacts DEF PostOK, Posting
    <3>3. LineOK(Head(h[c].todo))
      BY <3>1, <3>2 DEF KVInv, CarryOK, Posting
    <3>. QED
      BY <3>1, <3>3 DEF LineOK
  <2>2. CASE RunEnds(c) \/ LineFails(c)
    <3>1. h'[c] = Idle
      BY <2>2, GotoOnly DEF RunEnds, LineFails
    <3>2. h'[c].at = "idle"
      BY <3>1 DEF Idle
    <3>. QED
      BY <3>2
  <2>3. CASE KVDone(c) \/ ControlLine(c)
    BY <2>3, GotoOnly DEF KVDone, ControlLine, NextLine
  <2>4. CASE Content(c)
    BY <2>4, GotoOnly DEF Content
  <2>5. CASE FilterRestartFails(c)
    <3>1. h[c].at = "filters" /\ h'[c] = [h[c] EXCEPT !.at = "filters", !.chain = Tail(@), !.text = h[c].text]
      BY <2>5, GotoOnly DEF FilterRestartFails, PassOn
    <3>2. "at" \in DOMAIN h[c]
      BY <3>1, Posts DEF PostOK, Posting, Carrying
    <3>. QED
      BY <3>1, <3>2
  <2>. QED
    BY <2>1, <2>2, <2>3, <2>4, <2>5 DEF Aside
<1>. QED
  BY <1>1, <1>2, LessCarried

LEMMA KVNext == TypeInv /\ KVInv /\ [Next]_vars => KVInv'
<1> SUFFICES ASSUME TypeInv, KVInv, [Next]_vars PROVE KVInv'
  OBVIOUS
<1>i. Idle.at = "idle"
  BY DEF Idle
<1>0. UNCHANGED <<h, kvars>> => KVInv'
  BY SameCarried DEF KVInv, DataOK, kvars
<1>1. ASSUME NEW id, Register(id) \/ Deregister(id) PROVE KVInv'
  BY <1>0, <1>1 DEF Register, Deregister
<1>4. ASSUME NEW c \in Clients, KVRequest(c) PROVE KVInv'
  BY <1>4, SetKeeps, DeleteKeeps, SameCarried DEF KVRequest, KVInv
<1>5. ASSUME NEW c \in Clients, FilterStart(c) PROVE KVInv'
  BY <1>5, FilterStartDoes, LessCarried DEF Less, Posting, Carrying, FilterStart
<1>7. ASSUME NEW c \in Clients, FilterLock(c) PROVE KVInv'
  BY <1>7, FilterLockDoes, LessCarried DEF Less, Posting, Carrying, FilterLock
<1>8. ASSUME NEW c \in Clients, FilterWrite(c) PROVE KVInv'
  <2>1. UNCHANGED kvars
    BY <1>8 DEF FilterWrite
  <2>. QED
    BY <1>8, <2>1, FilterWriteDoes, LessCarried DEF Less, Posting, Carrying
<1>9. ASSUME NEW c \in Clients, FilterRead(c) PROVE KVInv'
  <2>1. UNCHANGED kvars
    BY <1>9 DEF FilterRead
  <2>. QED
    BY <1>9, <2>1, FilterReadDoes, LessCarried DEF Less, Posting, Carrying
<1>10. ASSUME NEW c \in Clients, ScrollbackAppend(c) PROVE KVInv'
  BY <1>10, ScrollbackAppendDoes, LessCarried DEF Less, Posting, Carrying, ScrollbackAppend
<1>11. ASSUME NEW c \in Clients, Sink(c) PROVE KVInv'
  BY <1>11, SinkDoes, LessCarried DEF Less, Posting, Carrying, Sink
<1>12. ASSUME NEW c \in Clients, AddFilter(c) PROVE KVInv'
  <2>1. /\ Only(c) /\ h'[c].at \in {"idle", "filter_close"}
    BY <1>12, <1>i, AddFilterDoes
  <2>2. UNCHANGED kvars
    BY <1>12 DEF AddFilter
  <2>. QED
    BY <2>1, <2>2, LessCarried DEF Less, Posting, Carrying
<1>13. ASSUME NEW c \in Clients, FilterClose(c) PROVE KVInv'
  BY <1>i, <1>13, FilterCloseDoes, LessCarried DEF Less, Posting, Carrying, FilterClose
<1>14. ASSUME NEW f \in DOMAIN filter, CommandAnswers(f) \/ CommandEnds(f) PROVE KVInv'
  BY <1>0, <1>14 DEF CommandAnswers, CommandEnds
<1>15. CASE UNCHANGED vars
  BY <1>0, <1>15 DEF vars
<1>. QED
  BY <1>1, <1>4, <1>5, <1>7, <1>8, <1>9, <1>10, <1>11, <1>12, <1>13, <1>14, <1>15,
     StreamPostCarries, KVPairCarries, AsideCarries
     DEF Next, Request, Step, Aside

\* The size that the KV store counts along (kvstore/memory.go: Set, Delete) is
\* the sum of the sizes of what it holds, for any keys, values and limits, and
\* however the sequences of several posts and the KV requests interleave.
THEOREM StoreCountsRight == Spec => []TotalIsSum
<1>1. Init => KVInv
  <2>1. Init => DataOK
    <3> SUFFICES ASSUME Init PROVE DataOK
      OBVIOUS
    <3>1. totalBytes = 0 /\ DOMAIN data = {}
      BY DEF Init, KVInit
    <3>2. DOMAIN SizesOf(data) = {} /\ IsFiniteSet(DOMAIN data)
      BY <3>1, FS_EmptySet DEF SizesOf
    <3>. QED
      BY <3>1, <3>2, SumOfNothing DEF DataOK, Counts
  <2>. QED
    BY <2>1, EmptyIsSeq DEF Init, KVInv, CarryOK, Idle, Posting, Carrying
<1>2. KVInv => TotalIsSum
  BY DEF KVInv, DataOK, Counts, TotalIsSum, Total, SizesOf
<1>. QED
  BY <1>1, <1>2, TypeInit, TypeNext, KVNext, PTL DEF Spec
=============================================================================
