------------------------------ MODULE MCIngest ------------------------------
(* Keys, values and bodies for Ingest: bodies of one or two lines that hold  *)
(* every kind of line, and KV sequences of which one pair is refused.        *)
EXTENDS Ingest

Content1 == [kind |-> "content"]
KV(pairs) == [kind |-> "kv", pairs |-> pairs]

Sizes == [v \in Values |-> IF v = "long" THEN 2 ELSE 1]

\* The first sequence replaces a value and then passes the limit of the store.
Replacing == KV(<< <<"k", "short">>, <<"k", "long">>, <<"m", "short">> >>)
BadKey == KV(<< <<"bad key", "short">> >>)

AllBodies == {<<Content1>>, <<Content1, Content1>>, <<Replacing, BadKey>>,
              <<[kind |-> "malformed"], Content1>>,
              <<[kind |-> "clear"], [kind |-> "too long"]>>}
=============================================================================
