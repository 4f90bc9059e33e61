------------------------------ MODULE KVStore ------------------------------
(***************************************************************************)
(* kvstore.Store: the values of a session, with a limit on each of them    *)
(* and on their total size, which is counted along instead of summed up.   *)
(* Every operation holds the store's mutex: each is one step.              *)
(***************************************************************************)
EXTENDS Integers, FiniteSets, Functions

CONSTANTS Keys, Values,
          SizeOf,         \* len(value)
          ValueMaxBytes, StoreMaxBytes

ASSUME SizeAssumption == SizeOf \in [Values -> Nat]
ASSUME LimitAssumption == ValueMaxBytes \in Nat /\ StoreMaxBytes \in Nat

VARIABLES data,         \* the values there are, by key
          totalBytes

kvars == <<data, totalBytes>>

KVInit == data = [k \in {} |-> 0] /\ totalBytes = 0

\* A faulty form: a value that is replaced is counted on.
Existing_Forgotten(k) == 0

Existing(k) == IF k \in DOMAIN data THEN SizeOf[data[k]] ELSE 0

Accepts(k, v) == /\ SizeOf[v] <= ValueMaxBytes
                 /\ totalBytes + SizeOf[v] - Existing(k) <= StoreMaxBytes

Set(k, v) == /\ Accepts(k, v)
             /\ data' = [j \in DOMAIN data \cup {k} |-> IF j = k THEN v ELSE data[j]]
             /\ totalBytes' = totalBytes + SizeOf[v] - Existing(k)

Delete(k) == /\ data' = Restrict(data, DOMAIN data \ {k})
             /\ totalBytes' = totalBytes - Existing(k)

-----------------------------------------------------------------------------
\* The counted size is the size of the values held: the limit is neither
\* passed nor hit early however often keys are replaced and deleted.
TotalIsSum == totalBytes = FoldFunction(+, 0, [k \in DOMAIN data |-> SizeOf[data[k]]])
=============================================================================
