------------------------------- MODULE KvMap -------------------------------
(***************************************************************************)
(* What project-4/kvdb.c promises its client: a map from keys to values.   *)
(* `kv' holds the pairs, `size' is their number, and `reply' the last call *)
(* and what it returned: 0 with the value given or taken; +1 if the key is *)
(* missing (or, for insert, present); -1 if the device failed, and then    *)
(* nothing happened.                                                       *)
(***************************************************************************)
EXTENDS Integers, FiniteSets

CONSTANTS Keys, Vals, NoVal, NoKey

VARIABLES kv, size, reply

Ok(call, k, v) == [call |-> call, key |-> k, ret |-> 0, val |-> v]
No(call, k)    == [call |-> call, key |-> k, ret |-> 1, val |-> NoVal]
Failed         == [call |-> "any", key |-> NoKey, ret |-> -1, val |-> NoVal]

Empty == [k \in Keys |-> NoVal]

Init == kv = Empty /\ size = 0 /\ reply = Ok("open", NoKey, NoVal)

Has(k) == kv[k] # NoVal

\* A call that needs a certain state of k and then leaves the value v there.
Write(call, k, v, ok) ==
    \/ ok /\ reply' = Ok(call, k, v) /\ kv' = [kv EXCEPT ![k] = v]
    \/ ~ok /\ reply' = No(call, k) /\ UNCHANGED kv

Insert(k, v)  == Write("insert", k, v, ~Has(k))
Update(k, v)  == Write("update", k, v, TRUE)
Replace(k, v) == Write("replace", k, v, Has(k))

Remove(k) ==
    \/ Has(k) /\ reply' = Ok("remove", k, kv[k]) /\ kv' = [kv EXCEPT ![k] = NoVal]
    \/ ~Has(k) /\ reply' = No("remove", k) /\ UNCHANGED kv

Lookup(k) ==
    /\ reply' = IF Has(k) THEN Ok("lookup", k, kv[k]) ELSE No("lookup", k)
    /\ UNCHANGED kv

Fail == reply' = Failed /\ UNCHANGED kv

\* The log starts over when it is opened.
Reopen == kv' = Empty /\ reply' = Ok("open", NoKey, NoVal)

Next ==
    /\ \/ \E k \in Keys : Lookup(k) \/ Remove(k)
       \/ \E k \in Keys, v \in Vals : Insert(k, v) \/ Update(k, v) \/ Replace(k, v)
       \/ Fail
       \/ Reopen
    /\ size' = Cardinality({k \in Keys : kv'[k] # NoVal})

vars == <<kv, size, reply>>

Spec == Init /\ [][Next]_vars
=============================================================================
