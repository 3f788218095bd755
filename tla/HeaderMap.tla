------------------------------ MODULE HeaderMap ------------------------------
(***************************************************************************)
(* What the sorted request-header list promises its callers: a map from   *)
(* a header name, compared without case and surrounding blanks, to the    *)
(* value last set for it, or Missing.  Setting a header replaces any      *)
(* earlier value of the same name; removing it forgets it.  call is the   *)
(* request each step answers, so that a request without effect is seen.  *)
(***************************************************************************)
EXTENDS Integers

CONSTANTS Names,    \* normalised header names (lower case, trimmed)
          Values,   \* header values
          NoName    \* the name of the request before the first one

Missing == -1
ASSUME Missing \notin Values /\ NoName \notin Names

VARIABLES hmap,     \* the value of each name
          call      \* the last request: [op, name, val]

vars == <<hmap, call>>

Init == /\ hmap = [n \in Names |-> Missing]
        /\ call = [op |-> "none", name |-> NoName, val |-> Missing]

Put(n, v) == /\ call' = [op |-> "put", name |-> n, val |-> v]
             /\ hmap' = [hmap EXCEPT ![n] = v]

Delete(n) == /\ call' = [op |-> "delete", name |-> n, val |-> Missing]
             /\ hmap' = [hmap EXCEPT ![n] = Missing]

Next == \E n \in Names : Delete(n) \/ \E v \in Values : Put(n, v)

Spec == Init /\ [][Next]_vars

=============================================================================
