----------------------------- MODULE AccessPolicy -----------------------------
(***************************************************************************)
(* What the IAM resources of the provider promise about one cloud resource *)
(* (a folder, a cloud, a key, ...) and the set of grants bound to it: each *)
(* change takes effect in one step on the grants that are there at that    *)
(* moment, so no change undoes another one that it did not know of.        *)
(*                                                                         *)
(* A change keeps some of the grants and adds others, which covers all of  *)
(* the provider's: granting keeps everything, replacing the members of a   *)
(* role keeps the other roles, setting a whole policy keeps nothing.       *)
(***************************************************************************)
CONSTANTS
    Resource,   \* the Terraform resources that manage the grants
    Grant,      \* the possible grants
    NoChange    \* the resource is not changing anything

VARIABLES
    policy,     \* the grants bound to the cloud resource
    todo        \* Resource -> the change it is carrying out, or NoChange

vars == <<policy, todo>>

Change == [keep : SUBSET Grant, add : SUBSET Grant]

Init ==
    /\ policy \in SUBSET Grant
    /\ todo = [r \in Resource |-> NoChange]

Start(r) ==
    /\ todo[r] = NoChange
    /\ todo'[r] \in Change
    /\ todo' = [todo EXCEPT ![r] = todo'[r]]
    /\ UNCHANGED policy

Commit(r) ==
    /\ todo[r] # NoChange
    /\ policy' = (policy \intersect todo[r].keep) \union todo[r].add
    /\ todo' = [todo EXCEPT ![r] = NoChange]

(* The change failed: nothing of it is left.                               *)
Abort(r) ==
    /\ todo[r] # NoChange
    /\ todo' = [todo EXCEPT ![r] = NoChange]
    /\ UNCHANGED policy

(* The cloud resource is deleted, its grants with it.                      *)
Vanish ==
    /\ policy' = {}
    /\ UNCHANGED todo

Next ==
    \/ \E r \in Resource : Start(r) \/ Commit(r) \/ Abort(r)
    \/ Vanish

Spec == Init /\ [][Next]_vars
=============================================================================
