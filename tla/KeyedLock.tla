------------------------------ MODULE KeyedLock ------------------------------
(***************************************************************************)
(* What a keyed lock promises: for every key at most one process is inside *)
(* the section the key guards.  Abstract specification of                  *)
(* common/mutexkv (see MutexKV for the code).                              *)
(***************************************************************************)
CONSTANTS
    Proc,       \* goroutines: one per resource operation Terraform runs
    Key,        \* lock keys, "iam-folder-<id>" or a security group id
    NoProc      \* nobody

VARIABLES
    holder,     \* Key -> the process the key belongs to, or NoProc
    want        \* set of <<process, key>>: Lock(key) called, not yet returned

vars == <<holder, want>>

Init ==
    /\ holder = [k \in Key |-> NoProc]
    /\ want = {}

(* A process that has nothing to do with any key asks for one.             *)
Request(p, k) ==
    /\ \A j \in Key : <<p, j>> \notin want /\ holder[j] # p
    /\ want' = want \union {<<p, k>>}
    /\ UNCHANGED holder

Acquire(p, k) ==
    /\ <<p, k>> \in want
    /\ holder[k] = NoProc
    /\ holder' = [holder EXCEPT ![k] = p]
    /\ want' = want \ {<<p, k>>}

Release(p, k) ==
    /\ holder[k] = p
    /\ holder' = [holder EXCEPT ![k] = NoProc]
    /\ UNCHANGED want

Next ==
    \E p \in Proc, k \in Key : Request(p, k) \/ Acquire(p, k) \/ Release(p, k)

Spec == Init /\ [][Next]_vars
=============================================================================
