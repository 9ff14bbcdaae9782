------------------------------ MODULE MCMutexKV ------------------------------
(* Three goroutines and two keys: two of them can race for the creation of *)
(* one key's mutex while the third works on the other.                     *)
EXTENDS MutexKV, TLC
=============================================================================
