-------------------------- MODULE MCLockboxVersions --------------------------
(* Instances of LockboxVersions: two version resources of the secret sa,   *)
(* which may have a version already; a key whose value may go to an entry  *)
(* of sa, beside a version resource; and one, alone, for which there are   *)
(* two entries of sa, one of them taken, and another secret.               *)
EXTENDS LockboxVersions

CONSTANTS v1, v2, k1, k2, sa, sb, e1, e2, e3, w

MCSecretOf == [v \in Version |-> sa]
MCEntriesOf == [v \in Version |-> IF v = v1 THEN {<<e1, w>>} ELSE {<<e2, w>>}]
MCOutput ==
    [k \in Key |-> IF k = k1 THEN {<<sa, e2>>}
                   ELSE {<<sa, e1>>, <<sa, e2>>, <<sb, e1>>}]
MCGiven == {<<e1, w>>, <<e3, w>>}
=============================================================================
