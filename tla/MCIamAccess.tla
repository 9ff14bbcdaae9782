----------------------------- MODULE MCIamAccess -----------------------------
(* Instances of IamAccess: resources b1, b2 (bindings of two roles), f1    *)
(* (one of the plugin framework, which may change from one role to the     *)
(* other), m1 (a member, of b2's role), p1 (a policy), s1 (an account with *)
(* the cloud role).                                                        *)
EXTENDS IamAccess, IamUpdaters

CONSTANTS b1, b2, f1, m1, p1, s1, viewer, editor, cloudMember, u1, u2

MCRolesOf ==
    [r \in IamBinding |->
        CASE r = b1 -> {viewer} [] r = b2 -> {editor} [] OTHER -> {viewer, editor}]

MCRoleOf == [r \in SingleGrant |-> IF r = m1 THEN editor ELSE cloudMember]

MCPrincipalOf ==
    [r \in SingleGrant |-> IF r = m1 /\ u1 \in Principal THEN u1 ELSE u2]

(* A grant of b1's role.                                                   *)
MCForeign == {<<viewer, u2>>} \intersect Grant

MCKind(r) ==
    CASE r \in IamBinding -> "binding" [] r \in IamMember -> "member"
      [] OTHER -> "policy"

(* What is used side by side can meet under one key (see IamUpdaters).     *)
ASSUME MCTogetherServed ==
    \A T \in Together : \E u \in Updaters :
        /\ {MCKind(r) : r \in T \ ServiceAccount} \subseteq u.serves
        /\ \A r \in T : r \in Framework <=> u.part = "framework"
        /\ T \intersect ServiceAccount # {} => u.key = LockOfAccounts

(* Without timeouts, what is used side by side is what the documentation   *)
(* allows.                                                                 *)
ASSUME MCTogetherAllowed == ~Timeouts => Isolated /\ OnePolicy /\ RolesApart

MCPolicyGrants == (({editor} \X Principal) \intersect Grant) \union MCForeign
=============================================================================
