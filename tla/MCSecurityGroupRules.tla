------------------------ MODULE MCSecurityGroupRules ------------------------
(* Instances of SecurityGroupRules: a rule whose body and labels may       *)
(* change, next to one that only comes and goes.                           *)
EXTENDS SecurityGroupRules, TLC

CONSTANTS r1, r2, http, ssh, red, blue

MCWants ==
    r1 :> {[body |-> http, label |-> red], [body |-> ssh, label |-> red],
           [body |-> http, label |-> blue]}
    @@ r2 :> {[body |-> http, label |-> red]}
=============================================================================
