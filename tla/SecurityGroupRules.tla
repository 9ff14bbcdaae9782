------------------------- MODULE SecurityGroupRules -------------------------
(***************************************************************************)
(* The rules of one security group that yandex_vpc_security_group_rule     *)
(* manages (yandex-framework/services/vpc_security_group_rule and          *)
(* vpc_security_group/api), side by side and next to others who change     *)
(* the group.  A handler holds the key of the group in the global key map  *)
(* (see MutexKV) from its start to its return.  The service runs one       *)
(* operation of a group at a time and refuses another; the provider then   *)
(* waits for the one in its way and asks again (pkg/retry).                *)
(***************************************************************************)
EXTENDS Naturals, FiniteSets

CONSTANTS
    Rule,       \* the rule resources of the group
    Body,       \* direction, protocol, ports, target: what a rule says
    Label,      \* its labels
    Wants,      \* bound: the attributes a resource may be given
    Impatient,  \* bound: the resources that may give up waiting, once each
    Exposed,    \* bound: the resources whose rules others may delete
    MaxIds,     \* bound: rule ids in use at a time
    None        \* no rule id, nobody

Others == "others"
RuleId == 1..MaxIds
Attributes == [body : Body, label : Label]

ASSUME SecurityGroupAssumption ==
    /\ IsFiniteSet(Rule)
    /\ MaxIds \in Nat
    /\ Wants \in [Rule -> SUBSET Attributes]
    /\ None \notin Rule /\ None \notin RuleId
    /\ Others \notin Rule

VARIABLES
    rules,      \* server: the rules of the group
    running,    \* server: the operation of the group that runs, if any
    result,     \* server: how the operation a handler waits for has ended
    lock,       \* globallock: who holds the key of the group
    pc, op,     \* handler: what it does next, the method that runs
    plan,       \* handler: the attributes and the id it works with
    tf,         \* Terraform: the state of each rule
    gaveUp,     \* history: rules whose handler gave up waiting
    disturbed   \* history: rules that others have deleted

vars == <<rules, running, result, lock, pc, op, plan, tf, gaveUp, disturbed>>

StoredRule == [id : RuleId, is : Attributes, by : Rule]
Operation == [by : Rule \union {Others}, add : SUBSET StoredRule,
              delete : SUBSET RuleId]
NoOperation == [by |-> None, add |-> {}, delete |-> {}]

TfState == [id : RuleId \union {None}, is : Attributes \union {None}]
Absent == [id |-> None, is |-> None]

(* Types; no handler returns with the group locked.                        *)
TypeOK ==
    /\ rules \subseteq StoredRule
    /\ running \in Operation \union {NoOperation}
    /\ result \in [Rule -> {"none", "running", "done", "failed"}]
    /\ lock \in Rule \union {None}
    /\ pc \in [Rule -> {"idle", "lock", "call", "conflict", "wait", "read"}]
    /\ op \in [Rule -> {"none", "create", "read", "update", "delete"}]
    /\ plan \in [Rule -> TfState]
    /\ tf \in [Rule -> TfState]
    /\ gaveUp \subseteq Rule
    /\ disturbed \subseteq Rule
    /\ \A r \in Rule :
          lock = r <=> pc[r] # "idle" /\ pc[r] # "lock" /\ op[r] # "read"

-----------------------------------------------------------------------------
(* The id of the next rule: one that nobody knows.                         *)
UsedIds ==
    {x.id : x \in rules \union running.add}
        \union {tf[r].id : r \in Rule} \union {plan[r].id : r \in Rule}
FreeIds == RuleId \ UsedIds
NextId == CHOOSE n \in FreeIds : TRUE

Find(id) == {x \in rules : x.id = id}

Init ==
    /\ rules = {}
    /\ running = NoOperation
    /\ result = [r \in Rule |-> "none"]
    /\ lock = None
    /\ pc = [r \in Rule |-> "idle"]
    /\ op = [r \in Rule |-> "none"]
    /\ plan = [r \in Rule |-> Absent]
    /\ tf = [r \in Rule |-> Absent]
    /\ gaveUp = {}
    /\ disturbed = {}

Call(r, m, x, first) ==
    /\ pc[r] = "idle"
    /\ op' = [op EXCEPT ![r] = m]
    /\ plan' = [plan EXCEPT ![r] = x]
    /\ pc' = [pc EXCEPT ![r] = first]
    /\ UNCHANGED <<rules, running, result, lock, tf, gaveUp, disturbed>>

Create(r) ==
    /\ tf[r] = Absent /\ Cardinality(FreeIds) > Cardinality(Rule)
    /\ \E a \in Wants[r] : Call(r, "create", [id |-> None, is |-> a], "lock")

Update(r) ==
    /\ tf[r] # Absent /\ Cardinality(FreeIds) > Cardinality(Rule)
    /\ \E a \in Wants[r] \ {tf[r].is} : Call(r, "update", [tf[r] EXCEPT !.is = a], "lock")

Delete(r) == tf[r] # Absent /\ Call(r, "delete", tf[r], "lock")

Read(r) == tf[r] # Absent /\ Call(r, "read", tf[r], "read")

(* Variant: the key is not waited for.                                     *)
LockNothing(r) ==
    /\ pc[r] = "lock"
    /\ lock' = r
    /\ pc' = [pc EXCEPT ![r] = "call"]
    /\ UNCHANGED <<rules, running, result, op, plan, tf, gaveUp, disturbed>>

(* GetMutexKV().Lock(sgID), before the timeout of the method begins.       *)
Lock(r) ==
    /\ pc[r] = "lock"
    /\ lock = None
    /\ lock' = r
    /\ pc' = [pc EXCEPT ![r] = "call"]
    /\ UNCHANGED <<rules, running, result, op, plan, tf, gaveUp, disturbed>>

(* Variant: no deferred unlock.                                            *)
ReturnLocked(r, x) ==
    /\ pc' = [pc EXCEPT ![r] = "idle"]
    /\ op' = [op EXCEPT ![r] = "none"]
    /\ plan' = [plan EXCEPT ![r] = Absent]
    /\ result' = [result EXCEPT ![r] = "none"]
    /\ tf' = [tf EXCEPT ![r] = x]
    /\ UNCHANGED lock

Return(r, x) ==
    /\ pc' = [pc EXCEPT ![r] = "idle"]
    /\ op' = [op EXCEPT ![r] = "none"]
    /\ plan' = [plan EXCEPT ![r] = Absent]
    /\ result' = [result EXCEPT ![r] = "none"]
    /\ tf' = [tf EXCEPT ![r] = x]
    /\ lock' = IF lock = r THEN None ELSE lock

SameBody(r) == op[r] = "update" /\ plan[r].is.body = tf[r].is.body

(* Variant: a rule with another body is added, and the old one stays.      *)
RequestAddsOnly(r) ==
    [by |-> r, delete |-> IF op[r] = "delete" THEN {tf[r].id} ELSE {},
     add |-> IF op[r] = "delete" THEN {}
             ELSE {[id |-> NextId, is |-> plan[r].is, by |-> r]}]

(* What the method asks for: UpdateSecurityGroupRules adds the rule and    *)
(* deletes the old one together; when the body is the same only the        *)
(* metadata is updated, to the labels of the state (resource.go:365-369),  *)
(* which changes nothing.                                                  *)
Request(r) ==
    [by |-> r,
     delete |-> IF op[r] = "create" \/ SameBody(r) THEN {} ELSE {tf[r].id},
     add |-> IF op[r] = "delete" \/ SameBody(r) THEN {}
             ELSE {[id |-> NextId, is |-> plan[r].is, by |-> r]}]

(* Variant: the id of the added rule is not taken from the metadata.       *)
AcceptedUnnamed(r) ==
    /\ pc[r] = "call"
    /\ running = NoOperation
    /\ op[r] # "create" => Find(tf[r].id) # {}
    /\ running' = Request(r)
    /\ result' = [result EXCEPT ![r] = "running"]
    /\ pc' = [pc EXCEPT ![r] = "wait"]
    /\ UNCHANGED <<rules, lock, op, plan, tf, gaveUp, disturbed>>

(* The call is accepted if no other operation runs and the service knows   *)
(* the rule.  The operation's metadata name the new rule.                  *)
Accepted(r) ==
    /\ pc[r] = "call"
    /\ running = NoOperation
    /\ op[r] # "create" => Find(tf[r].id) # {}
    /\ running' = Request(r)
    /\ result' = [result EXCEPT ![r] = "running"]
    /\ plan' = [plan EXCEPT ![r].id =
                    IF Request(r).add = {} THEN @ ELSE NextId]
    /\ pc' = [pc EXCEPT ![r] = "wait"]
    /\ UNCHANGED <<rules, lock, op, tf, gaveUp, disturbed>>

(* retry.ConflictingOperation: whatever becomes of the other operation,    *)
(* the call is repeated when it has ended.                                 *)
Conflict(r) ==
    /\ pc[r] = "call"
    /\ running # NoOperation
    /\ pc' = [pc EXCEPT ![r] = "conflict"]
    /\ UNCHANGED <<rules, running, result, lock, op, plan, tf, gaveUp, disturbed>>

ConflictOver(r) ==
    /\ pc[r] = "conflict"
    /\ running = NoOperation
    /\ pc' = [pc EXCEPT ![r] = "call"]
    /\ UNCHANGED <<rules, running, result, lock, op, plan, tf, gaveUp, disturbed>>

(* An error, or the timeout of the method while it is kept waiting by      *)
(* conflicts: nothing is recorded.  (If the call was accepted all the same *)
(* and only its answer lost, this is Accepted and then WaitTimesOut.)      *)
CallFails(r) ==
    /\ pc[r] \in {"call", "conflict"}
    /\ Return(r, tf[r])
    /\ UNCHANGED <<rules, running, gaveUp, disturbed>>

WaitDone(r) ==
    /\ pc[r] = "wait"
    /\ result[r] = "done"
    /\ IF op[r] = "delete" THEN Return(r, Absent)
       ELSE /\ pc' = [pc EXCEPT ![r] = "read"]
            /\ UNCHANGED <<result, lock, op, plan, tf>>
    /\ UNCHANGED <<rules, running, gaveUp, disturbed>>

WaitFails(r) ==
    /\ pc[r] = "wait"
    /\ result[r] = "failed"
    /\ Return(r, tf[r])
    /\ UNCHANGED <<rules, running, gaveUp, disturbed>>

(* The handler does not learn what has become of its operation: the        *)
(* timeout of the method passes, polling fails, or the metadata of an      *)
(* operation that is done cannot be had.  The operation goes on.  The state*)
(* keeps what it had: nothing of a rule that is being added.               *)
WaitTimesOut(r) ==
    /\ pc[r] = "wait"
    /\ r \in Impatient \ gaveUp
    /\ gaveUp' = gaveUp \union {r}
    /\ Return(r, tf[r])
    /\ UNCHANGED <<rules, running, disturbed>>

(* updateRuleState: what is there is recorded.                             *)
ReadBack(r) ==
    /\ pc[r] = "read"
    /\ \E x \in Find(plan[r].id) : Return(r, [id |-> x.id, is |-> x.is])
    /\ UNCHANGED <<rules, running, gaveUp, disturbed>>

(* Not found is an error like any other; a create or update has the id of  *)
(* the rule in its state by then, together with the planned attributes.    *)
ReadFails(r) ==
    /\ pc[r] = "read"
    /\ Return(r, plan[r])
    /\ UNCHANGED <<rules, running, gaveUp, disturbed>>

-----------------------------------------------------------------------------
(* The service (external), and others who change the group.                *)

Finish(how) ==
    /\ running # NoOperation
    /\ running' = NoOperation
    /\ result' = [r \in Rule |-> IF result[r] = "running" THEN how ELSE result[r]]

Complete ==
    /\ Finish("done")
    /\ rules' = {x \in rules : x.id \notin running.delete} \union running.add
    /\ UNCHANGED <<lock, pc, op, plan, tf, gaveUp, disturbed>>

OperationFails ==
    /\ Finish("failed")
    /\ UNCHANGED <<rules, lock, pc, op, plan, tf, gaveUp, disturbed>>

OthersStart ==
    /\ running = NoOperation
    /\ \E S \in {{}} \union {{x} : x \in {y \in rules : y.by \in Exposed}} :
          /\ running' = [by |-> Others, add |-> {}, delete |-> {x.id : x \in S}]
          /\ disturbed' = disturbed \union {x.by : x \in S}
    /\ UNCHANGED <<rules, result, lock, pc, op, plan, tf, gaveUp>>

Start(r) == Create(r) \/ Update(r) \/ Delete(r) \/ Read(r)

Handler(r) ==
    \/ Accepted(r) \/ Conflict(r) \/ ConflictOver(r) \/ CallFails(r)
    \/ WaitDone(r) \/ WaitFails(r) \/ WaitTimesOut(r) \/ ReadBack(r) \/ ReadFails(r)

Service == Complete \/ OperationFails

Next ==
    \/ \E r \in Rule : Start(r) \/ Lock(r) \/ Handler(r)
    \/ Service \/ OthersStart

(* Operations end, sync.Mutex is fair to its waiters, a handler runs on,   *)
(* and one that is kept from its call by conflicts is ended by the timeout *)
(* of its method: others need not ever leave the group alone.              *)
Fairness ==
    /\ WF_vars(Service)
    /\ \A r \in Rule :
          SF_vars(Lock(r)) /\ WF_vars(Handler(r)) /\ SF_vars(CallFails(r))

Spec == Init /\ [][Next]_vars /\ Fairness

-----------------------------------------------------------------------------
(* A resource has at most one rule in the group, also while its body is    *)
(* replaced.  Only a wait that was given up breaks this: a rule that is    *)
(* added after all has no id in the state and is added again               *)
(* (resource.go:295).                                                      *)
OneRuleEach ==
    \A r \in Rule \ gaveUp : Cardinality({x \in rules : x.by = r}) <= 1

(* What the state of an idle resource says is what the group has: the rule *)
(* by that id with that body, and a resource without a state has none.     *)
(* Labels are left out: a failed read after an update records labels that  *)
(* were never sent.  Exempt are those that gave up waiting or whose rule   *)
(* others have deleted, which no refresh takes out of the state again      *)
(* (resource.go:485-490).                                                  *)
StateIsReal ==
    \A r \in Rule \ (gaveUp \union disturbed) :
        pc[r] = "idle" =>
            {<<x.id, x.is.body>> : x \in {y \in rules : y.by = r}}
                = IF tf[r] = Absent THEN {} ELSE {<<tf[r].id, tf[r].is.body>>}

(* What the lock is for: an operation that is in the way of a handler is   *)
(* one of others, or one whose handler gave up waiting.                    *)
ConflictsAreForeign ==
    \A r \in Rule :
        pc[r] \in {"call", "conflict"} /\ running # NoOperation
            => running.by = Others \/ running.by \in gaveUp

(* Every method returns, though it may meet one conflicting operation      *)
(* after the other (retry.go:16-44 repeats without a bound) and waits for  *)
(* the lock before its own timeout begins.                                 *)
HandlersReturn == \A r \in Rule : pc[r] # "idle" ~> pc[r] = "idle"
=============================================================================
