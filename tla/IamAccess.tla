------------------------------ MODULE IamAccess ------------------------------
(***************************************************************************)
(* The IAM resources of the SDK provider (yandex/iam.go, iam_binding.go,   *)
(* iam_member.go, iam_policy.go, the updaters such as iam_folder.go), the  *)
(* bindings of the plugin framework (pkg/accessbinding) and the service    *)
(* account resource, all working on the access bindings of one cloud       *)
(* resource at the same time.                                              *)
(*                                                                         *)
(* Terraform runs the CRUD handlers of different resources in parallel and *)
(* those of one resource one after the other.  A handler is cut at every   *)
(* API call and at the lock; pc[r] names the call it is about to make.     *)
(* The mutex of MutexKV under the cloud resource's key is the variable     *)
(* lock: module MutexKV shows that the key map behaves as one lock a key.  *)
(*                                                                         *)
(* A grant is a pair of a role and a principal (canonicalMember), and a    *)
(* policy a set of grants: order and duplicates of Policy.Bindings carry   *)
(* no meaning, and the code rebuilds the list from Go maps anyway.         *)
(***************************************************************************)
EXTENDS Naturals, FiniteSets

CONSTANTS
    IamBinding,     \* iam_binding resources: all members of one role
    IamMember,      \* iam_member resources: one member of one role
    IamPolicy,      \* iam_policy resources: the whole policy
    ServiceAccount, \* service account resources (the cloud resource is a cloud)
    Framework,      \* the bindings that pkg/accessbinding implements
    Together,       \* bound: the sets of resources that are used side by side
    Role, Principal,
    RolesOf,        \* the roles a binding may be written with
    RoleOf,         \* the role of a member, clouds.member for an account
    PrincipalOf,    \* the principal of a member; an account is one itself
    Foreign,        \* grants others may have made before Terraform runs
    PolicyGrants,   \* bound: the grants that policy resources may name
    Timeouts,       \* TRUE: op.Wait may give up before the operation ends
    NoRes,          \* nobody holds the lock
    NoReq,          \* no operation of this resource at the server
    NoRole,         \* the role of what has no attribute role of its own here
    NoChange        \* see AccessPolicy

Resource == IamBinding \union IamMember \union IamPolicy \union ServiceAccount
Grant == Role \X Principal
SingleGrant == IamMember \union ServiceAccount
Locking == IamBinding \union IamMember \union ServiceAccount

ASSUME IamAccessAssumption ==
    /\ IamBinding \intersect (IamMember \union IamPolicy \union ServiceAccount) = {}
    /\ IamMember \intersect (IamPolicy \union ServiceAccount) = {}
    /\ IamPolicy \intersect ServiceAccount = {}
    /\ Framework \subseteq IamBinding
    /\ Together \subseteq SUBSET Resource
    /\ RolesOf \in [IamBinding -> SUBSET Role]
    /\ RoleOf \in [SingleGrant -> Role]
    /\ PrincipalOf \in [SingleGrant -> Principal]
    /\ Foreign \in SUBSET Grant
    /\ PolicyGrants \in SUBSET Grant
    /\ Timeouts \in BOOLEAN
    /\ NoRes \notin Resource
    /\ NoRole \notin Role
    /\ NoReq \notin [kind : {"set", "add", "remove"}, grants : SUBSET Grant,
                     status : {"running", "done", "failed"}]
    /\ NoChange \notin [keep : SUBSET Grant, add : SUBSET Grant]

VARIABLES
    policy,     \* server: the access bindings of the cloud resource
    exists,     \* server: the cloud resource is still there
    accounts,   \* server: service accounts that exist
    req,        \* server: the last operation each resource asked for
    orphan,     \* server: an operation whose caller gave up waiting
    lock,       \* mutexKV: who holds the key of the cloud resource
    pc,         \* handler: the call it makes next
    op,         \* handler: the CRUD method that runs
    cfg,        \* handler: the role and the grants in its data (plan or state)
    snap,       \* handler: the policy read under the lock
    tf          \* Terraform: the state of each resource

vars == <<policy, exists, accounts, req, orphan, lock, pc, op, cfg, snap, tf>>
server == <<policy, exists, accounts, req, orphan>>

Location == {"idle", "cloud", "lock", "get", "submit", "wait", "read"}
Method == {"none", "create", "read", "update", "delete", "import"}

(* What the attributes describe: the role of a binding, and the grants.    *)
Data == [role : Role \union {NoRole}, grants : SUBSET Grant]
NoData == [role |-> NoRole, grants |-> {}]

(* d.Id() = "" or not, and the attributes.  For a binding that an update   *)
(* moves here the id is still FALSE, and the role that of the other cloud  *)
(* resource's state (MoveHere).                                            *)
TfState == [id : BOOLEAN, role : Role \union {NoRole}, grants : SUBSET Grant]
Absent == [id |-> FALSE, role |-> NoRole, grants |-> {}]
Present(d) == [id |-> TRUE, role |-> d.role, grants |-> d.grants]
StateData(r) == [role |-> tf[r].role, grants |-> tf[r].grants]

(* SetAccessBindings replaces the policy; an "add" or "remove" (the deltas *)
(* of UpdateAccessBindings, and what the server itself does for a service  *)
(* account) applies to whatever the policy is at that time.                *)
Request == [kind : {"set", "add", "remove"}, grants : SUBSET Grant,
            status : {"running", "done", "failed"}]

(* Types; no handler returns with the key locked; and a handler waits      *)
(* exactly while it has an operation.                                      *)
TypeOK ==
    /\ policy \in SUBSET Grant
    /\ exists \in BOOLEAN
    /\ accounts \in SUBSET ServiceAccount
    /\ req \in [Resource -> Request \union {NoReq}]
    /\ orphan \in [Resource -> Request \union {NoReq}]
    /\ lock \in Resource \union {NoRes}
    /\ pc \in [Resource -> Location]
    /\ op \in [Resource -> Method]
    /\ cfg \in [Resource -> Data]
    /\ snap \in [Resource -> SUBSET Grant]
    /\ tf \in [Resource -> TfState]
    /\ \A r \in Resource : pc[r] = "idle" => lock # r
    /\ \A r \in Resource : pc[r] = "wait" <=> req[r] # NoReq

-----------------------------------------------------------------------------
(* Pure helpers (yandex/utils.go), on sets of grants.                      *)

OfRole(role, P) == {g \in P : g[1] = role}

(* Variant: the plan replaces what was there, also on create.              *)
MergeBindingsOverwrite(a, b) == b

(* mergeBindings(append(a, b...)): the union, each grant once.             *)
MergeBindings(a, b) == a \union b

RemoveRoleFromBindings(role, P) == P \ OfRole(role, P)

(* The grant of a single-grant resource (getResourceIamMember).            *)
GrantOf(r) == <<RoleOf[r], PrincipalOf[r]>>

(* The roles a resource may be written with.                               *)
Roles(r) == IF r \in IamBinding THEN RolesOf[r] ELSE {RoleOf[r]}

(* What a plan may ask of a resource.                                      *)
Config(r) ==
    CASE r \in IamBinding ->
            UNION {[role : {x}, grants : SUBSET ({x} \X Principal)] : x \in RolesOf[r]}
      [] r \in SingleGrant -> [role : {NoRole}, grants : {{GrantOf(r)}}]
      [] OTHER -> [role : {NoRole}, grants : SUBSET PolicyGrants]

(* Variant: an update takes the planned role out, not that of the state.   *)
OldRoleOfPlan(r) == cfg[r].role

(* The role that an update or a delete of a binding takes out: that of the *)
(* state, which for an update of the framework may not be the planned one. *)
OldRole(r) == IF op[r] = "update" THEN tf[r].role ELSE cfg[r].role

(* The request a handler sends: the policy function given to               *)
(* iamPolicyReadModifySet, the delta given to iamPolicyReadModifyUpdate,   *)
(* the policy given to SetResourceIamPolicy, or the account's operation.   *)
Sends(r) ==
    LET new(k, S) == [kind |-> k, grants |-> S, status |-> "running"] IN
    CASE r \in IamBinding /\ op[r] = "create" ->
            new("set", MergeBindings(snap[r], cfg[r].grants))
      [] r \in IamBinding /\ op[r] = "update" ->
            new("set", RemoveRoleFromBindings(OldRole(r), snap[r]) \union cfg[r].grants)
      [] r \in IamBinding /\ op[r] = "delete" ->
            new("set", RemoveRoleFromBindings(OldRole(r), snap[r]))
      [] r \in SingleGrant /\ op[r] = "create" -> new("add", {GrantOf(r)})
      [] r \in SingleGrant /\ op[r] = "delete" -> new("remove", {GrantOf(r)})
      [] r \in IamPolicy /\ op[r] = "delete" -> new("set", {})
      [] OTHER -> new("set", cfg[r].grants)

-----------------------------------------------------------------------------
Init ==
    /\ policy \in SUBSET Foreign
    /\ exists = TRUE
    /\ accounts = {}
    /\ req = [r \in Resource |-> NoReq]
    /\ orphan = [r \in Resource |-> NoReq]
    /\ lock = NoRes
    /\ pc = [r \in Resource |-> "idle"]
    /\ op = [r \in Resource |-> "none"]
    /\ cfg = [r \in Resource |-> NoData]
    /\ snap = [r \in Resource |-> {}]
    /\ tf = [r \in Resource |-> Absent]

(* Terraform calls method m of resource r with data d.                     *)
Call(r, m, d, first) ==
    /\ pc[r] = "idle"
    /\ op' = [op EXCEPT ![r] = m]
    /\ cfg' = [cfg EXCEPT ![r] = d]
    /\ pc' = [pc EXCEPT ![r] = first]
    /\ UNCHANGED <<server, lock, snap>>

(* Variant: no deferred unlock on the way out.                             *)
ReturnLocked(r, st) ==
    /\ pc' = [pc EXCEPT ![r] = "idle"]
    /\ op' = [op EXCEPT ![r] = "none"]
    /\ cfg' = [cfg EXCEPT ![r] = NoData]
    /\ snap' = [snap EXCEPT ![r] = {}]
    /\ tf' = [tf EXCEPT ![r] = st]
    /\ UNCHANGED lock

(* A handler returns and Terraform records the state st.  The locks are    *)
(* released by defer, whatever the way out.                                *)
Return(r, st) ==
    /\ pc' = [pc EXCEPT ![r] = "idle"]
    /\ op' = [op EXCEPT ![r] = "none"]
    /\ cfg' = [cfg EXCEPT ![r] = NoData]
    /\ snap' = [snap EXCEPT ![r] = {}]
    /\ lock' = IF lock = r THEN NoRes ELSE lock
    /\ tf' = [tf EXCEPT ![r] = st]

(* The first call of a changing method: a policy is set without the lock   *)
(* (setIamPolicyData), an account looks its cloud up first.                *)
First(r) ==
    CASE r \in IamPolicy -> "submit"
      [] r \in ServiceAccount -> "cloud"
      [] OTHER -> "lock"

CallCreate(r) ==
    /\ ~tf[r].id
    /\ \E d \in Config(r) : Call(r, "create", d, First(r))
    /\ UNCHANGED tf

(* Members are ForceNew, so only bindings and policies update.  The role   *)
(* of the SDK's bindings is ForceNew too (iam_binding.go:22); that of the  *)
(* framework's is changed in place.                                        *)
CallUpdate(r) ==
    /\ r \in IamBinding \union IamPolicy
    /\ tf[r].id
    /\ \E d \in Config(r) \ {StateData(r)} :
          /\ r \in Framework \/ d.role = tf[r].role
          /\ Call(r, "update", d, First(r))
    /\ UNCHANGED tf

(* So is the id of the cloud resource: Update is initialized with the plan,*)
(* so it works on the new cloud resource, but with the role of the state.  *)
(* The binding is moved here from another cloud resource ...               *)
MoveHere(r) ==
    /\ r \in Framework
    /\ tf[r] = Absent
    /\ \E d \in Config(r) : Call(r, "update", d, First(r))
    /\ \E x \in RolesOf[r] : tf' = [tf EXCEPT ![r].role = x]

(* ... or from here to another one, which does not touch this one at all.  *)
MoveAway(r) ==
    /\ r \in Framework
    /\ pc[r] = "idle"
    /\ tf[r].id
    /\ tf' = [tf EXCEPT ![r] = Absent]
    /\ UNCHANGED <<server, lock, pc, op, cfg, snap>>

(* Delete works on the state; a binding that has no members in the state   *)
(* has nothing to remove (iam_binding.go:184-187).                         *)
CallDelete(r) ==
    /\ tf[r].id
    /\ r \in IamBinding => tf[r].grants # {}
    /\ Call(r, "delete", StateData(r), First(r))
    /\ UNCHANGED tf

DeleteEmpty(r) ==
    /\ pc[r] = "idle"
    /\ r \in IamBinding
    /\ tf[r].id /\ tf[r].grants = {}
    /\ tf' = [tf EXCEPT ![r] = Absent]
    /\ UNCHANGED <<server, lock, pc, op, cfg, snap>>

(* Refresh.                                                                *)
CallRead(r) ==
    /\ tf[r].id
    /\ Call(r, "read", StateData(r), "read")
    /\ UNCHANGED tf

(* terraform import: an id, for bindings the role and for members the      *)
(* grant too, then a read.                                                 *)
CallImport(r) ==
    /\ r \notin ServiceAccount
    /\ ~tf[r].id
    /\ \E d \in Config(r) :
          /\ r \in IamMember \/ d.grants = {}
          /\ Call(r, "import", d, "read")
    /\ UNCHANGED tf

(* cloudIDOfFolderID, before the cloud's key is known.                     *)
LookupCloud(r) ==
    /\ pc[r] = "cloud"
    /\ exists
    /\ pc' = [pc EXCEPT ![r] = "lock"]
    /\ UNCHANGED <<server, lock, op, cfg, snap, tf>>

(* Variant: each updater makes a key of its own, so nobody ever waits.     *)
LockOwnKey(r) ==
    /\ pc[r] = "lock"
    /\ lock' = r
    /\ pc' = [pc EXCEPT ![r] = IF r \in ServiceAccount THEN "submit" ELSE "get"]
    /\ UNCHANGED <<server, op, cfg, snap, tf>>

(* mutexKV.Lock(key).                                                      *)
Lock(r) ==
    /\ pc[r] = "lock"
    /\ lock = NoRes
    /\ lock' = r
    /\ pc' = [pc EXCEPT ![r] = IF r \in ServiceAccount THEN "submit" ELSE "get"]
    /\ UNCHANGED <<server, op, cfg, snap, tf>>

(* GetResourceIamPolicy.                                                   *)
GetPolicy(r) ==
    /\ pc[r] = "get"
    /\ exists
    /\ snap' = [snap EXCEPT ![r] = IF r \in IamBinding THEN policy ELSE {}]
    /\ pc' = [pc EXCEPT ![r] = "submit"]
    /\ UNCHANGED <<server, lock, op, cfg, tf>>

(* SetResourceIamPolicy, UpdateResourceIamPolicy (one delta is one batch)  *)
(* or ServiceAccount.Create/Delete: the request is accepted and runs as an *)
(* operation at the server.                                                *)
Submit(r) ==
    /\ pc[r] = "submit"
    /\ exists
    /\ r \in ServiceAccount /\ op[r] = "delete" => r \in accounts
    /\ req' = [req EXCEPT ![r] = Sends(r)]
    /\ pc' = [pc EXCEPT ![r] = "wait"]
    /\ UNCHANGED <<policy, exists, accounts, orphan, lock, op, cfg, snap, tf>>

(* op.Wait returns without error and the resource is read back, except     *)
(* that a deleted policy or account has nothing to read.  The lock is      *)
(* given back first (iamPolicyReadModifySet has returned), except that an  *)
(* account's handler keeps the cloud locked until it returns.              *)
WaitDone(r) ==
    /\ pc[r] = "wait"
    /\ req[r].status = "done"
    /\ req' = [req EXCEPT ![r] = NoReq]
    /\ IF op[r] = "delete" /\ r \in IamPolicy \union ServiceAccount
       THEN Return(r, Absent)
       ELSE /\ pc' = [pc EXCEPT ![r] = "read"]
            /\ lock' = IF lock = r /\ r \notin ServiceAccount THEN NoRes ELSE lock
            /\ snap' = [snap EXCEPT ![r] = {}]
            /\ UNCHANGED <<op, cfg, tf>>
    /\ UNCHANGED <<policy, exists, accounts, orphan>>

(* What Terraform records when a handler returns an error.  Before d.SetId *)
(* a create leaves nothing; after it, and after a failed update, the SDK   *)
(* saves the planned attributes (no handler here uses d.Partial); a failed *)
(* delete or read leaves the state alone, a failed import records nothing. *)
SdkState(r, hasId) ==
    CASE op[r] = "create" -> IF hasId THEN Present(cfg[r]) ELSE Absent
      [] op[r] = "update" -> Present(cfg[r])
      [] op[r] = "import" -> Absent
      [] OTHER -> tf[r]

(* A handler of the framework leaves the prior state.  It loses the errors *)
(* of the read (RefreshBindingState gets its diagnostics by value): then a *)
(* create has no state to show, which is an error after all, an import     *)
(* keeps the role without members, and a delete is done.  A binding that   *)
(* could not be moved here stays where it was.                             *)
FrameworkState(r, reading) ==
    CASE op[r] = "import" -> Present(cfg[r])
      [] op[r] = "delete" /\ reading -> Absent
      [] op[r] \in {"create", "update"} /\ ~tf[r].id -> Absent
      [] OTHER -> tf[r]

FailedState(r, hasId) ==
    IF r \in Framework THEN FrameworkState(r, hasId) ELSE SdkState(r, hasId)

(* Deletes of the SDK's bindings, members and accounts take NotFound for   *)
(* success, everything else takes it for an error.                         *)
Tolerant(r) == op[r] = "delete" /\ r \notin IamPolicy \union Framework

(* NotFound from the call.                                                 *)
CallNotFound(r) ==
    /\ \/ pc[r] \in {"get", "submit"} /\ ~exists
       \/ pc[r] = "submit" /\ r \in ServiceAccount /\ op[r] = "delete"
          /\ r \notin accounts
    /\ Return(r, IF Tolerant(r) THEN Absent ELSE FailedState(r, FALSE))
    /\ UNCHANGED server

(* Any other error of a call made before the operation exists.             *)
CallFails(r) ==
    /\ pc[r] \in {"cloud", "get", "submit"}
    /\ Return(r, FailedState(r, FALSE))
    /\ UNCHANGED server

(* The operation ends with an error, which is NotFound if the resource was *)
(* deleted meanwhile.  The account's handler has set the id from the       *)
(* operation's metadata by then.                                           *)
WaitFails(r) ==
    /\ pc[r] = "wait"
    /\ req[r].status = "failed"
    /\ req' = [req EXCEPT ![r] = NoReq]
    /\ \/ Return(r, FailedState(r, r \in ServiceAccount))
       \/ /\ Tolerant(r) /\ ~exists /\ r \notin ServiceAccount
          /\ Return(r, Absent)
    /\ UNCHANGED <<policy, exists, accounts, orphan>>

(* The deadline of the context passes, or polling fails: op.Wait returns   *)
(* an error while the operation goes on (one at a time per resource).      *)
WaitTimesOut(r) ==
    /\ Timeouts
    /\ pc[r] = "wait"
    /\ orphan[r] = NoReq
    /\ req' = [req EXCEPT ![r] = NoReq]
    /\ orphan' = [orphan EXCEPT ![r] =
                    IF req[r].status = "running" THEN req[r] ELSE NoReq]
    /\ Return(r, FailedState(r, r \in ServiceAccount))
    /\ UNCHANGED <<policy, exists, accounts>>

-----------------------------------------------------------------------------
(* Reading a resource back (resourceAccessBindingRead and its siblings).   *)

(* A binding looks only for the members it has in its data; with none (an  *)
(* import) it takes all the role has.                                      *)
Found(r) ==
    LET there == OfRole(cfg[r].role, policy) IN
    CASE r \in IamBinding ->
            IF cfg[r].grants = {} THEN there ELSE there \intersect cfg[r].grants
      [] r \in IamMember -> policy \intersect {GrantOf(r)}
      [] r \in ServiceAccount -> IF r \in accounts THEN {GrantOf(r)} ELSE {}
      [] OTHER -> policy

(* After a create or an update a binding that is not there is an error,    *)
(* for the framework always.                                               *)
Check(r) ==
    \/ r \in IamBinding /\ op[r] \in {"create", "update"}
    \/ r \in Framework

ReadFinds(r) ==
    /\ pc[r] = "read"
    /\ r \in ServiceAccount \/ exists
    /\ Found(r) # {} \/ r \in IamPolicy
    /\ Return(r, IF op[r] = "delete" THEN Absent
                 ELSE Present([cfg[r] EXCEPT !.grants = Found(r)]))
    /\ UNCHANGED server

ReadMissing(r) ==
    /\ pc[r] = "read"
    /\ r \notin IamPolicy
    /\ r \in ServiceAccount \/ exists
    /\ Found(r) = {}
    /\ Return(r, IF Check(r) THEN FailedState(r, TRUE) ELSE Absent)
    /\ UNCHANGED server

(* The cloud resource is gone: out of the state, but a policy stays in it. *)
ReadNotFound(r) ==
    /\ pc[r] = "read"
    /\ r \notin ServiceAccount
    /\ ~exists
    /\ Return(r, IF Check(r) THEN FailedState(r, TRUE)
                 ELSE IF r \notin IamPolicy THEN Absent
                 ELSE Present(cfg[r]))
    /\ UNCHANGED server

ReadFails(r) ==
    /\ pc[r] = "read"
    /\ Return(r, FailedState(r, TRUE))
    /\ UNCHANGED server

-----------------------------------------------------------------------------
(* The server (external): an operation runs to its end at some time.       *)

Applied(request) ==
    CASE request.kind = "set" -> request.grants
      [] request.kind = "add" -> policy \union request.grants
      [] OTHER -> policy \ request.grants

AccountsAfter(r, request) ==
    IF r \notin ServiceAccount THEN accounts
    ELSE IF request.kind = "add" THEN accounts \union {r} ELSE accounts \ {r}

Apply(r) ==
    /\ req[r] # NoReq
    /\ req[r].status = "running"
    /\ exists
    /\ policy' = Applied(req[r])
    /\ accounts' = AccountsAfter(r, req[r])
    /\ req' = [req EXCEPT ![r].status = "done"]
    /\ UNCHANGED <<exists, orphan, lock, pc, op, cfg, snap, tf>>

OperationFails(r) ==
    /\ req[r] # NoReq
    /\ req[r].status = "running"
    /\ req' = [req EXCEPT ![r].status = "failed"]
    /\ UNCHANGED <<policy, exists, accounts, orphan, lock, pc, op, cfg, snap, tf>>

(* The operation nobody waits for any more.                                *)
ApplyOrphan(r) ==
    /\ orphan[r] # NoReq
    /\ orphan' = [orphan EXCEPT ![r] = NoReq]
    /\ IF exists
       THEN policy' = Applied(orphan[r]) /\ accounts' = AccountsAfter(r, orphan[r])
       ELSE UNCHANGED <<policy, accounts>>
    /\ UNCHANGED <<exists, req, lock, pc, op, cfg, snap, tf>>

(* Somebody deletes the cloud resource.                                    *)
Vanish ==
    /\ exists
    /\ exists' = FALSE
    /\ policy' = {}
    /\ accounts' = {}
    /\ UNCHANGED <<req, orphan, lock, pc, op, cfg, snap, tf>>

-----------------------------------------------------------------------------
Start(r) ==
    \/ CallCreate(r) \/ CallUpdate(r) \/ MoveHere(r) \/ MoveAway(r)
    \/ CallDelete(r) \/ DeleteEmpty(r) \/ CallRead(r) \/ CallImport(r)

Handler(r) ==
    \/ LookupCloud(r) \/ GetPolicy(r) \/ Submit(r)
    \/ WaitDone(r) \/ WaitFails(r) \/ WaitTimesOut(r)
    \/ CallNotFound(r) \/ CallFails(r)
    \/ ReadFinds(r) \/ ReadMissing(r) \/ ReadNotFound(r) \/ ReadFails(r)

Server(r) == Apply(r) \/ OperationFails(r) \/ ApplyOrphan(r)

(* The resources in use are some that the bound Together allows.           *)
Used(r) == tf[r].id \/ pc[r] # "idle" \/ orphan[r] # NoReq
Allowed(r) ==
    \E T \in Together : r \in T /\ \A q \in Resource \ T : ~Used(q)

Next ==
    \/ \E r \in Resource : (Allowed(r) /\ Start(r)) \/ Lock(r) \/ Handler(r) \/ Server(r)
    \/ Vanish

Spec == Init /\ [][Next]_vars

(* Handlers run on, every operation ends, and sync.Mutex is fair to its    *)
(* waiters (see MutexKV); nobody has to call anything.                     *)
Fairness ==
    \A r \in Resource :
        WF_vars(Handler(r)) /\ SF_vars(Lock(r)) /\ WF_vars(Server(r))

FairSpec == Spec /\ Fairness

-----------------------------------------------------------------------------
(* Why the changes are atomic.  AccessInv is inductive when Isolated holds *)
(* (the documentation forbids a policy next to bindings and members).      *)

Isolated ==
    ~Timeouts /\ \A T \in Together : T \intersect IamBinding = {} \/ T \intersect IamPolicy = {}

(* Policies that are replaced as a whole have no rival.                    *)
OnePolicy ==
    \A T \in Together : \A p \in T \intersect IamPolicy :
        T \intersect (IamBinding \union IamPolicy) = {p}

(* "roles controlled by yandex_resourcemanager_folder_iam_binding should   *)
(* not be assigned using yandex_resourcemanager_folder_iam_member"         *)
(* (docs/resources/resourcemanager_folder_iam_member.md:12), and no role   *)
(* passes from one resource to another: the docs do not ask for that, but  *)
(* bindings that exchange their roles in place remove each other's grants. *)
RolesApart ==
    \A T \in Together : \A b \in T \intersect IamBinding, q \in T :
        q # b => q \notin IamPolicy /\ Roles(q) \intersect Roles(b) = {}

Changing(r) == pc[r] \in {"cloud", "lock", "get", "submit", "wait"}
Running(r) == pc[r] = "wait" /\ req[r].status = "running"

(* Which method runs where, on what data.                                  *)
Control(r) ==
    /\ pc[r] = "idle" <=> op[r] = "none"
    /\ Changing(r) => op[r] \in {"create", "update", "delete"}
    /\ op[r] = "update" => r \notin SingleGrant
    /\ r \in SingleGrant /\ op[r] = "create" => cfg[r].grants = {GrantOf(r)}
    /\ r \in IamPolicy => pc[r] \notin {"cloud", "lock", "get"}

(* From Lock to the end of the operation the key is held.                  *)
Holds(r) == r \in Locking /\ pc[r] \in {"get", "submit", "wait"} => lock = r

(* The operation at the server is the one the handler's data describe.     *)
Requested(r) == Running(r) => req[r] = Sends(r)

(* What a binding has read is what the cloud resource still has.           *)
Fresh(r) ==
    r \in IamBinding /\ exists /\ (pc[r] = "submit" \/ Running(r))
        => snap[r] = policy

(* The resources in use are some of those that are used side by side.      *)
UsedTogether == \E T \in Together \union {{}} : \A q \in Resource \ T : ~Used(q)

AccessInv ==
    /\ TypeOK
    /\ UsedTogether
    /\ \A r \in Resource :
          Control(r) /\ Holds(r) /\ Requested(r) /\ Fresh(r) /\ orphan[r] = NoReq

(* The changes a resource is carrying out, as AccessPolicy sees them: from *)
(* the call until the server has applied or refused the operation.         *)
Pending(r) ==
    /\ op[r] \in {"create", "update", "delete"}
    /\ \/ pc[r] \in {"cloud", "lock", "get", "submit"}
       \/ pc[r] = "wait" /\ req[r].status = "running"

Keeps(r) ==
    CASE r \in IamPolicy -> {}
      [] r \in IamBinding /\ op[r] # "create" -> Grant \ OfRole(OldRole(r), Grant)
      [] r \in SingleGrant /\ op[r] = "delete" -> Grant \ {GrantOf(r)}
      [] OTHER -> Grant

Adds(r) == IF op[r] = "delete" THEN {} ELSE cfg[r].grants

Todo == [r \in Resource |->
            IF Pending(r) THEN [keep |-> Keeps(r), add |-> Adds(r)] ELSE NoChange]

Access == INSTANCE AccessPolicy WITH todo <- Todo

(* What a binding configures are grants of one of its roles; and from the  *)
(* end of its operation until it has read them back they are there, and    *)
(* after an update of the role in the state there are no others of it.     *)
Written(r) ==
    r \in IamBinding =>
        /\ op[r] # "none" => cfg[r].role \in RolesOf[r]
        /\ tf[r].id \/ op[r] = "update" => tf[r].role \in RolesOf[r]
        /\ op[r] \in {"create", "update"}
              => cfg[r].grants \subseteq {cfg[r].role} \X Principal

AreThere(r) == cfg[r].grants \subseteq policy
NoOthers(r) == OfRole(tf[r].role, policy) \subseteq cfg[r].grants
NoneLeft(r) == OfRole(cfg[r].role, policy) = {}

Stays(r) ==
    r \in IamBinding /\ exists /\ (pc[r] = "read" \/ (pc[r] = "wait" /\ req[r].status = "done")) =>
        /\ op[r] \in {"create", "update"} => AreThere(r)
        /\ op[r] = "update" => NoOthers(r)
        /\ op[r] = "delete" => NoneLeft(r)

AppliedInv == AccessInv /\ \A r \in Resource : Written(r) /\ Stays(r)

(* Every change of a binding, a member or an account is atomic: it applies *)
(* to the grants the cloud resource has at that moment, although a binding *)
(* reads the policy long before the server applies its new one (iam.go:46  *)
(* to 75), and it touches no grant of another resource.                    *)
ImplementsAccessPolicy == Access!Spec

(* GetMutexKey, iam.go:28: "A mutex guards against concurrent call to the  *)
(* SetResourceIamPolicy method": never two replacements of the policy are  *)
(* under way at the server, those of callers that gave up included.        *)
Setting ==
    {<<req[r], r>> : r \in {q \in Resource :
        req[q] # NoReq /\ req[q].kind = "set" /\ req[q].status = "running"}}
    \union
    {<<orphan[r], r, "orphan">> : r \in {q \in Resource :
        orphan[q] # NoReq /\ orphan[q].kind = "set"}}

OneSetAtATime == \A a, b \in Setting : a = b

(* docs/resources/iam_service_account_iam_binding.md:15: "Other roles      *)
(* within the IAM policy for the service account are preserved" by every   *)
(* operation of a binding, whenever the server applies it.                 *)
OtherRolesPreserved ==
    [][\A r \in IamBinding :
        Apply(r) \/ ApplyOrphan(r)
            => \A role \in Role \ RolesOf[r] :
                  OfRole(role, policy') = OfRole(role, policy)]_vars

(* A binding whose create or update succeeded has what was configured: its *)
(* grants are at the server and the state says so; after an update nothing *)
(* else is left of the role that was in the state: members that are not in *)
(* the plan, or, if the framework changed the role, all of the old one's   *)
(* (what the new role had besides stays, and is not denied here).  A       *)
(* deleted one has left nothing.  The read that decides this runs after    *)
(* the lock was given back.                                                *)
SuccessMeansApplied ==
    [][\A r \in IamBinding :
        /\ ReadFinds(r) /\ op[r] \in {"create", "update"} /\ cfg[r].grants # {}
              => /\ AreThere(r)
                 /\ op[r] = "update" => NoOthers(r)
                 /\ tf'[r] = Present(cfg[r])
        /\ (ReadFinds(r) \/ ReadMissing(r)) /\ op[r] = "delete" => NoneLeft(r)]_vars

(* resourceAccessBindingCreate, iam_binding.go:67-71: members that were    *)
(* there before are kept, "Instead, a diff is shown in that case after     *)
(* creation": the recorded state then differs from the configuration.      *)
DiffShownAfterCreate ==
    [][\A r \in IamBinding :
        ReadFinds(r) /\ op[r] = "create" /\ OfRole(cfg[r].role, policy) # cfg[r].grants
            => tf'[r].grants # cfg[r].grants]_vars

(* Every call returns, however the others hold the lock and whatever fails *)
(* (iam.go:48-49, utils.go:125-136).                                       *)
HandlersReturn == \A r \in Resource : pc[r] # "idle" ~> pc[r] = "idle"
=============================================================================
