--------------------------- MODULE IamAccess_proof ---------------------------
(***************************************************************************)
(* IamAccess for any set of resources, roles and principals: no handler    *)
(* keeps the lock (TypeOK), changes of isolated resources are atomic       *)
(* (AccessInv, ImplementsAccessPolicy), and without a policy resource and  *)
(* without timeouts policies are replaced one at a time (OneSetAtATime).   *)
(***************************************************************************)
EXTENDS IamAccess, TLAPS

(* The values the handlers compute have the right types.                   *)
LEMMA GrantOfType ==
  ASSUME NEW r \in SingleGrant
  PROVE  GrantOf(r) \in Grant
  BY IamAccessAssumption DEF GrantOf, Grant, SingleGrant

(* A handler sends a request that the API has not answered yet.            *)
LEMMA SendsType ==
  ASSUME TypeOK, NEW r \in Resource
  PROVE  Sends(r) \in Request /\ Sends(r) # NoReq /\ Sends(r).status = "running"
<1>1. snap[r] \in SUBSET Grant /\ cfg[r].grants \in SUBSET Grant
  BY DEF TypeOK, Data
<1>2. r \in SingleGrant => {GrantOf(r)} \in SUBSET Grant
  BY GrantOfType
<1>3. \A k \in {"set", "add", "remove"}, S \in SUBSET Grant :
         LET q == [kind |-> k, grants |-> S, status |-> "running"]
         IN  q \in Request /\ q # NoReq /\ q.status = "running"
  BY IamAccessAssumption DEF Request
<1>4. /\ MergeBindings(snap[r], cfg[r].grants) \in SUBSET Grant
      /\ RemoveRoleFromBindings(OldRole(r), snap[r]) \in SUBSET Grant
      /\ RemoveRoleFromBindings(OldRole(r), snap[r]) \union cfg[r].grants \in SUBSET Grant
      /\ {} \in SUBSET Grant
  BY <1>1 DEF MergeBindings, RemoveRoleFromBindings
<1> QED BY <1>1, <1>2, <1>3, <1>4 DEF Sends

(* What Terraform keeps of a method that failed is a state.                *)
LEMMA FailedStateType ==
  ASSUME TypeOK, NEW r \in Resource, NEW b \in BOOLEAN
  PROVE  FailedState(r, b) \in TfState
<1>1. Absent \in TfState /\ tf[r] \in TfState /\ Present(cfg[r]) \in TfState
  BY DEF TypeOK, TfState, Present, Absent, Data
<1> QED BY <1>1 DEF FailedState, SdkState, FrameworkState

(* So is what a read finds.                                                *)
LEMMA FoundType ==
  ASSUME TypeOK, NEW r \in Resource
  PROVE  Present([cfg[r] EXCEPT !.grants = Found(r)]) \in TfState
<1>1. r \in SingleGrant => {GrantOf(r)} \in SUBSET Grant
  BY GrantOfType
<1>2. Found(r) \in SUBSET Grant
  BY <1>1 DEF TypeOK, Found, OfRole, SingleGrant
<1>3. cfg[r] \in Data
  BY DEF TypeOK
<1> QED BY <1>2, <1>3 DEF Present, TfState, Data

(* What the user writes is data, a binding's of a role it may be written   *)
(* with and with grants of this role.                                      *)
LEMMA ConfigType ==
  ASSUME NEW r \in Resource, NEW d \in Config(r)
  PROVE  /\ d \in Data
         /\ r \in IamBinding => d.role \in RolesOf[r] /\ d.grants \subseteq {d.role} \X Principal
         /\ r \in SingleGrant => d.grants = {GrantOf(r)}
<1>1. CASE r \in IamBinding
  <2>1. PICK x \in RolesOf[r] : d \in [role : {x}, grants : SUBSET ({x} \X Principal)]
    BY <1>1, IamAccessAssumption DEF Config, SingleGrant
  <2>2. d = [role |-> x, grants |-> d.grants] /\ d.grants \subseteq {x} \X Principal
    BY <2>1
  <2>3. x \in Role
    BY <1>1, <2>1, IamAccessAssumption
  <2>4. {x} \X Principal \subseteq Role \X Principal
    BY <2>3
  <2>5. d \in Data
    BY <2>2, <2>3, <2>4 DEF Data, Grant
  <2>6. d.role = x
    BY <2>1
  <2> QED BY <1>1, <2>1, <2>2, <2>5, <2>6, IamAccessAssumption DEF SingleGrant
<1>2. CASE r \in SingleGrant
  <2>1. d \in [role : {NoRole}, grants : {{GrantOf(r)}}]
    BY <1>2, IamAccessAssumption DEF Config, SingleGrant
  <2>2. d \in Data /\ d.grants = {GrantOf(r)}
    BY <1>2, <2>1, GrantOfType DEF Data
  <2> QED BY <1>2, <2>2, IamAccessAssumption DEF SingleGrant
<1>3. CASE r \notin IamBinding /\ r \notin SingleGrant
  <2>1. d \in [role : {NoRole}, grants : SUBSET PolicyGrants]
    BY <1>3 DEF Config
  <2>2. PolicyGrants \subseteq Grant
    BY IamAccessAssumption
  <2> QED BY <1>3, <2>1, <2>2 DEF Data
<1> QED BY <1>1, <1>2, <1>3

(* An operation leaves grants and service accounts.                        *)
LEMMA AppliedType ==
  ASSUME TypeOK, NEW r \in Resource, NEW q \in Request
  PROVE  Applied(q) \in SUBSET Grant /\ AccountsAfter(r, q) \in SUBSET ServiceAccount
  BY DEF TypeOK, Request, Applied, AccountsAfter

(* A handler that returns leaves everything typed and the lock given back. *)
LEMMA ReturnType ==
  ASSUME TypeOK, NEW r \in Resource, NEW st \in TfState, Return(r, st),
         UNCHANGED <<policy, exists, accounts>>,
         orphan' \in [Resource -> Request \union {NoReq}],
         \/ req' = req /\ pc[r] # "wait"
         \/ req' = [req EXCEPT ![r] = NoReq]
  PROVE  TypeOK'
<1>1. NoRes \notin Resource
  BY IamAccessAssumption
<1>2. NoData \in Data
  BY DEF NoData, Data
<1> QED BY <1>1, <1>2 DEF TypeOK, Return, Location, Method

(* A method that is called.                                                *)
LEMMA CallType ==
  ASSUME TypeOK, NEW r \in Resource, NEW m \in Method, NEW d \in Data,
         NEW l \in Location \ {"wait"}, Call(r, m, d, l),
         tf' \in [Resource -> TfState]
  PROVE  TypeOK'
  BY DEF TypeOK, Call, server

(* Each way to call a method keeps the types.                              *)
LEMMA StartType ==
  ASSUME TypeOK, NEW r \in Resource, Start(r)
  PROVE  TypeOK'
<1>0. First(r) \in Location \ {"wait"}
  BY DEF First, Location
<1>a. /\ tf \in [Resource -> TfState] /\ Absent \in TfState /\ StateData(r) \in Data
      /\ \A d \in Config(r) : d \in Data
  BY ConfigType DEF TypeOK, TfState, Absent, StateData, Data
<1>1. CASE CallCreate(r)
  BY <1>0, <1>a, <1>1, CallType DEF CallCreate, Method
<1>2. CASE CallUpdate(r)
  BY <1>0, <1>a, <1>2, CallType DEF CallUpdate, Method
<1>3. CASE MoveHere(r)
  <2>1. PICK d \in Config(r) : Call(r, "update", d, First(r))
    BY <1>3 DEF MoveHere
  <2>2. PICK x \in RolesOf[r] : tf' = [tf EXCEPT ![r].role = x]
    BY <1>3 DEF MoveHere
  <2>3. x \in Role
    BY <1>3, <2>2, IamAccessAssumption DEF MoveHere
  <2>4. [tf[r] EXCEPT !.role = x] \in TfState
    BY <1>a, <2>3 DEF TfState
  <2>5. tf' \in [Resource -> TfState]
    BY <1>a, <2>2, <2>4
  <2> QED BY <1>0, <1>a, <2>1, <2>5, CallType DEF Method
<1>4. CASE MoveAway(r) \/ DeleteEmpty(r)
  BY <1>4, <1>a DEF MoveAway, DeleteEmpty, TypeOK, server
<1>5. CASE CallDelete(r)
  BY <1>0, <1>a, <1>5, CallType DEF CallDelete, Method
<1>6. CASE CallRead(r)
  BY <1>a, <1>6, CallType DEF CallRead, Method, Location
<1>7. CASE CallImport(r)
  BY <1>a, <1>7, CallType DEF CallImport, Method, Location
<1> QED BY <1>1, <1>2, <1>3, <1>4, <1>5, <1>6, <1>7 DEF Start

(* So does each step of a handler.                                         *)
LEMMA HandlerType ==
  ASSUME TypeOK, NEW r \in Resource, Handler(r) \/ Lock(r)
  PROVE  TypeOK'
<1>0. Absent \in TfState
  BY DEF Absent, TfState
<1>1. CASE LookupCloud(r)
  BY <1>1 DEF LookupCloud, TypeOK, Location, server
<1>2. CASE Lock(r)
  BY <1>2, IamAccessAssumption DEF Lock, TypeOK, Location, server
<1>3. CASE GetPolicy(r)
  BY <1>3 DEF GetPolicy, TypeOK, Location, server
<1>4. CASE Submit(r)
  BY <1>4, SendsType DEF Submit, TypeOK, Location
<1>5. CASE WaitDone(r)
  <2>1. CASE op[r] = "delete" /\ r \in IamPolicy \union ServiceAccount
    <3>1. orphan' \in [Resource -> Request \union {NoReq}]
      BY <1>5 DEF WaitDone, TypeOK
    <3> QED BY <1>5, <2>1, <1>0, <3>1, ReturnType DEF WaitDone
  <2>2. CASE ~(op[r] = "delete" /\ r \in IamPolicy \union ServiceAccount)
    BY <1>5, <2>2, IamAccessAssumption DEF WaitDone, TypeOK, Location
  <2> QED BY <2>1, <2>2
<1>6. CASE WaitFails(r)
  <2>1. orphan' \in [Resource -> Request \union {NoReq}]
    BY <1>6 DEF WaitFails, TypeOK
  <2>2. (r \in ServiceAccount) \in BOOLEAN
    OBVIOUS
  <2> QED BY <1>6, <1>0, <2>1, <2>2, ReturnType, FailedStateType DEF WaitFails
<1>7. CASE WaitTimesOut(r)
  <2>1. orphan' \in [Resource -> Request \union {NoReq}]
    BY <1>7 DEF WaitTimesOut, TypeOK
  <2>2. (r \in ServiceAccount) \in BOOLEAN
    OBVIOUS
  <2> QED BY <1>7, <2>1, <2>2, ReturnType, FailedStateType DEF WaitTimesOut
<1>8. ASSUME CallNotFound(r) \/ CallFails(r) \/ ReadFinds(r) \/ ReadMissing(r)
             \/ ReadNotFound(r) \/ ReadFails(r)
      PROVE  TypeOK'
  <2>1. /\ UNCHANGED server
        /\ pc[r] # "wait"
        /\ orphan' \in [Resource -> Request \union {NoReq}]
    BY <1>8 DEF CallNotFound, CallFails, ReadFinds, ReadMissing, ReadNotFound,
                ReadFails, server, TypeOK
  <2>2. \E st \in TfState : Return(r, st)
    <3>1. FailedState(r, FALSE) \in TfState /\ FailedState(r, TRUE) \in TfState
      BY FailedStateType
    <3>2. /\ Present([cfg[r] EXCEPT !.grants = Found(r)]) \in TfState
          /\ Present(cfg[r]) \in TfState
      BY FoundType DEF TypeOK, Present, TfState, Data
    <3> QED BY <1>0, <1>8, <3>1, <3>2
            DEF CallNotFound, CallFails, ReadFinds, ReadMissing, ReadNotFound, ReadFails
  <2> QED BY <2>1, <2>2, ReturnType DEF server
<1> QED BY <1>1, <1>2, <1>3, <1>4, <1>5, <1>6, <1>7, <1>8 DEF Handler

(* So does each step of the API.                                           *)
LEMMA ServerType ==
  ASSUME TypeOK, NEW r \in Resource, Server(r)
  PROVE  TypeOK'
<1>1. CASE Apply(r)
  <2>1. req[r] \in Request
    BY <1>1 DEF Apply, TypeOK
  <2>2. [req[r] EXCEPT !.status = "done"] \in Request
    BY <2>1 DEF Request
  <2>3. [req[r] EXCEPT !.status = "done"] # NoReq
    BY <2>2, IamAccessAssumption DEF Request
  <2> QED BY <1>1, <2>1, <2>2, <2>3, AppliedType DEF Apply, TypeOK
<1>2. CASE OperationFails(r)
  <2>1. req[r] \in Request
    BY <1>2 DEF OperationFails, TypeOK
  <2>2. [req[r] EXCEPT !.status = "failed"] \in Request
    BY <2>1 DEF Request
  <2>3. [req[r] EXCEPT !.status = "failed"] # NoReq
    BY <2>2, IamAccessAssumption DEF Request
  <2> QED BY <1>2, <2>1, <2>2, <2>3 DEF OperationFails, TypeOK
<1>3. CASE ApplyOrphan(r)
  <2>1. orphan[r] \in Request
    BY <1>3 DEF ApplyOrphan, TypeOK
  <2> QED BY <1>3, <2>1, AppliedType DEF ApplyOrphan, TypeOK
<1> QED BY <1>1, <1>2, <1>3 DEF Server

(* The state is empty, nothing runs, the lock is free.                     *)
LEMMA TypeInit == Init => TypeOK
  BY IamAccessAssumption DEF Init, TypeOK, Location, Method, TfState, Absent, Data, NoData

(* Every step keeps the types.                                             *)
LEMMA TypeStep == TypeOK /\ [Next]_vars => TypeOK'
<1> SUFFICES ASSUME TypeOK, [Next]_vars PROVE TypeOK' OBVIOUS
<1>1. CASE UNCHANGED vars
  BY <1>1 DEF vars, TypeOK
<1>2. CASE Vanish
  BY <1>2 DEF Vanish, TypeOK
<1>3. ASSUME NEW r \in Resource, Start(r) \/ Lock(r) \/ Handler(r) \/ Server(r)
      PROVE  TypeOK'
  BY <1>3, StartType, HandlerType, ServerType
<1> QED BY <1>1, <1>2, <1>3 DEF Next

(* Types, no lock kept by a handler that has returned (iam.go:48-49), and  *)
(* waiting exactly while there is an operation.                            *)
THEOREM TypeCorrect == Spec => []TypeOK
  BY TypeInit, TypeStep, PTL DEF Spec

-----------------------------------------------------------------------------
(* A step of r leaves the others' handlers, requests and locks alone, and  *)
(* only the server changes the policy.                                     *)
LEMMA Frame ==
  ASSUME TypeOK, NEW r \in Resource, NEW q \in Resource, q # r,
         Start(r) \/ Lock(r) \/ Handler(r) \/ Server(r)
  PROVE  /\ pc'[q] = pc[q] /\ op'[q] = op[q] /\ cfg'[q] = cfg[q]
         /\ snap'[q] = snap[q] /\ req'[q] = req[q] /\ orphan'[q] = orphan[q]
         /\ tf'[q] = tf[q]
         /\ lock = q => lock' = q
<1> USE DEF TypeOK
<1>1. CASE Start(r)
  BY <1>1 DEF Start, CallCreate, CallUpdate, MoveHere, MoveAway, CallDelete, DeleteEmpty,
              CallRead, CallImport, Call, server
<1>2. CASE Lock(r)
  BY <1>2, IamAccessAssumption DEF Lock, server
<1>3. CASE LookupCloud(r) \/ GetPolicy(r) \/ Submit(r)
  BY <1>3 DEF LookupCloud, GetPolicy, Submit, server
<1>4. CASE WaitDone(r) \/ WaitFails(r) \/ WaitTimesOut(r)
  BY <1>4 DEF WaitDone, WaitFails, WaitTimesOut, Return
<1>5. CASE CallNotFound(r) \/ CallFails(r)
  BY <1>5 DEF CallNotFound, CallFails, Return, server
<1>6. CASE ReadFinds(r) \/ ReadMissing(r) \/ ReadNotFound(r) \/ ReadFails(r)
  BY <1>6 DEF ReadFinds, ReadMissing, ReadNotFound, ReadFails, Return, server
<1>7. CASE Server(r)
  BY <1>7 DEF Server, Apply, OperationFails, ApplyOrphan
<1> QED BY <1>1, <1>2, <1>3, <1>4, <1>5, <1>6, <1>7 DEF Handler

(* Who changes the policy: nobody but the server, and it never brings the  *)
(* cloud resource back.                                                    *)
LEMMA PolicyFrame ==
  ASSUME NEW r \in Resource, Start(r) \/ Lock(r) \/ Handler(r) \/ Server(r)
  PROVE  exists' = exists /\ (policy' = policy \/ Apply(r) \/ ApplyOrphan(r))
<1>1. CASE Start(r)
  BY <1>1 DEF Start, CallCreate, CallUpdate, MoveHere, MoveAway, CallDelete, DeleteEmpty,
              CallRead, CallImport, Call, server
<1>2. CASE Lock(r)
  BY <1>2 DEF Lock, server
<1>3. CASE Handler(r)
  BY <1>3 DEF Handler, LookupCloud, GetPolicy, Submit, WaitDone, WaitFails,
              WaitTimesOut, CallNotFound, CallFails, ReadFinds, ReadMissing,
              ReadNotFound, ReadFails, server
<1>4. CASE Server(r)
  BY <1>4 DEF Server, Apply, OperationFails, ApplyOrphan
<1> QED BY <1>1, <1>2, <1>3, <1>4

(* A method that is called starts with the invariant's parts.              *)
LEMMA OwnStart ==
  ASSUME AccessInv, TypeOK', NEW r \in Resource, Start(r)
  PROVE  (Control(r) /\ Holds(r) /\ Requested(r) /\ Fresh(r) /\ orphan[r] = NoReq)'
<1> USE DEF AccessInv, TypeOK
<1>0. First(r) \in {"cloud", "lock", "submit"}
      /\ (r \in IamPolicy => First(r) = "submit")
      /\ (r \in Locking => First(r) # "submit")
  BY IamAccessAssumption DEF First, Locking
<1>1. CASE CallCreate(r)
  <2>1. r \in SingleGrant => \A d \in Config(r) : d.grants = {GrantOf(r)}
    BY ConfigType
  <2>2. r \in IamBinding => r \in Locking
    BY DEF Locking
  <2>3. r \in SingleGrant => cfg'[r].grants = {GrantOf(r)}
    BY <1>1, <2>1 DEF CallCreate, Call
  <2> QED BY <1>0, <1>1, <2>2, <2>3, IamAccessAssumption
          DEF CallCreate, Call, server, Control, Holds, Requested, Fresh, Running,
              Changing, GrantOf
<1>2. CASE CallUpdate(r) \/ MoveHere(r)
  <2>1. r \in IamBinding => r \in Locking
    BY DEF Locking
  <2>2. r \notin SingleGrant
    BY <1>2, IamAccessAssumption DEF CallUpdate, MoveHere, SingleGrant
  <2> QED BY <1>0, <1>2, <2>1, <2>2 DEF CallUpdate, MoveHere, Call, server, Control,
              Holds, Requested, Fresh, Running, Changing
<1>3. CASE CallDelete(r)
  <2>1. r \in IamBinding => r \in Locking
    BY DEF Locking
  <2> QED BY <1>0, <1>3, <2>1 DEF CallDelete, Call, server, Control, Holds,
              Requested, Fresh, Running, Changing
<1>4. CASE DeleteEmpty(r) \/ MoveAway(r)
  BY <1>4 DEF DeleteEmpty, MoveAway, server, Control, Holds, Requested, Fresh, Running,
              Changing
<1>5. CASE CallRead(r)
  BY <1>5 DEF CallRead, Call, server, Control, Holds, Requested, Fresh, Running,
              Changing
<1>6. CASE CallImport(r)
  BY <1>6 DEF CallImport, Call, server, Control, Holds, Requested, Fresh, Running,
              Changing
<1> QED BY <1>1, <1>2, <1>3, <1>4, <1>5, <1>6 DEF Start

(* A handler that has returned owes nothing.                               *)
LEMMA OwnReturn ==
  ASSUME AccessInv, TypeOK', NEW r \in Resource, NEW st, Return(r, st),
         orphan'[r] = NoReq
  PROVE  (Control(r) /\ Holds(r) /\ Requested(r) /\ Fresh(r) /\ orphan[r] = NoReq)'
  BY DEF AccessInv, TypeOK, Return, Control, Holds, Requested, Fresh, Running, Changing

(* A step of a handler or of the server on its behalf keeps its own parts. *)
LEMMA OwnStep ==
  ASSUME ~Timeouts, AccessInv, TypeOK', NEW r \in Resource,
         Lock(r) \/ Handler(r) \/ Server(r)
  PROVE  (Control(r) /\ Holds(r) /\ Requested(r) /\ Fresh(r) /\ orphan[r] = NoReq)'
<1> USE DEF AccessInv, TypeOK
<1>a. (Control(r) /\ Holds(r) /\ Requested(r) /\ Fresh(r) /\ orphan[r] = NoReq)
  OBVIOUS
<1>1. CASE LookupCloud(r)
  BY <1>1, <1>a DEF LookupCloud, server, Control, Holds, Requested, Fresh, Running,
              Changing
<1>2. CASE Lock(r)
  <2>1. pc'[r] \in {"get", "submit"} /\ (r \in IamBinding => pc'[r] = "get")
    BY <1>2, IamAccessAssumption DEF Lock
  <2>2. lock' = r /\ pc[r] = "lock" /\ UNCHANGED <<op, cfg, snap, server>>
    BY <1>2 DEF Lock
  <2>3. Control(r)'
    BY <1>a, <2>1, <2>2 DEF Control, Changing
  <2>4. Holds(r)' /\ Requested(r)' /\ Fresh(r)' /\ orphan'[r] = NoReq
    BY <1>a, <2>1, <2>2 DEF Holds, Requested, Fresh, Running, server
  <2> QED BY <2>3, <2>4
<1>3. CASE GetPolicy(r)
  BY <1>3, <1>a DEF GetPolicy, server, Control, Holds, Requested, Fresh, Running,
              Changing
<1>4. CASE Submit(r)
  <2>1. Sends(r)' = Sends(r)
    BY <1>4 DEF Submit, Sends
  <2>2. req'[r] = Sends(r)
    BY <1>4 DEF Submit
  <2>3. (Control(r) /\ Holds(r) /\ Fresh(r) /\ orphan[r] = NoReq)'
    BY <1>4, <1>a DEF Submit, Control, Holds, Fresh, Running, Changing
  <2> QED BY <2>1, <2>2, <2>3 DEF Requested
<1>5. CASE WaitDone(r)
  <2>1. CASE op[r] = "delete" /\ r \in IamPolicy \union ServiceAccount
    BY <1>5, <1>a, <2>1, OwnReturn DEF WaitDone
  <2>2. CASE ~(op[r] = "delete" /\ r \in IamPolicy \union ServiceAccount)
    BY <1>5, <1>a, <2>2 DEF WaitDone, Control, Holds, Requested, Fresh, Running,
              Changing
  <2> QED BY <2>1, <2>2
<1>6. CASE WaitFails(r)
  BY <1>6, <1>a, OwnReturn DEF WaitFails
<1>7. CASE WaitTimesOut(r)
  BY <1>7 DEF WaitTimesOut
<1>8. CASE CallNotFound(r) \/ CallFails(r)
  BY <1>8, <1>a, OwnReturn DEF CallNotFound, CallFails, server
<1>9. CASE ReadFinds(r) \/ ReadMissing(r) \/ ReadNotFound(r) \/ ReadFails(r)
  BY <1>9, <1>a, OwnReturn
  DEF ReadFinds, ReadMissing, ReadNotFound, ReadFails, server
<1>10. CASE Apply(r)
  <2>1. req'[r].status = "done"
    BY <1>10 DEF Apply, Request
  <2> QED BY <1>10, <1>a, <2>1 DEF Apply, Control, Holds, Requested, Fresh, Running,
              Changing
<1>11. CASE OperationFails(r)
  <2>1. req'[r].status = "failed"
    BY <1>11 DEF OperationFails, Request
  <2> QED BY <1>11, <1>a, <2>1 DEF OperationFails, Control, Holds, Requested, Fresh,
              Running, Changing
<1>12. CASE ApplyOrphan(r)
  BY <1>12, <1>a DEF ApplyOrphan
<1> QED BY <1>1, <1>2, <1>3, <1>4, <1>5, <1>6, <1>7, <1>8, <1>9, <1>10, <1>11, <1>12
        DEF Handler, Server

(* Who takes a step is one of those that are used side by side.            *)
LEMMA UsedStep ==
  ASSUME TypeOK, UsedTogether, NEW r \in Resource,
         (Allowed(r) /\ Start(r)) \/ Lock(r) \/ Handler(r) \/ Server(r)
  PROVE  \E T \in Together : r \in T /\ (\A q \in Resource \ T : ~Used(q))
                             /\ (\A q \in Resource \ T : ~Used(q))'
<1>1. \E T \in Together : r \in T /\ \A q \in Resource \ T : ~Used(q)
  <2>1. CASE Allowed(r)
    BY <2>1 DEF Allowed
  <2>2. CASE Lock(r) \/ Handler(r) \/ Server(r)
    <3>1. Used(r)
      BY <2>2 DEF Used, Lock, Handler, Server, LookupCloud, GetPolicy, Submit, WaitDone,
                  WaitFails, WaitTimesOut, CallNotFound, CallFails, ReadFinds, ReadMissing,
                  ReadNotFound, ReadFails, Apply, OperationFails, ApplyOrphan, TypeOK
    <3> QED BY <3>1 DEF UsedTogether
  <2> QED BY <2>1, <2>2
<1>2. PICK T \in Together : r \in T /\ \A q \in Resource \ T : ~Used(q)
  BY <1>1
<1>3. ASSUME NEW q \in Resource \ T PROVE ~Used(q)'
  <2>1. pc'[q] = pc[q] /\ orphan'[q] = orphan[q] /\ tf'[q] = tf[q]
    BY <1>2, Frame
  <2> QED BY <1>2, <2>1 DEF Used
<1> QED BY <1>2, <1>3

(* The lock is what keeps a binding's copy of the policy up to date: while *)
(* it holds the key nobody else has an operation under way.                *)
LEMMA OthersStep ==
  ASSUME Isolated, AccessInv, NEW r \in Resource, NEW q \in Resource, q # r,
         (Allowed(r) /\ Start(r)) \/ Lock(r) \/ Handler(r) \/ Server(r)
  PROVE  (Control(q) /\ Holds(q) /\ Requested(q) /\ Fresh(q) /\ orphan[q] = NoReq)'
<1>a. Control(q) /\ Holds(q) /\ Requested(q) /\ Fresh(q) /\ orphan[q] = NoReq
  BY DEF AccessInv
<1>b. /\ pc'[q] = pc[q] /\ op'[q] = op[q] /\ cfg'[q] = cfg[q]
      /\ snap'[q] = snap[q] /\ req'[q] = req[q] /\ orphan'[q] = orphan[q]
      /\ tf'[q] = tf[q]
      /\ lock = q => lock' = q
  BY Frame DEF AccessInv
<1>1. Control(q)' /\ Holds(q)' /\ orphan'[q] = NoReq
  BY <1>a, <1>b DEF Control, Holds, Changing
<1>2. Requested(q)'
  BY <1>a, <1>b DEF Requested, Running, Sends, OldRole
<1>3. Fresh(q)'
  <2> SUFFICES ASSUME q \in IamBinding, exists', pc[q] = "submit" \/ Running(q)
               PROVE  policy' = policy
    BY <1>a, <1>b, PolicyFrame DEF Fresh, Running
  <2>1. lock = q
    BY <1>a DEF Holds, Locking, Running
  <2>2. ~ApplyOrphan(r)
    BY DEF AccessInv, ApplyOrphan
  <2>3. ~Apply(r)
    <3> SUFFICES ASSUME Apply(r) PROVE FALSE
      OBVIOUS
    <3>1. pc[r] = "wait"
      BY DEF Apply, AccessInv, TypeOK
    <3>2. r \in Locking
      <4>1. PICK T \in Together : r \in T /\ \A x \in Resource \ T : ~Used(x)
        BY UsedStep DEF AccessInv
      <4>2. q \in T
        BY <4>1 DEF Used, Running
      <4> QED BY <4>1, <4>2 DEF Isolated, Resource, Locking
    <3>3. lock = r
      BY <3>1, <3>2 DEF AccessInv, Holds
    <3> QED BY <2>1, <3>3
  <2> QED BY <2>2, <2>3, PolicyFrame
<1> QED BY <1>1, <1>2, <1>3

(* The invariant behind the two theorems that follow.                      *)
LEMMA AccessInvStep ==
  ASSUME Isolated, AccessInv, TypeOK', [Next]_vars
  PROVE  AccessInv'
<1>1. CASE UNCHANGED vars
  <2>1. UsedTogether'
    BY <1>1 DEF vars, AccessInv, UsedTogether, Used
  <2> QED BY <1>1, <2>1 DEF vars, AccessInv, TypeOK, Control, Holds, Requested, Fresh,
              Running, Changing, Sends, OldRole
<1>2. CASE Vanish
  <2>1. UNCHANGED <<req, orphan, lock, pc, op, cfg, snap, tf>> /\ exists' = FALSE
    BY <1>2 DEF Vanish
  <2>2. UsedTogether'
    BY <2>1 DEF AccessInv, UsedTogether, Used
  <2> SUFFICES ASSUME NEW q \in Resource
               PROVE  (Control(q) /\ Holds(q) /\ Requested(q) /\ Fresh(q)
                        /\ orphan[q] = NoReq)'
    BY <2>2 DEF AccessInv
  <2> QED BY <2>1 DEF AccessInv, Control, Holds, Requested, Fresh, Running,
              Changing, Sends, OldRole
<1>3. ASSUME NEW r \in Resource,
             (Allowed(r) /\ Start(r)) \/ Lock(r) \/ Handler(r) \/ Server(r)
      PROVE  AccessInv'
  <2>0. UsedTogether'
    <3>1. \E T \in Together : (\A q \in Resource \ T : ~Used(q))'
      BY <1>3, UsedStep DEF AccessInv
    <3> QED BY <3>1 DEF UsedTogether
  <2> SUFFICES ASSUME NEW q \in Resource
               PROVE  (Control(q) /\ Holds(q) /\ Requested(q) /\ Fresh(q)
                        /\ orphan[q] = NoReq)'
    BY <2>0 DEF AccessInv
  <2>1. CASE q # r
    BY <1>3, <2>1, OthersStep
  <2>2. CASE q = r /\ Start(r)
    BY <2>2, OwnStart
  <2>3. CASE q = r /\ (Lock(r) \/ Handler(r) \/ Server(r))
    BY <2>3, OwnStep DEF Isolated
  <2> QED BY <1>3, <2>1, <2>2, <2>3
<1> QED BY <1>1, <1>2, <1>3 DEF Next

(* The inductive invariant: each handler holds the key from Lock to the    *)
(* end of its operation, so what a binding has read is still so when its   *)
(* policy is applied.                                                      *)
THEOREM AccessInvariant == Isolated => (Spec => []AccessInv)
<1> SUFFICES ASSUME Isolated PROVE Spec => []AccessInv OBVIOUS
<1>1. Init => AccessInv
  <2> SUFFICES ASSUME Init PROVE AccessInv OBVIOUS
  <2>1. TypeOK
    BY TypeInit
  <2>2. UsedTogether
    BY DEF Init, UsedTogether, Used, Absent
  <2> QED BY <2>1, <2>2 DEF Init, AccessInv, Control, Holds, Requested, Fresh, Running,
              Changing
<1>2. AccessInv /\ [Next]_vars => AccessInv'
  <2> SUFFICES ASSUME AccessInv, [Next]_vars PROVE AccessInv' OBVIOUS
  <2>1. TypeOK'
    BY TypeStep DEF AccessInv
  <2> QED BY <2>1, AccessInvStep
<1> QED BY <1>1, <1>2, PTL DEF Spec

-----------------------------------------------------------------------------
(* What a resource is carrying out is a change in AccessPolicy's sense.    *)
LEMMA ChangeType ==
  ASSUME TypeOK, NEW r \in Resource
  PROVE  /\ [keep |-> Keeps(r), add |-> Adds(r)] \in Access!Change
         /\ [keep |-> Keeps(r), add |-> Adds(r)] # NoChange
<1>1. Keeps(r) \in SUBSET Grant
  BY DEF Keeps
<1>2. Adds(r) \in SUBSET Grant
  BY DEF Adds, TypeOK, Data
<1> QED BY <1>1, <1>2, IamAccessAssumption DEF Access!Change

(* A step of r changes Todo at r only.                                     *)
LEMMA TodoFrame ==
  ASSUME TypeOK, NEW r \in Resource,
         Start(r) \/ Lock(r) \/ Handler(r) \/ Server(r)
  PROVE  Todo' = [Todo EXCEPT ![r] = Todo'[r]]
<1>1. ASSUME NEW q \in Resource, q # r PROVE Todo'[q] = Todo[q]
  <2>1. /\ pc'[q] = pc[q] /\ op'[q] = op[q] /\ cfg'[q] = cfg[q] /\ req'[q] = req[q]
        /\ tf'[q] = tf[q]
    BY <1>1, Frame
  <2> QED BY <2>1 DEF Todo, Pending, Keeps, Adds, OldRole
<1>2. Todo = [q \in Resource |-> Todo[q]] /\ Todo' = [q \in Resource |-> Todo'[q]]
  BY DEF Todo
<1> HIDE DEF Todo
<1> QED BY <1>1, <1>2

(* The operation the server applies is the change, made on the policy that *)
(* is there: what was read under the lock is still so (Fresh).             *)
LEMMA ApplyIsCommit ==
  ASSUME AccessInv, NEW r \in Resource, Apply(r)
  PROVE  policy' = (policy \intersect Keeps(r)) \union Adds(r)
<1>1. /\ req[r] = Sends(r)
      /\ op[r] \in {"create", "update", "delete"}
      /\ r \in IamBinding => snap[r] = policy
      /\ op[r] = "update" => r \notin SingleGrant
      /\ r \in SingleGrant /\ op[r] = "create" => cfg[r].grants = {GrantOf(r)}
  BY DEF Apply, AccessInv, TypeOK, Requested, Fresh, Control, Running, Changing
<1>2. policy' = Applied(Sends(r)) /\ policy \subseteq Grant
  BY <1>1 DEF Apply, AccessInv, TypeOK
<1>3. CASE r \in IamBinding
  <2>0. r \notin SingleGrant /\ r \notin IamPolicy
    BY <1>3, IamAccessAssumption DEF SingleGrant
  <2>1. Sends(r).kind = "set" /\ Sends(r).grants =
            CASE op[r] = "create" -> policy \union cfg[r].grants
              [] op[r] = "update" -> (policy \ OfRole(OldRole(r), policy)) \union cfg[r].grants
              [] OTHER -> policy \ OfRole(OldRole(r), policy)
    BY <1>1, <1>3, <2>0 DEF Sends, MergeBindings, RemoveRoleFromBindings
  <2>2. policy' = Sends(r).grants
    BY <1>2, <2>1 DEF Applied
  <2>3. policy \intersect (Grant \ OfRole(OldRole(r), Grant))
          = policy \ OfRole(OldRole(r), policy)
    BY <1>2 DEF OfRole
  <2>4. Keeps(r) = IF op[r] = "create" THEN Grant
                   ELSE Grant \ OfRole(OldRole(r), Grant)
    BY <1>3, <2>0 DEF Keeps
  <2>5. CASE op[r] = "create"
    BY <1>2, <2>1, <2>2, <2>4, <2>5 DEF Adds
  <2>6. CASE op[r] = "update"
    BY <2>1, <2>2, <2>3, <2>4, <2>6 DEF Adds
  <2>7. CASE op[r] = "delete"
    BY <2>1, <2>2, <2>3, <2>4, <2>7 DEF Adds
  <2> QED BY <1>1, <2>5, <2>6, <2>7
<1>4. CASE r \in SingleGrant
  <2>0. r \notin IamBinding /\ r \notin IamPolicy
    BY <1>4, IamAccessAssumption DEF SingleGrant
  <2>1. CASE op[r] = "create"
    BY <1>1, <1>2, <1>4, <2>0, <2>1 DEF Sends, Applied, Keeps, Adds
  <2>2. CASE op[r] = "delete"
    BY <1>1, <1>2, <1>4, <2>0, <2>2 DEF Sends, Applied, Keeps, Adds
  <2> QED BY <1>1, <1>4, <2>1, <2>2
<1>5. CASE r \in IamPolicy
  <2>0. r \notin IamBinding /\ r \notin SingleGrant
    BY <1>5, IamAccessAssumption DEF SingleGrant
  <2>1. Sends(r).kind = "set" /\ Sends(r).grants = Adds(r)
    BY <1>1, <1>5, <2>0 DEF Sends, Adds
  <2>2. Keeps(r) = {}
    BY <1>5, <2>0 DEF Keeps
  <2> QED BY <1>2, <2>1, <2>2 DEF Applied
<1> QED BY <1>3, <1>4, <1>5 DEF Resource, SingleGrant

(* Each step of a resource is a step of AccessPolicy or leaves it alone.   *)
LEMMA ResourceStepRefines ==
  ASSUME ~Timeouts, AccessInv, NEW r \in Resource,
         Start(r) \/ Lock(r) \/ Handler(r) \/ Server(r)
  PROVE  \/ Access!Start(r) \/ Access!Commit(r) \/ Access!Abort(r)
         \/ UNCHANGED Access!vars
<1> DEFINE SameTodo == Todo'[r] = Todo[r] /\ policy' = policy
           Starts == Todo[r] = NoChange /\ policy' = policy
                        /\ (Todo'[r] \in Access!Change \/ Todo'[r] = NoChange)
           Aborts == Todo[r] # NoChange /\ Todo'[r] = NoChange /\ policy' = policy
<1>0. /\ Todo[r] = IF Pending(r) THEN [keep |-> Keeps(r), add |-> Adds(r)] ELSE NoChange
      /\ Todo'[r] = (IF Pending(r) THEN [keep |-> Keeps(r), add |-> Adds(r)]
                                  ELSE NoChange)'
  BY DEF Todo
<1>a. [keep |-> Keeps(r), add |-> Adds(r)] # NoChange
  BY ChangeType DEF AccessInv
<1>b. Control(r) /\ orphan[r] = NoReq
  BY DEF AccessInv
<1>c. TypeOK /\ TypeOK'
  BY StartType, HandlerType, ServerType DEF AccessInv
<1>d. Todo' = [Todo EXCEPT ![r] = Todo'[r]] /\ Todo \in [Resource -> {Todo[q] : q \in Resource}]
  BY <1>c, TodoFrame DEF Todo
<1>e. [keep |-> Keeps(r), add |-> Adds(r)]' \in Access!Change
  <2>1. Keeps(r)' \in SUBSET Grant
    BY DEF Keeps
  <2>2. Adds(r)' \in SUBSET Grant
    BY <1>c DEF Adds, TypeOK, Data
  <2> QED BY <2>1, <2>2 DEF Access!Change
<1>f. SameTodo => UNCHANGED Access!vars
  <2> HIDE DEF Todo
  <2> QED BY <1>d DEF Access!vars
<1>g. Starts => Access!Start(r) \/ UNCHANGED Access!vars
  <2> HIDE DEF Todo
  <2> QED BY <1>d DEF Access!Start, Access!vars
<1>h. Aborts => Access!Abort(r)
  <2> HIDE DEF Todo
  <2> QED BY <1>d DEF Access!Abort
<1>1. CASE Start(r)
  <2>1. ~Pending(r)
    <3>1. pc[r] = "idle"
      BY <1>1 DEF Start, CallCreate, CallUpdate, MoveHere, MoveAway, CallDelete,
                  DeleteEmpty, CallRead, CallImport, Call, Absent
    <3> QED BY <3>1 DEF Pending
  <2>2. policy' = policy
    BY <1>1 DEF Start, CallCreate, CallUpdate, MoveHere, MoveAway, CallDelete,
                DeleteEmpty, CallRead, CallImport, Call, server
  <2>3. Starts
    BY <1>0, <1>e, <2>1, <2>2
  <2> QED BY <1>g, <2>3
<1>2. CASE LookupCloud(r) \/ Lock(r) \/ GetPolicy(r) \/ Submit(r)
  <2>1. /\ op' = op /\ cfg' = cfg /\ tf' = tf /\ policy' = policy
        /\ pc[r] \in {"cloud", "lock", "get", "submit"}
    BY <1>2 DEF LookupCloud, Lock, GetPolicy, Submit, server
  <2>2. \/ pc'[r] \in {"cloud", "lock", "get", "submit"}
        \/ pc'[r] = "wait" /\ req'[r].status = "running"
    <3>p. pc \in [Resource -> Location]
      BY <1>c DEF TypeOK
    <3>1. CASE LookupCloud(r)
      BY <3>p, <3>1 DEF LookupCloud
    <3>2. CASE Lock(r)
      BY <3>p, <3>2 DEF Lock
    <3>3. CASE GetPolicy(r)
      BY <3>p, <3>3 DEF GetPolicy
    <3>4. CASE Submit(r)
      BY <1>c, <3>4, SendsType DEF Submit, TypeOK
    <3> QED BY <1>2, <3>1, <3>2, <3>3, <3>4
  <2>3. Pending(r) /\ Pending(r)'
    BY <1>b, <2>1, <2>2 DEF Pending, Control, Changing
  <2>4. Keeps(r)' = Keeps(r) /\ Adds(r)' = Adds(r)
    BY <2>1 DEF Keeps, Adds, OldRole
  <2>5. SameTodo
    BY <1>0, <2>1, <2>3, <2>4
  <2> QED BY <1>f, <2>5
<1>3. CASE WaitDone(r) \/ WaitFails(r)
  <2>1. ~Pending(r) /\ policy' = policy
    BY <1>3 DEF WaitDone, WaitFails, Pending
  <2>2. ~Pending(r)'
    BY <1>3, <1>c DEF WaitDone, WaitFails, Return, Pending, TypeOK
  <2>3. SameTodo
    BY <1>0, <2>1, <2>2
  <2> QED BY <1>f, <2>3
<1>4. CASE WaitTimesOut(r)
  BY <1>4 DEF WaitTimesOut
<1>5. CASE CallNotFound(r) \/ CallFails(r)
  <2>1. /\ pc[r] \in {"cloud", "get", "submit"} /\ policy' = policy
        /\ pc'[r] = "idle"
    BY <1>5, <1>c DEF CallNotFound, CallFails, Return, server, TypeOK
  <2>2. Pending(r) /\ ~Pending(r)'
    BY <1>b, <2>1 DEF Pending, Control, Changing
  <2>3. Aborts
    BY <1>0, <1>a, <2>1, <2>2
  <2> QED BY <1>h, <2>3
<1>6. CASE ReadFinds(r) \/ ReadMissing(r) \/ ReadNotFound(r) \/ ReadFails(r)
  <2>1. pc[r] = "read" /\ pc'[r] = "idle" /\ policy' = policy
    BY <1>6, <1>c DEF ReadFinds, ReadMissing, ReadNotFound, ReadFails, Return, server,
                      TypeOK
  <2>2. SameTodo
    BY <1>0, <2>1 DEF Pending
  <2> QED BY <1>f, <2>2
<1>7. CASE Apply(r)
  <2>1. policy' = (policy \intersect Keeps(r)) \union Adds(r)
    BY <1>7, ApplyIsCommit
  <2>2. pc[r] = "wait" /\ req[r].status = "running" /\ req'[r].status # "running"
    BY <1>7, <1>c DEF Apply, TypeOK, Request
  <2>3. Pending(r) /\ ~Pending(r)'
    BY <1>7, <1>b, <2>2 DEF Pending, Control, Changing, Apply
  <2>4. Todo[r] = [keep |-> Keeps(r), add |-> Adds(r)] /\ Todo'[r] = NoChange
    BY <1>0, <2>3
  <2>5. Todo[r] # NoChange /\ Todo[r].keep = Keeps(r) /\ Todo[r].add = Adds(r)
    BY <1>a, <2>4
  <2> HIDE DEF Todo
  <2> QED BY <1>d, <2>1, <2>4, <2>5 DEF Access!Commit
<1>8. CASE OperationFails(r)
  <2>1. /\ pc[r] = "wait" /\ req[r].status = "running" /\ req'[r].status # "running"
        /\ policy' = policy
    BY <1>8, <1>c DEF OperationFails, TypeOK, Request
  <2>2. Pending(r) /\ ~Pending(r)'
    BY <1>8, <1>b, <2>1 DEF Pending, Control, Changing, OperationFails
  <2>3. Aborts
    BY <1>0, <1>a, <2>1, <2>2
  <2> QED BY <1>h, <2>3
<1>9. CASE ApplyOrphan(r)
  BY <1>9, <1>b DEF ApplyOrphan
<1> QED BY <1>1, <1>2, <1>3, <1>4, <1>5, <1>6, <1>7, <1>8, <1>9 DEF Handler, Server

(* Changes of isolated resources are atomic, for any number of resources,  *)
(* roles and principals: iam.go:46-75 and 77-101 implement AccessPolicy.   *)
THEOREM AtomicChanges == Isolated => (Spec => ImplementsAccessPolicy)
<1> SUFFICES ASSUME Isolated PROVE Spec => ImplementsAccessPolicy OBVIOUS
<1>1. Init => Access!Init
  <2> SUFFICES ASSUME Init PROVE Access!Init OBVIOUS
  <2>1. Todo = [r \in Resource |-> NoChange]
    BY DEF Init, Todo, Pending
  <2>2. policy \in SUBSET Grant
    BY IamAccessAssumption DEF Init
  <2> QED BY <2>1, <2>2 DEF Access!Init
<1>2. AccessInv /\ [Next]_vars => [Access!Next]_Access!vars
  <2> SUFFICES ASSUME AccessInv, [Next]_vars
               PROVE  Access!Next \/ UNCHANGED Access!vars
    OBVIOUS
  <2>1. CASE UNCHANGED vars
    BY <2>1 DEF vars, Access!vars, Todo, Pending, Keeps, Adds, OldRole
  <2>2. CASE Vanish
    BY <2>2 DEF Vanish, Access!Next, Access!Vanish, Todo, Pending, Keeps, Adds, OldRole
  <2>3. ASSUME NEW r \in Resource, Start(r) \/ Lock(r) \/ Handler(r) \/ Server(r)
        PROVE  Access!Next \/ UNCHANGED Access!vars
    BY <2>3, ResourceStepRefines DEF Isolated, Access!Next
  <2> QED BY <2>1, <2>2, <2>3 DEF Next
<1>3. Spec => []AccessInv
  BY AccessInvariant
<1> QED BY <1>1, <1>2, <1>3, PTL DEF Spec, ImplementsAccessPolicy, Access!Spec

(* When no caller gives up waiting, and a policy resource has no rival, the*)
(* mutex guards against concurrent replacements as iam.go:28 says.         *)
THEOREM OneReplacement == Isolated /\ OnePolicy => (Spec => []OneSetAtATime)
<1> SUFFICES ASSUME Isolated, OnePolicy PROVE Spec => []OneSetAtATime OBVIOUS
<1>1. AccessInv => OneSetAtATime
  <2> SUFFICES ASSUME AccessInv PROVE OneSetAtATime OBVIOUS
  <2> DEFINE Sets(r) == req[r] # NoReq /\ req[r].kind = "set" /\ req[r].status = "running"
  <2>1. ASSUME NEW r \in Resource, Sets(r)
        PROVE  pc[r] = "wait" /\ Used(r) /\ r \in IamBinding \union IamPolicy
    <3>1. req[r] = Sends(r) /\ pc[r] = "wait"
      BY <2>1 DEF AccessInv, TypeOK, Requested, Running
    <3>2. r \in SingleGrant => op[r] \in {"create", "delete"} /\ r \notin IamBinding \union IamPolicy
      BY <3>1, IamAccessAssumption DEF AccessInv, Control, Changing, SingleGrant
    <3>3. r \notin SingleGrant
      BY <2>1, <3>1, <3>2 DEF Sends
    <3> QED BY <3>1, <3>3 DEF Used, Resource, SingleGrant
  <2>2. ASSUME NEW r \in Resource, NEW q \in Resource, Sets(r), Sets(q) PROVE r = q
    <3>1. PICK T \in Together \union {{}} : \A x \in Resource \ T : ~Used(x)
      BY DEF AccessInv, UsedTogether
    <3>2. r \in T /\ q \in T /\ T \in Together
      BY <2>1, <2>2, <3>1
    <3>3. CASE r \in IamPolicy \/ q \in IamPolicy
      BY <2>1, <2>2, <3>2, <3>3 DEF OnePolicy
    <3>4. CASE r \in IamBinding /\ q \in IamBinding
      BY <2>1, <2>2, <3>4 DEF AccessInv, Holds, Locking
    <3> QED BY <2>1, <2>2, <3>3, <3>4
  <2>3. \A a \in Setting : \E r \in Resource : Sets(r) /\ a = <<req[r], r>>
    BY DEF Setting, AccessInv
  <2> HIDE DEF Sets
  <2> QED BY <2>2, <2>3 DEF OneSetAtATime
<1>2. Spec => []AccessInv
  BY AccessInvariant
<1> QED BY <1>1, <1>2, PTL

-----------------------------------------------------------------------------
(* The operation of a binding, a member or an account changes grants of    *)
(* roles of its own only.                                                  *)
LEMMA ApplyOwnRoles ==
  ASSUME AccessInv, NEW r \in Resource, r \notin IamPolicy, Written(r), Apply(r),
         NEW role, role \notin Roles(r)
  PROVE  OfRole(role, policy') = OfRole(role, policy)
<1>1. policy' = (policy \intersect Keeps(r)) \union Adds(r) /\ policy \subseteq Grant
  BY ApplyIsCommit DEF AccessInv, TypeOK
<1>2. /\ op[r] \in {"create", "update", "delete"}
      /\ op[r] = "update" => r \notin SingleGrant
      /\ r \in SingleGrant /\ op[r] = "create" => cfg[r].grants = {GrantOf(r)}
  BY DEF Apply, AccessInv, TypeOK, Control, Changing
<1>3. CASE r \in IamBinding
  <2>1. Roles(r) = RolesOf[r] /\ r \notin SingleGrant
    BY <1>3, IamAccessAssumption DEF Roles, SingleGrant
  <2>2. cfg[r].role \in RolesOf[r] /\ OldRole(r) \in RolesOf[r]
    BY <1>2, <1>3 DEF Written, OldRole
  <2>3. \A g \in Adds(r) : g[1] \in RolesOf[r]
    BY <1>2, <1>3, <2>2 DEF Adds, Written
  <2>4. \A g \in Grant \ Keeps(r) : g[1] \in RolesOf[r]
    BY <1>3, <2>1, <2>2 DEF Keeps, OfRole
  <2> QED BY <1>1, <2>1, <2>3, <2>4 DEF OfRole
<1>4. CASE r \in SingleGrant
  <2>1. Roles(r) = {RoleOf[r]} /\ r \notin IamBinding
    BY <1>4, IamAccessAssumption DEF Roles, SingleGrant
  <2>2. GrantOf(r)[1] = RoleOf[r]
    BY DEF GrantOf
  <2>3. \A g \in Adds(r) : g[1] = RoleOf[r]
    BY <1>2, <1>4, <2>2 DEF Adds
  <2>4. \A g \in Grant \ Keeps(r) : g[1] = RoleOf[r]
    BY <1>2, <1>4, <2>1, <2>2 DEF Keeps
  <2> QED BY <1>1, <2>1, <2>3, <2>4 DEF OfRole
<1> QED BY <1>3, <1>4 DEF Resource, SingleGrant

(* The operation of a binding leaves what was configured.                  *)
LEMMA ApplyStays ==
  ASSUME AccessInv, NEW r \in IamBinding, Written(r), Apply(r)
  PROVE  Stays(r)'
<1>0. r \in Resource /\ r \notin IamPolicy /\ r \notin SingleGrant
  BY IamAccessAssumption DEF Resource, SingleGrant
<1>1. policy' = (policy \intersect Keeps(r)) \union Adds(r) /\ policy \subseteq Grant
  BY <1>0, ApplyIsCommit DEF AccessInv, TypeOK
<1>2. UNCHANGED <<op, cfg, tf>>
  BY DEF Apply
<1>3. Keeps(r) = IF op[r] = "create" THEN Grant ELSE Grant \ OfRole(OldRole(r), Grant)
  BY <1>0 DEF Keeps
<1>4. op[r] \in {"create", "update"} => Adds(r) = cfg[r].grants
  BY DEF Adds
<1>5. op[r] = "delete" => Adds(r) = {} /\ OldRole(r) = cfg[r].role
  BY DEF Adds, OldRole
<1>6. op[r] = "update" => OldRole(r) = tf[r].role
  BY DEF OldRole
<1>7. op[r] \in {"create", "update"} => cfg[r].grants \subseteq policy'
  BY <1>1, <1>4
<1>8. op[r] = "update" => OfRole(tf[r].role, policy') \subseteq cfg[r].grants
  BY <1>1, <1>3, <1>4, <1>6 DEF OfRole
<1>9. op[r] = "delete" => OfRole(cfg[r].role, policy') = {}
  BY <1>1, <1>3, <1>5 DEF OfRole
<1> QED BY <1>2, <1>7, <1>8, <1>9 DEF Stays, AreThere, NoOthers, NoneLeft

(* A binding works with grants of its roles.                               *)
LEMMA OwnWritten ==
  ASSUME AccessInv, NEW r \in IamBinding, Written(r),
         Start(r) \/ Lock(r) \/ Handler(r) \/ Server(r)
  PROVE  Written(r)'
<1>0. /\ r \in Resource /\ r \notin IamPolicy /\ r \notin SingleGrant /\ r \notin ServiceAccount
      /\ pc[r] = "idle" <=> op[r] = "none"
      /\ pc \in [Resource -> Location] /\ op \in [Resource -> Method]
      /\ cfg \in [Resource -> Data] /\ tf \in [Resource -> TfState]
  BY IamAccessAssumption DEF Resource, SingleGrant, AccessInv, TypeOK, Control
<1>a. \A d \in Config(r) : d.role \in RolesOf[r] /\ d.grants \subseteq {d.role} \X Principal
  BY <1>0, ConfigType
<1>b. ASSUME NEW m, NEW d, NEW l, Call(r, m, d, l), d.role \in RolesOf[r],
             m \in {"create", "update"} => d.grants \subseteq {d.role} \X Principal,
             tf'[r].id \/ m = "update" => tf'[r].role \in RolesOf[r]
      PROVE  Written(r)'
  <2>1. op'[r] = m /\ cfg'[r] = d
    BY <1>0, <1>b DEF Call
  <2> QED BY <1>b, <2>1 DEF Written
<1>c. ASSUME NEW st, Return(r, st), st.id => st.role \in RolesOf[r]
      PROVE  Written(r)'
  <2>1. op'[r] = "none" /\ tf'[r] = st
    BY <1>0, <1>c DEF Return
  <2> QED BY <1>c, <2>1 DEF Written
<1>1. CASE CallCreate(r)
  BY <1>a, <1>b, <1>1 DEF CallCreate
<1>2. CASE CallUpdate(r)
  <2>1. tf'[r] = tf[r] /\ tf[r].role \in RolesOf[r]
    BY <1>2 DEF CallUpdate, Written
  <2> QED BY <1>a, <1>b, <1>2, <2>1 DEF CallUpdate
<1>3. CASE MoveHere(r)
  <2>1. PICK x \in RolesOf[r] : tf' = [tf EXCEPT ![r].role = x]
    BY <1>3 DEF MoveHere
  <2>2. tf'[r].role \in RolesOf[r]
    BY <1>0, <2>1 DEF TfState
  <2> QED BY <1>a, <1>b, <1>3, <2>2 DEF MoveHere
<1>4. CASE CallDelete(r) \/ CallRead(r)
  <2>1. tf' = tf /\ tf[r].role \in RolesOf[r] /\ StateData(r).role = tf[r].role
    BY <1>4 DEF CallDelete, CallRead, Written, StateData
  <2> QED BY <1>b, <1>4, <2>1 DEF CallDelete, CallRead
<1>5. CASE CallImport(r)
  BY <1>a, <1>b, <1>5 DEF CallImport
<1>6. CASE MoveAway(r) \/ DeleteEmpty(r)
  <2>1. tf'[r] = Absent /\ UNCHANGED <<op, cfg, pc>> /\ pc[r] = "idle"
    BY <1>0, <1>6 DEF MoveAway, DeleteEmpty
  <2> QED BY <1>0, <2>1 DEF Written, Absent
<1>7. CASE \/ WaitFails(r) \/ WaitTimesOut(r) \/ CallNotFound(r) \/ CallFails(r)
           \/ ReadFinds(r) \/ ReadMissing(r) \/ ReadNotFound(r) \/ ReadFails(r)
  <2>1. op[r] # "none"
    BY <1>0, <1>7 DEF WaitFails, WaitTimesOut, CallNotFound, CallFails, ReadFinds,
                      ReadMissing, ReadNotFound, ReadFails
  <2> DEFINE Good(st) == st.id => st.role \in RolesOf[r]
  <2>2. cfg[r].role \in RolesOf[r] /\ cfg[r] \in Data
    BY <1>0, <2>1 DEF Written
  <2>3. Good(Present([cfg[r] EXCEPT !.grants = Found(r)]))
    BY <2>2 DEF Present, Data
  <2>4. Good(Present(cfg[r])) /\ Good(Absent) /\ Good(tf[r])
    BY <2>2 DEF Written, Present, Absent
  <2> HIDE DEF Good
  <2>5. /\ Good(FailedState(r, TRUE)) /\ Good(FailedState(r, FALSE))
        /\ Good(FailedState(r, r \in ServiceAccount))
    BY <2>4 DEF FailedState, SdkState, FrameworkState
  <2>6. \E st : Return(r, st) /\ Good(st)
    <3>1. CASE WaitFails(r) \/ WaitTimesOut(r)
      BY <1>0, <2>4, <2>5, <3>1 DEF WaitFails, WaitTimesOut
    <3>2. CASE CallNotFound(r) \/ CallFails(r)
      BY <2>4, <2>5, <3>2 DEF CallNotFound, CallFails
    <3>3. CASE ReadFinds(r)
      BY <2>3, <2>4, <3>3 DEF ReadFinds
    <3>4. CASE ReadMissing(r) \/ ReadNotFound(r) \/ ReadFails(r)
      BY <2>4, <2>5, <3>4 DEF ReadMissing, ReadNotFound, ReadFails
    <3> QED BY <1>7, <3>1, <3>2, <3>3, <3>4
  <2> QED BY <1>c, <2>6 DEF Good
<1>8. CASE Lock(r) \/ LookupCloud(r) \/ GetPolicy(r) \/ Submit(r) \/ WaitDone(r) \/ Server(r)
  <2>1. UNCHANGED <<op, cfg, tf>>
    BY <1>0, <1>8 DEF Lock, LookupCloud, GetPolicy, Submit, WaitDone, Server, Apply,
                      OperationFails, ApplyOrphan
  <2> QED BY <2>1 DEF Written
<1> QED BY <1>1, <1>2, <1>3, <1>4, <1>5, <1>6, <1>7, <1>8 DEF Start, Handler

(* What it has written stays until it is read back.                        *)
LEMMA OwnStays ==
  ASSUME ~Timeouts, AppliedInv, NEW r \in IamBinding,
         Start(r) \/ Lock(r) \/ Handler(r) \/ Server(r)
  PROVE  Stays(r)'
<1>0. /\ r \in Resource /\ r \notin IamPolicy /\ r \notin SingleGrant /\ r \notin ServiceAccount
      /\ TypeOK /\ Written(r) /\ Stays(r) /\ orphan[r] = NoReq /\ Control(r)
  BY IamAccessAssumption DEF Resource, SingleGrant, AppliedInv, AccessInv
<1>1. First(r) = "lock"
  BY <1>0 DEF First
<1>2. CASE CallCreate(r) \/ CallUpdate(r) \/ MoveHere(r) \/ CallDelete(r)
  <2>1. pc'[r] = "lock"
    BY <1>0, <1>1, <1>2 DEF CallCreate, CallUpdate, MoveHere, CallDelete, Call, TypeOK
  <2> QED BY <2>1 DEF Stays
<1>3. CASE CallRead(r) \/ CallImport(r)
  <2>1. op'[r] \in {"read", "import"}
    BY <1>0, <1>3 DEF CallRead, CallImport, Call, TypeOK
  <2> QED BY <2>1 DEF Stays
<1>4. CASE DeleteEmpty(r) \/ MoveAway(r)
  <2>1. pc'[r] = "idle"
    BY <1>4 DEF DeleteEmpty, MoveAway
  <2> QED BY <2>1 DEF Stays
<1>5. CASE LookupCloud(r) \/ Lock(r) \/ GetPolicy(r)
  <2>1. pc'[r] \notin {"read", "wait"}
    BY <1>0, <1>5 DEF LookupCloud, Lock, GetPolicy, TypeOK
  <2> QED BY <2>1 DEF Stays
<1>6. CASE Submit(r)
  <2>1. req'[r].status = "running" /\ pc'[r] = "wait"
    BY <1>0, <1>6, SendsType DEF Submit, TypeOK
  <2> QED BY <2>1 DEF Stays
<1>7. CASE WaitDone(r)
  <2>1. UNCHANGED <<policy, exists, op, cfg, tf>> /\ pc[r] = "wait" /\ req[r].status = "done"
    BY <1>0, <1>7 DEF WaitDone
  <2> QED BY <1>0, <2>1 DEF Stays, AreThere, NoOthers, NoneLeft
<1>8. ASSUME NEW st, Return(r, st) PROVE Stays(r)'
  BY <1>0, <1>8 DEF Return, TypeOK, Stays
<1>9. CASE \/ WaitFails(r) \/ CallNotFound(r) \/ CallFails(r) \/ ReadFinds(r)
           \/ ReadMissing(r) \/ ReadNotFound(r) \/ ReadFails(r)
  BY <1>8, <1>9 DEF WaitFails, CallNotFound, CallFails, ReadFinds, ReadMissing,
                    ReadNotFound, ReadFails
<1>10. CASE WaitTimesOut(r)
  BY <1>10 DEF WaitTimesOut
<1>11. CASE Apply(r)
  BY <1>0, <1>11, ApplyStays DEF AppliedInv
<1>12. CASE OperationFails(r)
  <2>1. req'[r].status = "failed" /\ pc'[r] = "wait"
    BY <1>0, <1>12 DEF OperationFails, TypeOK, Request
  <2> QED BY <2>1 DEF Stays
<1>13. CASE ApplyOrphan(r)
  BY <1>0, <1>13 DEF ApplyOrphan
<1> QED BY <1>2, <1>3, <1>4, <1>5, <1>6, <1>7, <1>9, <1>10, <1>11, <1>12, <1>13
        DEF Start, Handler, Server

(* A step of somebody else's, whose roles are other ones.                  *)
LEMMA OthersApplied ==
  ASSUME RolesApart, AppliedInv, NEW r \in Resource, NEW q \in Resource, q # r,
         (Allowed(r) /\ Start(r)) \/ Lock(r) \/ Handler(r) \/ Server(r)
  PROVE  Written(q)' /\ Stays(q)'
<1>0. /\ TypeOK /\ UsedTogether /\ Written(q) /\ Stays(q) /\ Written(r) /\ orphan[r] = NoReq
      /\ Control(q)
  BY DEF AppliedInv, AccessInv
<1>1. /\ pc'[q] = pc[q] /\ op'[q] = op[q] /\ cfg'[q] = cfg[q] /\ req'[q] = req[q]
      /\ tf'[q] = tf[q]
      /\ exists' = exists /\ (policy' = policy \/ Apply(r) \/ ApplyOrphan(r))
  BY <1>0, Frame, PolicyFrame
<1>2. Written(q)'
  BY <1>0, <1>1 DEF Written
<1>3. Stays(q)'
  <2>1. CASE policy' = policy
    BY <1>0, <1>1, <2>1 DEF Stays, AreThere, NoOthers, NoneLeft
  <2>2. CASE q \notin IamBinding \/ pc[q] = "idle"
    BY <1>1, <2>2 DEF Stays
  <2>3. CASE q \in IamBinding /\ pc[q] # "idle" /\ Apply(r)
    <3>1. PICK T \in Together : r \in T /\ \A x \in Resource \ T : ~Used(x)
      BY <1>0, UsedStep
    <3>2. q \in T
      BY <2>3, <3>1 DEF Used
    <3>3. r \notin IamPolicy /\ Roles(r) \intersect RolesOf[q] = {}
      BY <2>3, <3>1, <3>2 DEF RolesApart, Roles
    <3>4. \A role \in RolesOf[q] : OfRole(role, policy') = OfRole(role, policy)
      BY <1>0, <2>3, <3>3, ApplyOwnRoles DEF AppliedInv
    <3>5. op[q] # "none" /\ cfg[q].role \in RolesOf[q]
      BY <1>0, <2>3 DEF Control, Written
    <3>6. op[q] \in {"create", "update"} => (AreThere(q) => AreThere(q)')
      <4>1. op[q] \in {"create", "update"} => \A g \in cfg[q].grants : g[1] = cfg[q].role
        BY <1>0, <2>3 DEF Written
      <4>2. OfRole(cfg[q].role, policy') = OfRole(cfg[q].role, policy)
        BY <3>4, <3>5
      <4> QED BY <1>1, <4>1, <4>2 DEF AreThere, OfRole
    <3>7. op[q] = "update" => (NoOthers(q) => NoOthers(q)')
      BY <1>0, <1>1, <2>3, <3>4 DEF NoOthers, Written
    <3>8. NoneLeft(q) => NoneLeft(q)'
      BY <1>1, <3>4, <3>5 DEF NoneLeft
    <3> QED BY <1>0, <1>1, <3>6, <3>7, <3>8 DEF Stays
  <2> QED BY <1>0, <1>1, <2>1, <2>2, <2>3 DEF ApplyOrphan
<1> QED BY <1>2, <1>3

(* Every step leaves what an operation has written until it is read back.  *)
LEMMA AppliedStep ==
  ASSUME ~Timeouts, RolesApart, AppliedInv, AccessInv', [Next]_vars
  PROVE  AppliedInv'
<1>1. CASE UNCHANGED vars
  BY <1>1 DEF vars, AppliedInv, Written, Stays, AreThere, NoOthers, NoneLeft
<1>2. CASE Vanish
  BY <1>2 DEF Vanish, AppliedInv, Written, Stays
<1>3. ASSUME NEW r \in Resource, NEW q \in Resource,
             (Allowed(r) /\ Start(r)) \/ Lock(r) \/ Handler(r) \/ Server(r)
      PROVE  Written(q)' /\ Stays(q)'
  <2>1. CASE q \notin IamBinding
    BY <2>1 DEF Written, Stays
  <2>2. CASE q = r /\ q \in IamBinding
    BY <1>3, <2>2, OwnWritten, OwnStays DEF AppliedInv
  <2>3. CASE q # r
    BY <1>3, <2>3, OthersApplied
  <2> QED BY <2>1, <2>2, <2>3
<1> QED BY <1>1, <1>2, <1>3 DEF Next, AppliedInv

(* What the read-back of a binding finds decides what is reported.         *)
LEMMA ReadTellsTruth ==
  ASSUME AppliedInv, NEW r \in IamBinding
  PROVE  /\ ReadFinds(r) /\ op[r] \in {"create", "update"} /\ cfg[r].grants # {}
               => /\ AreThere(r)
                  /\ op[r] = "update" => NoOthers(r)
                  /\ tf'[r] = Present(cfg[r])
         /\ (ReadFinds(r) \/ ReadMissing(r)) /\ op[r] = "delete" => NoneLeft(r)
<1>0. /\ r \in Resource /\ r \notin IamPolicy /\ r \notin ServiceAccount /\ r \notin IamMember
      /\ TypeOK /\ Stays(r) /\ Written(r)
  BY IamAccessAssumption DEF Resource, AppliedInv, AccessInv, SingleGrant
<1>1. ReadFinds(r) \/ ReadMissing(r) => exists /\ pc[r] = "read"
  BY <1>0 DEF ReadFinds, ReadMissing
<1>2. ASSUME ReadFinds(r), op[r] \in {"create", "update"}, cfg[r].grants # {}
      PROVE  tf'[r] = Present(cfg[r])
  <2>1. AreThere(r)
    BY <1>0, <1>1, <1>2 DEF Stays
  <2>2. \A g \in cfg[r].grants : g[1] = cfg[r].role
    BY <1>0, <1>2 DEF Written
  <2>3. Found(r) = OfRole(cfg[r].role, policy) \intersect cfg[r].grants
    BY <1>0, <1>2 DEF Found
  <2>4. Found(r) = cfg[r].grants
    BY <2>1, <2>2, <2>3 DEF AreThere, OfRole
  <2>5. cfg[r] = [cfg[r] EXCEPT !.grants = Found(r)]
    BY <1>0, <2>4 DEF TypeOK, Data
  <2>6. tf'[r] = Present([cfg[r] EXCEPT !.grants = Found(r)])
    BY <1>0, <1>2 DEF ReadFinds, Return, TypeOK
  <2> QED BY <2>5, <2>6
<1> QED BY <1>0, <1>1, <1>2 DEF Stays

(* A create or update of a binding that reports success has left the       *)
(* members configured, an update nothing else of the role that the state   *)
(* named, and a delete none of the role, although they are read back when  *)
(* the key is free again (iam_binding.go:67-87, 152-204; for the framework *)
(* accessbinding/iam_binding.go:30-137), if roles are used apart and nobody*)
(* gives up.  Nothing is said of what a role had before an update changed  *)
(* to it.                                                                  *)
THEOREM SuccessIsApplied ==
  ASSUME ~Timeouts, RolesApart
  PROVE  Spec => SuccessMeansApplied
<1>1. Isolated
  <2> SUFFICES ASSUME NEW T \in Together, NEW b \in T \intersect IamBinding,
                      NEW p \in T \intersect IamPolicy
               PROVE  FALSE
    BY DEF Isolated
  <2>1. p # b
    BY IamAccessAssumption
  <2> QED BY <2>1 DEF RolesApart
<1>2. Spec => []AccessInv
  BY <1>1, AccessInvariant
<1>3. Init /\ AccessInv => AppliedInv
  BY DEF Init, AppliedInv, Written, Stays, Absent
<1>4. AppliedInv /\ AccessInv' /\ [Next]_vars => AppliedInv'
  BY AppliedStep
<1>5. AppliedInv /\ [Next]_vars
        => [\A r \in IamBinding :
              /\ ReadFinds(r) /\ op[r] \in {"create", "update"} /\ cfg[r].grants # {}
                    => /\ AreThere(r)
                       /\ op[r] = "update" => NoOthers(r)
                       /\ tf'[r] = Present(cfg[r])
              /\ (ReadFinds(r) \/ ReadMissing(r)) /\ op[r] = "delete" => NoneLeft(r)]_vars
  BY ReadTellsTruth
<1> QED BY <1>2, <1>3, <1>4, <1>5, PTL DEF Spec, SuccessMeansApplied
-----------------------------------------------------------------------------
(* So it does whatever the others do.                                      *)
LEMMA WrittenStep ==
  ASSUME AccessInv, NEW q \in IamBinding, Written(q), [Next]_vars
  PROVE  Written(q)'
<1>0. q \in Resource /\ TypeOK
  BY DEF Resource, AccessInv
<1>1. CASE UNCHANGED vars
  BY <1>1 DEF vars, Written
<1>2. CASE Vanish
  BY <1>2 DEF Vanish, Written
<1>3. ASSUME NEW r \in Resource, r # q,
             Start(r) \/ Lock(r) \/ Handler(r) \/ Server(r)
      PROVE  Written(q)'
  BY <1>0, <1>3, Frame DEF Written
<1>4. ASSUME Start(q) \/ Lock(q) \/ Handler(q) \/ Server(q)
      PROVE  Written(q)'
  BY <1>4, OwnWritten
<1> QED BY <1>1, <1>2, <1>3, <1>4 DEF Next

(* The operation of a binding preserves the other roles, whatever others   *)
(* have done since it read the policy (iam.go:46-75), as long as no wait is*)
(* given up, after which it does not (the run iam_timeout).                *)
THEOREM RolesPreserved == Isolated => (Spec => OtherRolesPreserved)
<1> SUFFICES ASSUME Isolated PROVE Spec => OtherRolesPreserved OBVIOUS
<1> DEFINE W == \A q \in IamBinding : Written(q)
<1>1. Init => W
  BY DEF Init, Written, Resource, Absent
<1>2. AccessInv /\ W /\ [Next]_vars => W'
  BY WrittenStep
<1>3. AccessInv /\ W =>
        [\A r \in IamBinding :
            Apply(r) \/ ApplyOrphan(r)
              => \A role \in Role \ RolesOf[r] :
                    OfRole(role, policy') = OfRole(role, policy)]_vars
  <2> SUFFICES ASSUME AccessInv, W, NEW r \in IamBinding, Apply(r) \/ ApplyOrphan(r),
                      NEW role \in Role \ RolesOf[r]
               PROVE  OfRole(role, policy') = OfRole(role, policy)
    OBVIOUS
  <2>1. r \in Resource /\ r \notin IamPolicy /\ Roles(r) = RolesOf[r] /\ Written(r)
    BY IamAccessAssumption DEF Resource, Roles
  <2>2. Apply(r)
    BY <2>1 DEF AccessInv, ApplyOrphan
  <2> QED BY <2>1, <2>2, ApplyOwnRoles
<1>4. Spec => []AccessInv
  BY AccessInvariant
<1> QED BY <1>1, <1>2, <1>3, <1>4, PTL DEF Spec, OtherRolesPreserved
=============================================================================
