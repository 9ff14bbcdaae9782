---------------------------- MODULE ResourceApply ----------------------------
(***************************************************************************)
(* One resource of the provider, applied again and again.  Terraform       *)
(* refreshes the state with the resource's Read, compares it with the      *)
(* configuration, and calls Create, Update, or Delete and Create.  These   *)
(* handlers make several API calls, and any of them may be refused, or     *)
(* take effect and be reported failed (op.Wait runs into its deadline).    *)
(* What is in the state after an error decides whether the next apply      *)
(* repeats what was not done - or never notices.                           *)
(*                                                                         *)
(* Rows says what the handlers of each resource do; the rest is the same   *)
(* for all: Terraform core, the plugin SDK and the plugin framework.       *)
(***************************************************************************)
EXTENDS ResourceRow

CONSTANTS
    Rows,           \* kind of resource -> its row
    Focus,          \* kind -> the sets of arguments that the user may write
    Value,          \* what an argument may be
    MaxFailures,    \* bound: calls that fail and objects that others delete
    Gap,            \* kind -> arguments that the promises below leave out
    Orphans,        \* kinds that may lose the object they create
    Stuck           \* kinds whose Read fails when the object is gone

Kind == DOMAIN Rows

CreateType(A) == [id : {"accepted", "done", "saved", "adopted"}, calls : Seq(SUBSET A)]
ReadType(A) == [takes : SUBSET A, gone : BOOLEAN]
UpdateType(A) ==
    [keeps : {"plan", "partial", "prior"}, strict : BOOLEAN, refuses : SUBSET A,
     calls : Seq([on : SUBSET A, sends : SUBSET A, whole : BOOLEAN])]
RowType(A) ==
    [forceNew : SUBSET A, args : {A}, create : CreateType(A), read : ReadType(A),
     update : UpdateType(A), delete : {Tolerant, Exacting, Forgetful, Careless}]

ASSUME RowsAssumption ==
    \A k \in Kind :
       /\ Rows[k] \in RowType(Rows[k].args)
       /\ Rows[k].create.calls # << >>
       /\ \A S \in Focus[k] : S \subseteq Rows[k].args
ASSUME MaxFailuresAssumption == MaxFailures \in Nat

VARIABLES
    kind,       \* which resource it is
    args,       \* the arguments that the user writes; the others never change
    config,     \* what the user has written
    wanted,     \* whether the user has written the resource at all
    status,     \* of the resource in Terraform's state: absent, tainted, known
    state,      \* the arguments in Terraform's state
    exists,     \* whether the object exists at the server
    object,     \* the arguments of the object
    orphaned,   \* history: an object was created that no state knows
    unsure,     \* history: arguments that a failed Update wrote
    pc,         \* idle, fresh (refreshed), create, update, delete
    todo,       \* the calls of Create or Update still to make
    failures

local == <<status, state>>
remote == <<exists, object, orphaned>>
written == <<config, wanted>>
vars == <<kind, args, config, wanted, status, state, exists, object, orphaned, unsure, pc,
          todo, failures>>

Create == Rows[kind].create
Read == Rows[kind].read
Update == Rows[kind].update
Delete == Rows[kind].delete
ForceNew == Rows[kind].forceNew

Changed == {a \in args : config[a] # state[a]}
Due == {i \in DOMAIN Update.calls : Update.calls[i].on \intersect Changed # {}}
Sent(i) ==
    IF pc = "create" THEN Create.calls[i]
    ELSE IF Update.calls[i].whole THEN Update.calls[i].sends
    ELSE Update.calls[i].sends \intersect Changed
Written(calls) == (UNION {Sent(i) : i \in calls}) \intersect Changed

(* The values of old, and those of new for the arguments in S.             *)
Over(old, new, S) == [a \in args |-> IF a \in S THEN new[a] ELSE old[a]]

Diff == status # "known" \/ Changed # {} \/ ~wanted
Replaces == status = "tainted" \/ Changed \intersect ForceNew # {}
Refused == (Due = {} /\ Update.strict) \/ Changed \intersect Update.refuses # {}

Init ==
    /\ kind \in Kind
    /\ args \in Focus[kind]
    /\ config \in [args -> Value]
    /\ wanted = TRUE
    /\ status = "absent"
    /\ state = config
    /\ exists = FALSE
    /\ object = config
    /\ orphaned = FALSE
    /\ unsure = {}
    /\ pc = "idle"
    /\ todo = {}
    /\ failures = 0

Fails == failures < MaxFailures /\ failures' = failures + 1

(* The user writes another configuration, takes the resource out of it or  *)
(* puts it back in; somebody deletes the object.                           *)
Edit ==
    /\ pc = "idle"
    /\ \/ /\ wanted /\ config' \in [args -> Value] \ {config}
          /\ UNCHANGED wanted
       \/ /\ wanted' = ~wanted
          /\ UNCHANGED config
    /\ UNCHANGED <<kind, args, local, remote, unsure, pc, todo, failures>>

Vanish ==
    /\ pc \in {"idle", "delete"} /\ exists
    /\ exists' = FALSE
    /\ Fails
    /\ UNCHANGED <<kind, args, written, local, object, orphaned, unsure, pc, todo>>

(* terraform plan, the first half: Read.                                   *)
Refresh ==
    /\ pc = "idle"
    /\ pc' = "fresh"
    /\ \/ /\ status = "absent"
          /\ UNCHANGED <<local, unsure>>
       \/ /\ status # "absent" /\ exists
          /\ state' = Over(state, object, Read.takes)
          /\ unsure' = unsure \ Read.takes
          /\ UNCHANGED status
       \/ /\ status # "absent" /\ ~exists /\ Read.gone
          /\ status' = "absent"
          /\ UNCHANGED <<state, unsure>>
    /\ UNCHANGED <<kind, args, written, remote, todo, failures>>

(* The second half: what there is to do.                                   *)
NothingToDo ==
    /\ pc = "fresh"
    /\ ~Diff \/ (status = "absent" /\ ~wanted)
    /\ pc' = "idle"
    /\ UNCHANGED <<kind, args, written, local, remote, unsure, todo, failures>>

StartCreate ==
    /\ pc = "fresh" /\ status = "absent" /\ wanted
    /\ pc' = "create"
    /\ todo' = DOMAIN Create.calls
    /\ UNCHANGED <<kind, args, written, local, remote, unsure, failures>>

StartDelete ==
    /\ pc = "fresh" /\ status # "absent" /\ (~wanted \/ Replaces)
    /\ pc' = "delete"
    /\ UNCHANGED <<kind, args, written, local, remote, unsure, todo, failures>>

(* Variant: Update returns after the first of its calls.                   *)
StartUpdateFirst ==
    /\ pc = "fresh" /\ status = "known" /\ wanted /\ Changed # {} /\ ~Replaces
    /\ ~Refused
    /\ pc' = "update"
    /\ todo' = {i \in Due : \A j \in Due : i <= j}
    /\ UNCHANGED <<kind, args, written, local, remote, unsure, failures>>

StartUpdate ==
    /\ pc = "fresh" /\ status = "known" /\ wanted /\ Changed # {} /\ ~Replaces
    /\ ~Refused
    /\ pc' = "update"
    /\ todo' = Due
    /\ UNCHANGED <<kind, args, written, local, remote, unsure, failures>>

(* A call of Create or Update.  The first one of Create makes the object;  *)
(* an argument that it does not send gets any value.                       *)
Results(i) ==
    IF pc = "create" /\ i = 1 THEN {Over(v, config, Sent(i)) : v \in [args -> Value]}
    ELSE {Over(object, config, Sent(i))}
IsNext(i) == \A j \in todo : i <= j

CallDone ==
    /\ \E i \in todo :
          /\ IsNext(i)
          /\ object' \in Results(i)
          /\ todo' = todo \ {i}
    /\ exists' = TRUE
    /\ UNCHANGED <<kind, args, written, local, orphaned, unsure, pc, failures>>

(* Variant: the id is set after the wait.                                  *)
KeepsLate(i) == i # 1 /\ Create.id \in {"accepted", "done"}

(* After the failure of call i of Create the object is in the state and    *)
(* tainted, or it is not there: nobody deletes what the API made of it.    *)
Keeps(i) == IF i = 1 THEN Create.id = "accepted" ELSE Create.id \in {"accepted", "done"}
Loses(i, took) == ~Keeps(i) \/ (i = 1 /\ ~took)
Own == Create.id # "adopted"

CreateFails ==
    /\ pc = "create" /\ Fails
    /\ \E i \in todo, took \in BOOLEAN :
          /\ IsNext(i)
          /\ IF took THEN object' \in Results(i) ELSE UNCHANGED object
          /\ \/ /\ Keeps(i)
                /\ status' = "tainted" /\ state' = config
                /\ exists' = (exists \/ took)
                /\ UNCHANGED orphaned
             \/ /\ Loses(i, took)
                /\ exists' = FALSE
                /\ orphaned' = (orphaned \/ (Own /\ (exists \/ took)))
                /\ UNCHANGED local
    /\ pc' = "idle" /\ todo' = {} /\ unsure' = {}
    /\ UNCHANGED <<kind, args, written>>

(* Variant: the handler goes on after the error.                           *)
UpdateFailsMidway ==
    /\ pc = "update" /\ Fails
    /\ \E i \in todo : todo' = todo \ {i}
    /\ pc' = "idle"
    /\ UNCHANGED <<kind, args, written, local, remote, unsure>>

(* Variant: d.Partial(true) is forgotten, or the framework's state is set  *)
(* before the calls.                                                       *)
UpdateFailsAsPlanned ==
    /\ pc = "update" /\ Fails
    /\ \E i \in todo, took \in BOOLEAN :
          /\ IsNext(i)
          /\ IF took THEN object' \in Results(i) ELSE UNCHANGED object
          /\ unsure' = unsure \union Written((Due \ todo) \union IF took THEN {i} ELSE {})
    /\ state' = config
    /\ pc' = "idle" /\ todo' = {}
    /\ UNCHANGED <<kind, args, written, status, exists, orphaned>>

UpdateFails ==
    /\ pc = "update" /\ Fails
    /\ \E i \in todo, took \in BOOLEAN :
          /\ IsNext(i)
          /\ IF took THEN object' \in Results(i) ELSE UNCHANGED object
          /\ unsure' = unsure \union Written((Due \ todo) \union IF took THEN {i} ELSE {})
    /\ state' = IF Update.keeps = "plan" THEN config ELSE state
    /\ pc' = "idle" /\ todo' = {}
    /\ UNCHANGED <<kind, args, written, status, exists, orphaned>>

(* Update makes no call: it refuses the change, or there is no call for it *)
(* and that is an error.                                                   *)
UpdateRefused ==
    /\ pc = "fresh" /\ status = "known" /\ wanted /\ Changed # {} /\ ~Replaces
    /\ Refused
    /\ state' = IF Update.keeps = "plan" THEN config ELSE state
    /\ pc' = "idle"
    /\ UNCHANGED <<kind, args, written, status, remote, unsure, todo, failures>>

(* Create and Update read the object back at their end.                    *)
ReadBack(u) ==
    /\ todo = {}
    /\ state' = Over(config, object, Read.takes)
    /\ status' = "known"
    /\ unsure' = u
    /\ pc' = "idle"
    /\ UNCHANGED <<kind, args, written, remote, todo, failures>>

FinishCreate == pc = "create" /\ ReadBack({})
FinishUpdate == pc = "update" /\ ReadBack(unsure \ UNION {Sent(i) : i \in Due})

(* When this fails, a Create that saves the state at its end may lose the  *)
(* object, and a handler of the framework may save what was planned.       *)
ReadBackFails ==
    /\ todo = {} /\ Fails
    /\ \/ /\ pc = "create"
          /\ status' = "tainted" /\ state' = config /\ unsure' = {}
          /\ UNCHANGED <<exists, orphaned>>
       \/ /\ pc = "create" /\ Create.id = "saved"
          /\ exists' = FALSE /\ orphaned' = TRUE /\ unsure' = {}
          /\ UNCHANGED local
       \/ /\ pc = "update"
          /\ state' \in IF Update.keeps = "prior" THEN {state, config} ELSE {config}
          /\ unsure' = unsure \union Written(Due)
          /\ UNCHANGED <<status, exists, orphaned>>
    /\ pc' = "idle"
    /\ UNCHANGED <<kind, args, written, object, todo>>

(* Delete, also as the first half of a replacement.                        *)
Insists == Delete \in {Exacting, Careless}
Forgotten(left) ==
    /\ status' = "absent"
    /\ exists' = FALSE
    /\ orphaned' = (orphaned \/ (Own /\ left))
    /\ \/ /\ wanted
          /\ pc' = "create" /\ todo' = DOMAIN Create.calls
       \/ /\ ~wanted
          /\ pc' = "idle" /\ UNCHANGED todo

DeleteDone ==
    /\ pc = "delete"
    /\ exists \/ ~Insists
    /\ Forgotten(exists /\ Delete = Forgetful)
    /\ UNCHANGED <<kind, args, written, state, object, unsure, failures>>

DeleteMissing ==
    /\ pc = "delete"
    /\ ~exists /\ Insists
    /\ pc' = "idle"
    /\ UNCHANGED <<kind, args, written, local, remote, unsure, todo, failures>>

DeleteFails ==
    /\ pc = "delete" /\ Delete # Forgetful /\ Fails
    /\ \/ /\ exists' \in {exists, FALSE}
          /\ pc' = "idle"
          /\ UNCHANGED <<status, orphaned, todo>>
       \/ Delete = Careless /\ exists /\ Forgotten(exists)
    /\ UNCHANGED <<kind, args, written, state, object, unsure>>

Apply ==
    \/ Refresh \/ NothingToDo \/ StartCreate \/ StartDelete \/ StartUpdate
    \/ UpdateRefused \/ CallDone \/ FinishCreate \/ FinishUpdate
    \/ DeleteDone \/ DeleteMissing
Fault == CreateFails \/ UpdateFails \/ ReadBackFails \/ DeleteFails \/ Vanish
Next == Apply \/ Fault \/ Edit

Spec == Init /\ [][Next]_vars
(* terraform apply is run again until there is nothing to do.              *)
FairSpec == Spec /\ WF_vars(Apply)

-----------------------------------------------------------------------------
(* When a row can be trusted, whatever fails (see ResourceApply_proof):    *)
(* what it promises is sent by Create, is sent by an Update that is called *)
(* for it, and is read again if a failed Update leaves the plan.           *)
Kept(k) == Rows[k].args \ Gap[k]
Faithful(k) ==
    LET r == Rows[k] IN
    /\ \A a \in Kept(k) : \E i \in DOMAIN r.create.calls : a \in r.create.calls[i]
    /\ \A a \in Kept(k) \ (r.forceNew \union r.update.refuses) :
          \E i \in DOMAIN r.update.calls :
              a \in r.update.calls[i].on \intersect r.update.calls[i].sends
    /\ r.update.keeps = "plan" => Kept(k) \subseteq r.read.takes \union r.forceNew

(* Create knows its object before it waits, and Delete insists on it.      *)
Careful(k) ==
    \/ Rows[k].create.id = "adopted"
    \/ Rows[k].create.id = "accepted" /\ Rows[k].delete \in {Tolerant, Exacting}

(* Types; only calls that are still to make are in todo.                   *)
TypeOK ==
    /\ kind \in Kind
    /\ args \subseteq Rows[kind].args
    /\ config \in [args -> Value]
    /\ wanted \in BOOLEAN
    /\ status \in {"absent", "tainted", "known"}
    /\ state \in [args -> Value]
    /\ exists \in BOOLEAN
    /\ object \in [args -> Value]
    /\ orphaned \in BOOLEAN
    /\ unsure \subseteq args
    /\ pc \in {"idle", "fresh", "create", "update", "delete"}
    /\ todo \subseteq IF pc = "create" THEN DOMAIN Create.calls
                     ELSE IF pc = "update" THEN DOMAIN Update.calls ELSE {}
    /\ failures \in 0 .. MaxFailures

Promised == args \ (Gap[kind] \union unsure)
AsConfigured == exists /\ \A a \in Promised : object[a] = config[a]

(* If a plan made from the refreshed state shows nothing to do, the object *)
(* is there and is what the user has written: whatever failed before, no   *)
(* handler left a state that hides the difference.  (An argument that the  *)
(* API does not return can be restored by the user after a failed Update   *)
(* that had written it; nothing can tell then.)                            *)
NoDiffMeansApplied == pc = "fresh" /\ ~Diff => AsConfigured

(* A Create or Update that returns without an error has brought the object *)
(* to what the user has written, also the arguments that earlier failures  *)
(* left behind.                                                            *)
Succeeds ==
    /\ pc \in {"create", "update"}
    /\ pc' = "idle"
    /\ UNCHANGED failures
SuccessApplies == [][Succeeds => AsConfigured']_vars

(* An object that Create has made is in the state also when Create fails:  *)
(* the id is taken from the operation before it is waited for.             *)
NothingOrphaned == orphaned => kind \in Orphans

(* Once the user stops editing, applying again brings the object to what   *)
(* is written, or deletes it if nothing is: no failure leaves a state from *)
(* which the applies do not get there.                                     *)
Converged ==
    IF wanted THEN status = "known" /\ (AsConfigured \/ Changed \intersect Update.refuses # {})
    ELSE status = "absent"
RetriesConverge ==
    <>[][UNCHANGED written]_vars => []<>(kind \in Stuck \/ Converged)
=============================================================================
