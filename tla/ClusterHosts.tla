----------------------------- MODULE ClusterHosts -----------------------------
(***************************************************************************)
(* The hosts of a managed database cluster (pkg/mdbcommon/hosts.go, used   *)
(* by the redis, mysql and postgresql cluster resources): a plan gives     *)
(* each host a label of the user's, the API gives it an fqdn, and the      *)
(* provider must find out which is which, change the cluster call by call  *)
(* so that it never runs short of hosts, and survive an error anywhere.    *)
(*                                                                         *)
(* Go ranges over maps in any order, so the greedy matching of hosts to    *)
(* labels is any matching that cannot be extended (MaximalMatchings).      *)
(* The hosts are in one zone; its subnets stand for the attributes that    *)
(* cannot change.  pub stands for assign_public_ip, tune for the second    *)
(* changeable attribute: replica_priority (redis) or replication_source.   *)
(***************************************************************************)
EXTENDS Naturals, FiniteSets, Functions

CONSTANTS
    Label,          \* the labels the user may choose
    Fqdn,           \* the names the API may give (as many as its host quota)
    Subnet, Shard, Pub, Tune,
    Configs,        \* service -> the host maps the user may write
    AutoSubnets,    \* where the API puts a host that names no subnet
    MaxFailures,    \* bound: API calls that fail
    Unknown, Null   \* unknown value of a plan, null value of a state

Host == [fqdn : Fqdn \union {Unknown, Null}, subnet : Subnet \union {Unknown, Null},
         shard : Shard \union {Unknown, Null}, pub : Pub, tune : Tune]
ApiHost == [subnet : Subnet, shard : Shard, pub : Pub, tune : Tune]

(* The cluster resources, as their host services differ.                   *)
Service == {"redis", "mysql", "postgresql"}

ASSUME ClusterHostsAssumption ==
    /\ DOMAIN Configs \in SUBSET Service
    /\ \A v \in DOMAIN Configs : \A c \in Configs[v] :
          /\ DOMAIN c \in (SUBSET Label) \ {{}}
          /\ \A l \in DOMAIN c :
                c[l] \in [subnet : Subnet \union {Unknown},
                          shard : Shard \union {Unknown}, pub : Pub, tune : Tune]
    /\ AutoSubnets \in SUBSET Subnet
    /\ MaxFailures \in Nat
    /\ IsFiniteSet(Fqdn)
    /\ Label \intersect Fqdn = {}
    /\ {Unknown, Null} \intersect (Fqdn \union Subnet \union Shard \union Pub \union Tune) = {}
    /\ Unknown # Null

VARIABLES
    service,    \* which resource it is
    config,     \* user: label -> what is written about the host
    api,        \* server: fqdn -> attributes
    tf,         \* Terraform: label -> host (hosts nobody labelled: by fqdn)
    plan,       \* the plan being applied
    match,      \* labels of tf -> labels of plan: the same host
    work,       \* the API calls still to make
    pc,         \* idle, fresh (refreshed), apply
    failures

vars == <<service, config, api, tf, plan, match, work, pc, failures>>

NoWork == [newShards |-> {}, create |-> {}, update |-> {},
           goneShards |-> {}, drop |-> {}]
Work == [newShards : SUBSET Shard, create : SUBSET Label,
         update : SUBSET (Label \union Fqdn),
         goneShards : SUBSET Shard, drop : SUBSET (Fqdn \union {Null})]
PartialFunctions(S, T) == UNION {[D -> T] : D \in SUBSET S}

TypeOK ==
    /\ service \in DOMAIN Configs
    /\ config \in Configs[service]
    /\ DOMAIN api \in SUBSET Fqdn /\ Range(api) \in SUBSET ApiHost
    /\ DOMAIN tf \in SUBSET (Label \union Fqdn) /\ Range(tf) \in SUBSET Host
    /\ DOMAIN plan \in SUBSET Label /\ Range(plan) \in SUBSET Host
    /\ DOMAIN match \in SUBSET DOMAIN tf /\ Range(match) \in SUBSET DOMAIN plan
    /\ work \in Work
    /\ pc \in {"idle", "fresh", "apply"}
    /\ failures \in 0 .. MaxFailures

-----------------------------------------------------------------------------
(* Redis uses UpdateClusterHostsWithShards, the others UpdateClusterHosts. *)
Sharded == service = "redis"

(* The UpdateMask of GetChanges: assign_public_ip and replica_priority,    *)
(* whichever the second field is that the service compares.                *)
Mask == IF service = "redis" THEN {"pub", "tune"} ELSE {"pub"}

(* subnet_id of a host is Computed: the API may choose it.  Where it is    *)
(* only Optional, a subnet that is not written is null in every plan.      *)
SubnetComputed == service = "redis"

(* Update sets the state although the read-back has failed.                *)
SavesOnError == service # "redis"

(* Matching hosts.                                                         *)

(* Is this what the plan wants?  (HostService.FullyMatch)                  *)
FullyMatch(p, h) ==
    /\ p.subnet \in {Unknown, h.subnet}
    /\ p.shard \in {Unknown, h.shard}
    /\ p.pub = h.pub /\ p.tune = h.tune

(* Variant: an update can change the shard of a host, too.                 *)
PartialMatchAnyShard(p, h) ==
    /\ p.fqdn \in {Unknown, h.fqdn}
    /\ p.subnet \in {Unknown, h.subnet}

(* Can an update make it so?                                               *)
PartialMatch(p, h) ==
    /\ p.fqdn \in {Unknown, h.fqdn}
    /\ p.subnet \in {Unknown, h.subnet}
    /\ p.shard \in {Unknown, h.shard}

(* What two nested loops over S and T that pair what is still free find.   *)
MaximalMatchings(S, T, Pairs) ==
    {m \in PartialFunctions(S, T) :
        /\ \A s \in DOMAIN m : <<s, m[s]>> \in Pairs
        /\ IsInjective(m)
        /\ \A s \in S \ DOMAIN m, t \in T \ Range(m) : <<s, t>> \notin Pairs}

(* modifyStateDependsPlan: the same label first, then hosts that need no   *)
(* change, then those an update can change.                                *)
PlanMatchings(state, p) ==
    LET same == DOMAIN state \intersect DOMAIN p
        S == DOMAIN state \ same
        T == DOMAIN p \ same
        full == {x \in S \X T : FullyMatch(p[x[2]], state[x[1]])}
        part == {x \in S \X T : PartialMatch(p[x[2]], state[x[1]])}
        id == [l \in same |-> l]
        join(f, g) == [x \in DOMAIN f \union DOMAIN g |->
                          IF x \in DOMAIN f THEN f[x] ELSE g[x]]
    IN  UNION {{join(id, join(m, n)) :
                    n \in MaximalMatchings(S \ DOMAIN m, T \ Range(m), part)} :
                 m \in MaximalMatchings(S, T, full)}

(* shardsDiff: a shard without a name is only allowed alone.               *)
PlanShards(p) == {p[l].shard : l \in DOMAIN p}
StateShards(state) == {state[l].shard : l \in DOMAIN state}
ShardsUnclear(state, p) ==
    Sharded /\ Unknown \in PlanShards(p) /\ Cardinality(StateShards(state) \union PlanShards(p)) > 2
ShardsKnown(p) == Sharded /\ Unknown \notin PlanShards(p)
NewShards(state, p) ==
    IF ShardsKnown(p) THEN PlanShards(p) \ StateShards(state) ELSE {}
GoneShards(state, p) ==
    IF ShardsKnown(p) THEN StateShards(state) \ PlanShards(p) ELSE {}

(* Variant: one of the two fields is never compared.                       *)
ChangedTuneOnly(p, h) == p.tune # h.tune

(* GetChanges of a host that is in both.                                   *)
Changed(p, h) == p.pub # h.pub \/ p.tune # h.tune

(* Variant: hosts are deleted by label.                                    *)
DiffDropsLabels(state, p, m) ==
    [newShards |-> NewShards(state, p),
     create |-> DOMAIN p \ Range(m),
     update |-> {s \in DOMAIN m : Changed(p[m[s]], state[s])},
     goneShards |-> GoneShards(state, p),
     drop |-> DOMAIN state \ DOMAIN m]

(* hostsDiff, with deleteHostsDependsOnShards: a new shard comes with its  *)
(* hosts, and a deleted one takes them along.                              *)
Diff(state, p, m) ==
    LET new == NewShards(state, p)
        gone == GoneShards(state, p)
    IN  [newShards |-> new,
         create |-> {l \in DOMAIN p \ Range(m) : p[l].shard \notin new},
         update |-> {s \in DOMAIN m : Changed(p[m[s]], state[s])},
         goneShards |-> gone,
         drop |-> {state[s].fqdn : s \in DOMAIN state \ DOMAIN m}
                    \ {state[s].fqdn : s \in {x \in DOMAIN state : state[x].shard \in gone}}]

(* The plan: what is written, the rest as in the state (UseStateForUnknown *)
(* on fqdn, shard_name and a computed subnet_id).                          *)
PlanOf(c, state) ==
    LET old(l, field) == IF l \in DOMAIN state /\ state[l][field] # Null
                         THEN state[l][field] ELSE Unknown
        subnet(l) == IF SubnetComputed THEN old(l, "subnet") ELSE Null
    IN  [l \in DOMAIN c |->
            [fqdn |-> old(l, "fqdn"),
             subnet |-> IF c[l].subnet # Unknown THEN c[l].subnet ELSE subnet(l),
             shard |-> IF c[l].shard # Unknown THEN c[l].shard ELSE old(l, "shard"),
             pub |-> c[l].pub, tune |-> c[l].tune]]

(* ReadHosts: hosts with an fqdn are found by it, the others by their      *)
(* attributes, and what is left over is entered under its fqdn.            *)
Unnamed(hosts) == {l \in DOMAIN hosts : hosts[l].fqdn \notin Fqdn}
Untaken(hosts) == DOMAIN api \ {hosts[l].fqdn : l \in DOMAIN hosts}
ReadMatchings(hosts) ==
    MaximalMatchings(Unnamed(hosts), Untaken(hosts),
        {x \in Unnamed(hosts) \X Untaken(hosts) : FullyMatch(hosts[x[1]], api[x[2]])})

Named(f) == [fqdn |-> f, subnet |-> api[f].subnet, shard |-> api[f].shard,
             pub |-> api[f].pub, tune |-> api[f].tune]

(* Variant: only the hosts that were asked for are entered.                *)
ReadResultAsked(hosts, m) ==
    LET byFqdn == {l \in DOMAIN hosts \ Unnamed(hosts) : hosts[l].fqdn \in DOMAIN api}
    IN  [l \in byFqdn \union DOMAIN m |->
            IF l \in byFqdn THEN Named(hosts[l].fqdn) ELSE Named(m[l])]

ReadResult(hosts, m) ==
    LET byFqdn == {l \in DOMAIN hosts \ Unnamed(hosts) : hosts[l].fqdn \in DOMAIN api}
    IN  [l \in byFqdn \union DOMAIN m \union (Untaken(hosts) \ Range(m)) |->
            CASE l \in byFqdn -> Named(hosts[l].fqdn)
              [] l \in DOMAIN m -> Named(m[l])
              [] OTHER -> Named(l)]

(* "Expected host for label ..., but not was found".                       *)
Complete(hosts, m) == DOMAIN m = Unnamed(hosts)

-----------------------------------------------------------------------------
(* A cluster as it is after a successful create: one host a label, which   *)
(* the read-back has found (none is found for a plan with a null subnet).  *)
Init ==
    /\ service \in DOMAIN Configs
    /\ config \in Configs[service]
    /\ \E name \in [DOMAIN config -> Fqdn] :
          /\ IsInjective(name)
          /\ api \in [Range(name) -> ApiHost]
          /\ \A l \in DOMAIN config : FullyMatch(PlanOf(config, << >>)[l], api[name[l]])
          /\ tf = [l \in DOMAIN config |-> Named(name[l])]
    /\ (\A l \in DOMAIN config : config[l].shard = Unknown)
          => Cardinality({api[f].shard : f \in DOMAIN api}) = 1
    /\ plan = << >> /\ match = << >>
    /\ work = NoWork
    /\ pc = "idle"
    /\ failures = 0

(* The user changes the configuration between two applies.                 *)
Edit ==
    /\ pc = "idle"
    /\ config' \in Configs[service] \ {config}
    /\ UNCHANGED <<service, api, tf, plan, match, work, pc, failures>>

(* terraform apply reads the resource first.  The read fails when a host   *)
(* in the state has no fqdn and nothing looks like it.                     *)
Refresh ==
    /\ pc = "idle"
    /\ \E m \in ReadMatchings(tf) :
          /\ Complete(tf, m)
          /\ tf' = ReadResult(tf, m)
    /\ pc' = "fresh"
    /\ UNCHANGED <<service, config, api, plan, match, work, failures>>

Stop(st) ==
    /\ pc' = "idle"
    /\ tf' = st
    /\ plan' = << >> /\ match' = << >> /\ work' = NoWork

(* Nothing to do, or an error before the first call: labels that kept      *)
(* their host but not what cannot change, or an unnamed shard among others.*)
NothingToDo ==
    /\ pc = "fresh"
    /\ PlanOf(config, tf) = tf
    /\ Stop(tf)
    /\ UNCHANGED <<service, config, api, failures>>

Immutable(state, p, m) == \A s \in DOMAIN m : PartialMatch(p[m[s]], state[s])

Reject ==
    /\ pc = "fresh"
    /\ LET p == PlanOf(config, tf) IN
          \/ ShardsUnclear(tf, p)
          \/ \E m \in PlanMatchings(tf, p) : ~Immutable(tf, p, m)
    /\ Stop(tf)
    /\ UNCHANGED <<service, config, api, failures>>

StartUpdate ==
    /\ pc = "fresh"
    /\ LET p == PlanOf(config, tf) IN
          /\ p # tf
          /\ ~ShardsUnclear(tf, p)
          /\ plan' = p
          /\ \E m \in PlanMatchings(tf, p) :
                /\ Immutable(tf, p, m)
                /\ match' = m
                /\ work' = Diff(tf, p, m)
    /\ pc' = "apply"
    /\ UNCHANGED <<service, config, api, tf, failures>>

-----------------------------------------------------------------------------
(* The API calls, in the order of UpdateClusterHostsWithShards.  One that  *)
(* reports an error ends the update, and Terraform keeps the state it had. *)
(* done = FALSE: the call took effect but what followed it failed          *)
(* (op.Wait, or the rebalancing of a new shard).                           *)
Called(done, left) ==
    IF done
    THEN work' = left /\ UNCHANGED <<tf, plan, match, pc, failures>>
    ELSE /\ failures < MaxFailures
         /\ failures' = failures + 1
         /\ Stop(tf)

Used == DOMAIN api \union {tf[l].fqdn : l \in DOMAIN tf}

(* The server adds hosts for the labels L (external): what the request     *)
(* leaves empty, a subnet or a shard, it chooses.                          *)
Placements(h) ==
    [subnet : IF h.subnet \in {Unknown, Null} THEN AutoSubnets ELSE {h.subnet},
     shard : IF h.shard = Unknown THEN {api[f].shard : f \in DOMAIN api} ELSE {h.shard},
     pub : {h.pub}, tune : {h.tune}]

AddHosts(L) ==
    \E name \in [L -> Fqdn \ Used], host \in [L -> UNION {Placements(plan[l]) : l \in L}] :
        /\ IsInjective(name)
        /\ \A l \in L : host[l] \in Placements(plan[l])
        /\ api' = [f \in DOMAIN api \union Range(name) |->
                      IF f \in DOMAIN api THEN api[f]
                      ELSE host[CHOOSE l \in L : name[l] = f]]

CreateShard(s, done) ==
    /\ pc = "apply"
    /\ s \in work.newShards
    /\ AddHosts({l \in DOMAIN plan : plan[l].shard = s})
    /\ Called(done, [work EXCEPT !.newShards = @ \ {s}])
    /\ UNCHANGED <<service, config>>

CreateHost(l, done) ==
    /\ pc = "apply"
    /\ work.newShards = {}
    /\ l \in work.create
    /\ AddHosts({l})
    /\ Called(done, [work EXCEPT !.create = @ \ {l}])
    /\ UNCHANGED <<service, config>>

(* The fields outside the mask stay as they are.                           *)
UpdateHost(s, done) ==
    /\ pc = "apply"
    /\ work.newShards = {} /\ work.create = {}
    /\ s \in work.update
    /\ LET p == plan[match[s]] IN
          api' = [api EXCEPT
                    ![tf[s].fqdn].pub = IF "pub" \in Mask THEN p.pub ELSE @,
                    ![tf[s].fqdn].tune = IF "tune" \in Mask THEN p.tune ELSE @]
    /\ Called(done, [work EXCEPT !.update = @ \ {s}])
    /\ UNCHANGED <<service, config>>

Remove(hosts) == api' = [f \in DOMAIN api \ hosts |-> api[f]]

DeleteShard(s, done) ==
    /\ pc = "apply"
    /\ work.newShards = {} /\ work.create = {} /\ work.update = {}
    /\ s \in work.goneShards
    /\ Remove({f \in DOMAIN api : api[f].shard = s})
    /\ Called(done, [work EXCEPT !.goneShards = @ \ {s}])
    /\ UNCHANGED <<service, config>>

(* Variant: the hosts that are to go are deleted first.                    *)
DeleteHostFirst(f, done) ==
    /\ pc = "apply"
    /\ f \in work.drop
    /\ Remove({f})
    /\ Called(done, [work EXCEPT !.drop = @ \ {f}])
    /\ UNCHANGED <<service, config>>

DeleteHost(f, done) ==
    /\ pc = "apply"
    /\ work.newShards = {} /\ work.create = {} /\ work.update = {}
    /\ work.goneShards = {}
    /\ f \in work.drop
    /\ f \in DOMAIN api
    /\ Remove({f})
    /\ Called(done, [work EXCEPT !.drop = @ \ {f}])
    /\ UNCHANGED <<service, config>>

(* A call is refused.                                                      *)
CallFails ==
    /\ pc = "apply"
    /\ work # NoWork
    /\ failures < MaxFailures
    /\ failures' = failures + 1
    /\ Stop(tf)
    /\ UNCHANGED <<service, config, api>>

(* Everything is done: the plan is read back (clusterRead,                 *)
(* refreshResourceState).                                                  *)
ReadBack ==
    /\ pc = "apply"
    /\ work = NoWork
    /\ \E m \in ReadMatchings(plan) :
          /\ Complete(plan, m)
          /\ Stop(ReadResult(plan, m))
    /\ UNCHANGED <<service, config, api, failures>>

(* No host for some label: redis keeps the old state, mysql and postgresql *)
(* save the plan with the nil map that ReadHosts has returned.             *)
ReadBackWrong ==
    /\ pc = "apply"
    /\ work = NoWork
    /\ \E m \in ReadMatchings(plan) : ~Complete(plan, m)
    /\ Stop(IF SavesOnError THEN << >> ELSE tf)
    /\ UNCHANGED <<service, config, api, failures>>

(* What Terraform makes of a plan that is saved: unknown becomes null.     *)
Nulled(h) == [f \in DOMAIN h |-> IF h[f] = Unknown THEN Null ELSE h[f]]

(* GetCluster or ListHosts fails.                                          *)
ReadBackFails ==
    /\ pc = "apply"
    /\ work = NoWork
    /\ failures < MaxFailures
    /\ failures' = failures + 1
    /\ \E st \in IF SavesOnError THEN {<< >>, [l \in DOMAIN plan |-> Nulled(plan[l])]}
                                 ELSE {tf} : Stop(st)
    /\ UNCHANGED <<service, config, api>>

-----------------------------------------------------------------------------
Call ==
    \/ \E s \in Shard : CreateShard(s, TRUE) \/ DeleteShard(s, TRUE)
    \/ \E l \in Label : CreateHost(l, TRUE)
    \/ \E s \in Label \union Fqdn : UpdateHost(s, TRUE)
    \/ \E f \in Fqdn : DeleteHost(f, TRUE)

CallBreaksOff ==
    \/ \E s \in Shard : CreateShard(s, FALSE) \/ DeleteShard(s, FALSE)
    \/ \E l \in Label : CreateHost(l, FALSE)
    \/ \E s \in Label \union Fqdn : UpdateHost(s, FALSE)
    \/ \E f \in Fqdn : DeleteHost(f, FALSE)

Progress ==
    \/ Refresh \/ NothingToDo \/ Reject \/ StartUpdate
    \/ Call \/ ReadBack \/ ReadBackWrong

Next == Edit \/ Progress \/ CallBreaksOff \/ CallFails \/ ReadBackFails

Spec == Init /\ [][Next]_vars

(* Somebody keeps applying.                                                *)
FairSpec == Spec /\ WF_vars(Progress)

-----------------------------------------------------------------------------
(* A host that the plan keeps is never deleted, not with its shard either  *)
(* (hosts.go:259-285, 182-191): the shards that go are found by name only. *)
KeptHostsSurvive ==
    [][pc = "apply" => \A s \in DOMAIN match : tf[s].fqdn \in DOMAIN api']_vars

(* Hosts go last: whenever one is deleted, the cluster still has as many   *)
(* as the plan wants (hosts.go:114-118), even if the update breaks off.    *)
DeletesLast ==
    [][DOMAIN api \ DOMAIN api' # {}
          => Cardinality(DOMAIN api') >= Cardinality(DOMAIN plan)]_vars

(* Each label has a host of its own, as written, and there is no other.    *)
Realised ==
    /\ DOMAIN tf = DOMAIN config
    /\ {tf[l].fqdn : l \in DOMAIN tf} = DOMAIN api
    /\ IsInjective([l \in DOMAIN tf |-> tf[l].fqdn])
    /\ \A l \in DOMAIN tf : FullyMatch(config[l], api[tf[l].fqdn])

(* An update that succeeds has made the cluster what was written, after    *)
(* whatever failures before (hosts.go:66-69 and 100 to 192).               *)
SuccessRealises == [][ReadBack => Realised']_vars

(* ReadHosts, hosts.go:521-527: after a successful change every label has  *)
(* its host, otherwise "This is a problem with the provider".              *)
ReadBackFindsAll ==
    pc = "apply" /\ work = NoWork
        => \A m \in ReadMatchings(plan) : Complete(plan, m)

(* What the update mask leaves out is alike in all configurations.         *)
MaskCovers ==
    \A v \in DOMAIN Configs \ {"redis"} : \A c, e \in Configs[v] :
        \A l \in DOMAIN c, k \in DOMAIN e : c[l].tune = e[k].tune

(* A configuration names the subnet of each of its hosts, or of none where *)
(* subnet_id is computed; and the shard of each or of none.                *)
NamedAlike ==
    \A v \in DOMAIN Configs : \A c \in Configs[v] : \A l, k \in DOMAIN c :
        /\ v # "redis" => c[l].subnet # Unknown
        /\ c[l].subnet = Unknown <=> c[k].subnet = Unknown
        /\ c[l].shard = Unknown <=> c[k].shard = Unknown

(* Applying again and again ends with what was written, however an earlier *)
(* apply broke off, if the configuration and the API settle and the plan   *)
(* is not rejected or read back wrong for ever (hosts.go:100-192).         *)
RetriesConverge ==
    \A c \in UNION Range(Configs) :
        <>[](config = c) /\ <>[][~Reject /\ ~ReadBackWrong]_vars
            => <>[](Realised /\ config = c)
=============================================================================
