-------------------------- MODULE ClusterHosts_proof --------------------------
(***************************************************************************)
(* For any configurations, labels, shards and subnets, whatever call fails *)
(* and whatever order Go ranges over its maps in: the types (TypeOK), and  *)
(* an update never deletes a host that the plan keeps (KeptHostsSurvive).  *)
(*                                                                         *)
(* KeptHostsSurvive is not inductive.  What keeps it is that a refreshed   *)
(* state says where its hosts are (Refreshed), that no two labels name one *)
(* host (DistinctNames), so that deleting the hosts without a label of the *)
(* plan cannot hit one with a label, and that PartialMatch keeps a matched *)
(* host in its shard, so that its shard is one of the plan's (Spared).     *)
(***************************************************************************)
EXTENDS ClusterHosts, TLAPS

DistinctNames(st) ==
    \A l, k \in DOMAIN st : st[l].fqdn \in Fqdn /\ st[l].fqdn = st[k].fqdn => l = k

StateOK(st) ==
    /\ DOMAIN st \in SUBSET (Label \union Fqdn)
    /\ Range(st) \in SUBSET Host
    /\ DistinctNames(st)

PlanOK(p) ==
    /\ DOMAIN p \in SUBSET Label
    /\ Range(p) \in SUBSET Host
    /\ DistinctNames(p)
    /\ \A l \in DOMAIN p : p[l].shard # Null

ApiOK == DOMAIN api \in SUBSET Fqdn /\ Range(api) \in SUBSET ApiHost

(* Every host of the state is there, and is as the state says.             *)
Refreshed(st) == \A l \in DOMAIN st : st[l].fqdn \in DOMAIN api /\ st[l] = Named(st[l].fqdn)

(* A host with a label in the plan is there and will not be deleted.       *)
Spared(s) ==
    /\ tf[s].fqdn \in DOMAIN api
    /\ tf[s].fqdn \notin work.drop
    /\ api[tf[s].fqdn].shard \notin work.goneShards

KeptInv ==
    /\ TypeOK
    /\ DistinctNames(tf)
    /\ PlanOK(plan)
    /\ pc # "apply" => match = << >>
    /\ pc = "fresh" => Refreshed(tf)
    /\ pc = "apply" =>
          /\ work.create \subseteq DOMAIN plan
          /\ work.update \subseteq DOMAIN match
          /\ \A s \in DOMAIN match : Spared(s)

(* What a call may not do: it leaves the hosts of the plan where they are. *)
Surviving ==
    \A s \in DOMAIN match : /\ tf[s].fqdn \in DOMAIN api'
                            /\ api'[tf[s].fqdn].shard = api[tf[s].fqdn].shard

-----------------------------------------------------------------------------
(* A map without hosts is a state, and a plan.                             *)
LEMMA EmptyMap == DOMAIN << >> = {} /\ Range(<< >>) = {}
<1>1. DOMAIN << >> = {}
  OBVIOUS
<1> QED BY <1>1 DEF Range

(* No calls to make.                                                       *)
LEMMA NoWorkType == NoWork \in Work
  BY DEF NoWork, Work

(* The fields of a host of the plan or the state.                          *)
LEMMA HostType ==
  ASSUME NEW h \in Host
  PROVE  /\ h.fqdn \in Fqdn \union {Unknown, Null}
         /\ h.subnet \in Subnet \union {Unknown, Null}
         /\ h.shard \in Shard \union {Unknown, Null}
         /\ h.pub \in Pub /\ h.tune \in Tune
  BY DEF Host

(* A host of the API, and what ReadHosts enters for it.                    *)
LEMMA ApiHostType ==
  ASSUME ApiOK, NEW f \in DOMAIN api
  PROVE  /\ api[f] \in ApiHost
         /\ f \in Fqdn
         /\ Named(f) \in Host /\ Named(f).fqdn = f /\ Named(f).shard = api[f].shard
<1>1. api[f] \in ApiHost
  BY DEF ApiOK, Range
<1>2. /\ api[f].subnet \in Subnet /\ api[f].shard \in Shard
      /\ api[f].pub \in Pub /\ api[f].tune \in Tune
  BY <1>1 DEF ApiHost
<1>3. f \in Fqdn
  BY DEF ApiOK
<1> QED BY <1>1, <1>2, <1>3 DEF Named, Host

(* ReadHosts gives a state in which every host is named once and is there. *)
LEMMA ReadResultType ==
  ASSUME ApiOK, NEW hosts, StateOK(hosts), NEW m \in ReadMatchings(hosts)
  PROVE  StateOK(ReadResult(hosts, m)) /\ Refreshed(ReadResult(hosts, m))
<1> DEFINE R == ReadResult(hosts, m)
           byFqdn == {l \in DOMAIN hosts \ Unnamed(hosts) : hosts[l].fqdn \in DOMAIN api}
           rest == Untaken(hosts) \ Range(m)
           name(l) == IF l \in byFqdn THEN hosts[l].fqdn
                      ELSE IF l \in DOMAIN m THEN m[l] ELSE l
<1>1. /\ DOMAIN m \subseteq Unnamed(hosts)
      /\ \A l \in DOMAIN m : m[l] \in Untaken(hosts)
      /\ IsInjective(m)
  BY DEF ReadMatchings, MaximalMatchings, PartialFunctions
<1>2. DOMAIN R = byFqdn \union DOMAIN m \union rest
  BY DEF ReadResult
<1>3. \A l \in DOMAIN R : R[l] = Named(name(l))
  BY <1>1, <1>2 DEF ReadResult
<1>4. \A l \in DOMAIN R : name(l) \in DOMAIN api
  BY <1>1, <1>2 DEF Untaken
<1>5. \A l \in DOMAIN R : R[l] \in Host /\ R[l].fqdn = name(l)
  BY <1>3, <1>4, ApiHostType
<1>6. \A l, k \in DOMAIN R : name(l) = name(k) => l = k
  <2> SUFFICES ASSUME NEW l \in DOMAIN R, NEW k \in DOMAIN R, name(l) = name(k)
               PROVE  l = k
    OBVIOUS
  <2>1. \A x \in byFqdn : hosts[x].fqdn \notin Untaken(hosts)
    BY DEF Untaken
  <2>2. \A x \in DOMAIN R \ byFqdn : name(x) \in Untaken(hosts)
    BY <1>1, <1>2
  <2>3. CASE l \in byFqdn \/ k \in byFqdn
    <3>1. l \in byFqdn /\ k \in byFqdn
      BY <2>1, <2>2, <2>3
    <3>2. hosts[l].fqdn = hosts[k].fqdn /\ hosts[l].fqdn \in Fqdn
      BY <3>1 DEF ApiOK
    <3> QED BY <3>1, <3>2 DEF StateOK, DistinctNames
  <2>4. CASE l \notin byFqdn /\ k \notin byFqdn
    <3>1. CASE l \in DOMAIN m /\ k \in DOMAIN m
      BY <1>1, <2>4, <3>1 DEF IsInjective
    <3>2. CASE l \notin DOMAIN m \/ k \notin DOMAIN m
      BY <1>2, <2>4, <3>2 DEF Range
    <3> QED BY <3>1, <3>2
  <2> QED BY <2>3, <2>4
<1>7. DOMAIN R \subseteq Label \union Fqdn
  BY <1>1, <1>2 DEF StateOK, Unnamed, Untaken, ApiOK
<1>8. Range(R) \subseteq Host
  BY <1>5 DEF Range
<1>9. DistinctNames(R)
  BY <1>5, <1>6 DEF DistinctNames
<1>10. Refreshed(R)
  BY <1>3, <1>4, <1>5 DEF Refreshed
<1> HIDE DEF R
<1> QED BY <1>7, <1>8, <1>9, <1>10 DEF StateOK, R

(* What Terraform keeps of a plan whose read-back failed is a state.       *)
LEMMA NulledType ==
  ASSUME NEW p, PlanOK(p)
  PROVE  StateOK([l \in DOMAIN p |-> Nulled(p[l])])
<1> DEFINE N == [l \in DOMAIN p |-> Nulled(p[l])]
<1>1. ASSUME NEW l \in DOMAIN p
      PROVE  N[l] \in Host /\ N[l].fqdn = (IF p[l].fqdn = Unknown THEN Null ELSE p[l].fqdn)
  <2>1. p[l] \in Host
    BY DEF PlanOK, Range
  <2>2. DOMAIN p[l] = {"fqdn", "subnet", "shard", "pub", "tune"}
    BY <2>1 DEF Host
  <2>3. p[l].pub # Unknown /\ p[l].tune # Unknown
    BY <2>1, HostType, ClusterHostsAssumption
  <2>4. N[l] = [fqdn |-> IF p[l].fqdn = Unknown THEN Null ELSE p[l].fqdn,
                subnet |-> IF p[l].subnet = Unknown THEN Null ELSE p[l].subnet,
                shard |-> IF p[l].shard = Unknown THEN Null ELSE p[l].shard,
                pub |-> p[l].pub, tune |-> p[l].tune]
    BY <2>2, <2>3 DEF Nulled
  <2> QED BY <2>1, <2>4, HostType DEF Host
<1>2. Range(N) \subseteq Host /\ DOMAIN N \subseteq Label
  BY <1>1 DEF Range, PlanOK
<1>3. DistinctNames(N)
  BY <1>1, ClusterHostsAssumption DEF DistinctNames, PlanOK
<1> QED BY <1>2, <1>3 DEF StateOK

(* A plan is typed, names no host twice, and has no null shard.            *)
LEMMA PlanOfType ==
  ASSUME TypeOK, DistinctNames(tf)
  PROVE  PlanOK(PlanOf(config, tf))
<1> DEFINE P == PlanOf(config, tf)
<1>1. DOMAIN P = DOMAIN config /\ DOMAIN config \subseteq Label
  BY ClusterHostsAssumption DEF PlanOf, TypeOK
<1>2. ASSUME NEW l \in DOMAIN P
      PROVE  /\ P[l] \in Host /\ P[l].shard # Null
             /\ P[l].fqdn \in Fqdn => l \in DOMAIN tf /\ P[l].fqdn = tf[l].fqdn
  <2>1. /\ config[l].subnet \in Subnet \union {Unknown}
        /\ config[l].shard \in Shard \union {Unknown}
        /\ config[l].pub \in Pub /\ config[l].tune \in Tune
    BY <1>1, ClusterHostsAssumption DEF TypeOK
  <2>2. l \in DOMAIN tf => /\ tf[l].fqdn \in Fqdn \union {Unknown, Null}
                           /\ tf[l].subnet \in Subnet \union {Unknown, Null}
                           /\ tf[l].shard \in Shard \union {Unknown, Null}
    BY HostType DEF TypeOK, Range
  <2>3. /\ P[l].fqdn = (IF l \in DOMAIN tf /\ tf[l].fqdn # Null THEN tf[l].fqdn ELSE Unknown)
        /\ P[l].subnet = (IF config[l].subnet # Unknown THEN config[l].subnet
                          ELSE IF ~SubnetComputed THEN Null
                          ELSE IF l \in DOMAIN tf /\ tf[l].subnet # Null
                               THEN tf[l].subnet ELSE Unknown)
        /\ P[l].shard = (IF config[l].shard # Unknown THEN config[l].shard
                         ELSE IF l \in DOMAIN tf /\ tf[l].shard # Null
                              THEN tf[l].shard ELSE Unknown)
        /\ P[l].pub = config[l].pub /\ P[l].tune = config[l].tune
        /\ P[l] = [fqdn |-> P[l].fqdn, subnet |-> P[l].subnet, shard |-> P[l].shard,
                   pub |-> P[l].pub, tune |-> P[l].tune]
    BY <1>1 DEF PlanOf
  <2>4. /\ P[l].fqdn \in Fqdn \union {Unknown, Null}
        /\ P[l].subnet \in Subnet \union {Unknown, Null}
    BY <2>1, <2>2, <2>3, ClusterHostsAssumption
  <2>5. P[l].shard \in Shard \union {Unknown, Null} /\ P[l].shard # Null
    BY <2>1, <2>2, <2>3, ClusterHostsAssumption
  <2>6. P[l] \in Host
    BY <2>1, <2>3, <2>4, <2>5 DEF Host
  <2>7. P[l].fqdn \in Fqdn => l \in DOMAIN tf /\ P[l].fqdn = tf[l].fqdn
    BY <2>3, ClusterHostsAssumption
  <2> QED BY <2>4, <2>5, <2>6, <2>7
<1>3. DistinctNames(P)
  BY <1>2 DEF DistinctNames
<1>4. Range(P) \subseteq Host
  BY <1>2 DEF Range
<1> QED BY <1>1, <1>2, <1>3, <1>4 DEF PlanOK

(* A matching pairs labels of the state with labels of the plan.           *)
LEMMA MatchingType ==
  ASSUME NEW st, NEW p, NEW m \in PlanMatchings(st, p)
  PROVE  DOMAIN m \subseteq DOMAIN st /\ Range(m) \subseteq DOMAIN p
<1> DEFINE same == DOMAIN st \intersect DOMAIN p
           S == DOMAIN st \ same
           T == DOMAIN p \ same
           full == {x \in S \X T : FullyMatch(p[x[2]], st[x[1]])}
           part == {x \in S \X T : PartialMatch(p[x[2]], st[x[1]])}
           id == [l \in same |-> l]
           join(f, g) == [x \in DOMAIN f \union DOMAIN g |->
                             IF x \in DOMAIN f THEN f[x] ELSE g[x]]
           rest(f) == MaximalMatchings(S \ DOMAIN f, T \ Range(f), part)
<1>0. m \in UNION {{join(id, join(f, g)) : g \in rest(f)} : f \in MaximalMatchings(S, T, full)}
  BY Zenon DEF PlanMatchings
<1>1. PICK m1, m2 : /\ m1 \in MaximalMatchings(S, T, full) /\ m2 \in rest(m1)
                    /\ m = join(id, join(m1, m2))
  <2> HIDE DEF S, T, full, id, join, rest
  <2> QED BY <1>0, Zenon
<1>2. DOMAIN m1 \subseteq S /\ \A x \in DOMAIN m1 : m1[x] \in T
  BY <1>1 DEF MaximalMatchings, PartialFunctions
<1>3. DOMAIN m2 \subseteq S /\ \A x \in DOMAIN m2 : m2[x] \in T
  BY <1>1 DEF MaximalMatchings, PartialFunctions
<1>4. DOMAIN join(m1, m2) \subseteq S /\ \A x \in DOMAIN join(m1, m2) : join(m1, m2)[x] \in T
  BY <1>2, <1>3
<1>5. DOMAIN m \subseteq DOMAIN st /\ \A x \in DOMAIN m : m[x] \in DOMAIN p
  BY <1>1, <1>4
<1> QED BY <1>5 DEF Range

(* What is left to do after the diff is typed.                             *)
LEMMA DiffType ==
  ASSUME ApiOK, StateOK(tf), Refreshed(tf), NEW p, PlanOK(p), NEW m,
         DOMAIN m \subseteq DOMAIN tf, Range(m) \subseteq DOMAIN p
  PROVE  Diff(tf, p, m) \in Work
<1>1. \A l \in DOMAIN tf : tf[l].fqdn \in Fqdn /\ tf[l].shard \in Shard
  BY ApiHostType DEF Refreshed, ApiOK, Named, ApiHost
<1>2. \A l \in DOMAIN p : p[l].shard \in Shard \union {Unknown}
  BY HostType DEF PlanOK, Range
<1>3. NewShards(tf, p) \subseteq Shard /\ GoneShards(tf, p) \subseteq Shard
  BY <1>1, <1>2 DEF NewShards, GoneShards, ShardsKnown, PlanShards, StateShards
<1>4. /\ DOMAIN p \subseteq Label
      /\ DOMAIN m \subseteq Label \union Fqdn
  BY DEF PlanOK, StateOK
<1>5. /\ {l \in DOMAIN p \ Range(m) : p[l].shard \notin NewShards(tf, p)} \subseteq Label
      /\ {s \in DOMAIN m : Changed(p[m[s]], tf[s])} \subseteq Label \union Fqdn
      /\ {tf[s].fqdn : s \in DOMAIN tf \ DOMAIN m}
            \ {tf[s].fqdn : s \in {x \in DOMAIN tf : tf[x].shard \in GoneShards(tf, p)}}
         \subseteq Fqdn
  BY <1>1, <1>4
<1> QED BY <1>3, <1>5 DEF Diff, Work

(* No host with a label of the plan is deleted, alone or with its shard.   *)
LEMMA DiffSpares ==
  ASSUME ApiOK, StateOK(tf), Refreshed(tf), NEW p, PlanOK(p), NEW m,
         DOMAIN m \subseteq DOMAIN tf, Range(m) \subseteq DOMAIN p,
         Immutable(tf, p, m), NEW s \in DOMAIN m
  PROVE  /\ tf[s].fqdn \in DOMAIN api
         /\ tf[s].fqdn \notin Diff(tf, p, m).drop
         /\ api[tf[s].fqdn].shard \notin Diff(tf, p, m).goneShards
<1>1. tf[s].fqdn \in DOMAIN api /\ tf[s].fqdn \in Fqdn /\ s \in DOMAIN tf
  BY DEF Refreshed, ApiOK
<1>2. tf[s].shard = api[tf[s].fqdn].shard
  BY <1>1, ApiHostType DEF Refreshed
<1>3. \A k \in DOMAIN tf \ DOMAIN m : tf[k].fqdn # tf[s].fqdn
  BY <1>1 DEF StateOK, DistinctNames
<1>4. m[s] \in DOMAIN p /\ p[m[s]].shard \in {Unknown, tf[s].shard}
  BY DEF Range, Immutable, PartialMatch
<1>5. tf[s].shard \notin GoneShards(tf, p)
  BY <1>4 DEF GoneShards, ShardsKnown, PlanShards
<1> QED BY <1>1, <1>2, <1>3, <1>5 DEF Diff

-----------------------------------------------------------------------------
(* An apply that stops, however it does, leaves nothing half done.         *)
LEMMA StopType ==
  ASSUME KeptInv, ApiOK', NEW st, StateOK(st), Stop(st), UNCHANGED <<service, config>>,
         failures' \in 0 .. MaxFailures
  PROVE  KeptInv'
<1>1. plan' = << >> /\ match' = << >> /\ tf' = st /\ work' = NoWork /\ pc' = "idle"
  BY DEF Stop
<1>2. TypeOK'
  BY <1>1, EmptyMap, NoWorkType DEF KeptInv, TypeOK, ApiOK, StateOK
<1>3. PlanOK(plan)'
  BY <1>1, EmptyMap DEF PlanOK, DistinctNames
<1> QED BY <1>1, <1>2, <1>3 DEF KeptInv, StateOK

(* A failure is counted.                                                   *)
LEMMA FailureType ==
  ASSUME KeptInv, failures < MaxFailures, failures' = failures + 1
  PROVE  failures' \in 0 .. MaxFailures
  BY ClusterHostsAssumption DEF KeptInv, TypeOK

(* A call that leaves the hosts of the plan alone, whether it goes on with *)
(* less to do or breaks off.                                               *)
LEMMA CallKeeps ==
  ASSUME KeptInv, pc = "apply", NEW done \in BOOLEAN, NEW left \in Work,
         left.create \subseteq work.create, left.update \subseteq work.update,
         left.drop \subseteq work.drop, left.goneShards \subseteq work.goneShards,
         Called(done, left), UNCHANGED <<service, config>>, ApiOK', Surviving
  PROVE  KeptInv'
<1>1. CASE done
  <2>1. work' = left /\ UNCHANGED <<tf, plan, match, pc, failures>>
    BY <1>1 DEF Called
  <2>2. TypeOK'
    BY <2>1 DEF KeptInv, TypeOK, ApiOK
  <2>3. \A s \in DOMAIN match : Spared(s)'
    BY <2>1 DEF KeptInv, Spared, Surviving
  <2>4. DistinctNames(tf)' /\ PlanOK(plan)'
    BY <2>1 DEF KeptInv, DistinctNames, PlanOK
  <2> QED BY <2>1, <2>2, <2>3, <2>4 DEF KeptInv
<1>2. CASE ~done
  <2>1. Stop(tf) /\ failures' \in 0 .. MaxFailures
    BY <1>2, FailureType DEF Called
  <2>2. StateOK(tf)
    BY DEF KeptInv, TypeOK, StateOK
  <2> QED BY <2>1, <2>2, StopType
<1> QED BY <1>1, <1>2

(* New hosts come in addition, of what type the plan says.                 *)
LEMMA AddHostsKeeps ==
  ASSUME KeptInv, pc = "apply", NEW L \in SUBSET DOMAIN plan, AddHosts(L)
  PROVE  ApiOK' /\ Surviving
<1>0. ApiOK
  BY DEF KeptInv, TypeOK, ApiOK
<1>1. PICK name \in [L -> Fqdn \ Used], host \in [L -> UNION {Placements(plan[l]) : l \in L}] :
         /\ IsInjective(name)
         /\ \A l \in L : host[l] \in Placements(plan[l])
         /\ api' = [f \in DOMAIN api \union Range(name) |->
                       IF f \in DOMAIN api THEN api[f]
                       ELSE host[CHOOSE l \in L : name[l] = f]]
  BY Zenon DEF AddHosts
<1>2. ASSUME NEW l \in L
      PROVE  host[l] \in ApiHost
  <2>1. /\ plan[l].pub \in Pub /\ plan[l].tune \in Tune
        /\ plan[l].subnet \in Subnet \union {Unknown, Null}
        /\ plan[l].shard \in Shard \union {Unknown}
    BY HostType DEF KeptInv, PlanOK, Range
  <2>2. \A f \in DOMAIN api : api[f].shard \in Shard
    BY <1>0, ApiHostType DEF ApiHost
  <2>3. AutoSubnets \subseteq Subnet
    BY ClusterHostsAssumption
  <2> QED BY <1>1, <2>1, <2>2, <2>3 DEF Placements, ApiHost
<1>4. ASSUME NEW f \in Range(name)
      PROVE  host[CHOOSE l \in L : name[l] = f] \in ApiHost
  <2>1. \E l \in L : name[l] = f
    BY <1>1 DEF Range
  <2> QED BY <1>2, <2>1
<1>5. DOMAIN api' = DOMAIN api \union Range(name) /\ Range(name) \subseteq Fqdn
  BY <1>1 DEF Range
<1>6. \A f \in DOMAIN api : f \in DOMAIN api' /\ api'[f] = api[f]
  BY <1>1, <1>5
<1>7. \A f \in DOMAIN api' : api'[f] \in ApiHost
  BY <1>0, <1>1, <1>4, <1>5, ApiHostType
<1>8. ApiOK'
  BY <1>0, <1>5, <1>7 DEF ApiOK, Range
<1> QED BY <1>6, <1>8 DEF Surviving, KeptInv, Spared

(* Of the five calls, two add hosts, one changes a host, and two delete.   *)
LEMMA CallSurvives ==
  ASSUME KeptInv, NEW done \in BOOLEAN,
         \/ \E s \in Shard : CreateShard(s, done) \/ DeleteShard(s, done)
         \/ \E l \in Label : CreateHost(l, done)
         \/ \E s \in Label \union Fqdn : UpdateHost(s, done)
         \/ \E f \in Fqdn : DeleteHost(f, done)
  PROVE  pc = "apply" /\ Surviving /\ KeptInv'
<1>0. ApiOK /\ work \in Work
  BY DEF KeptInv, TypeOK, ApiOK
<1>1. ASSUME NEW s \in Shard, CreateShard(s, done)
      PROVE  pc = "apply" /\ Surviving /\ KeptInv'
  <2>1. pc = "apply" /\ Called(done, [work EXCEPT !.newShards = @ \ {s}])
        /\ UNCHANGED <<service, config>>
    BY <1>1 DEF CreateShard
  <2>2. {l \in DOMAIN plan : plan[l].shard = s} \in SUBSET DOMAIN plan
    OBVIOUS
  <2>3. ApiOK' /\ Surviving
    BY <1>1, <2>1, <2>2, AddHostsKeeps DEF CreateShard
  <2>4. [work EXCEPT !.newShards = @ \ {s}] \in Work
    BY <1>0 DEF Work
  <2> QED BY <1>0, <2>1, <2>3, <2>4, CallKeeps DEF Work
<1>2. ASSUME NEW l \in Label, CreateHost(l, done)
      PROVE  pc = "apply" /\ Surviving /\ KeptInv'
  <2>1. pc = "apply" /\ Called(done, [work EXCEPT !.create = @ \ {l}])
        /\ UNCHANGED <<service, config>>
    BY <1>2 DEF CreateHost
  <2>2. {l} \in SUBSET DOMAIN plan
    BY <1>2, <2>1 DEF CreateHost, KeptInv
  <2>3. ApiOK' /\ Surviving
    BY <1>2, <2>1, <2>2, AddHostsKeeps DEF CreateHost
  <2>4. [work EXCEPT !.create = @ \ {l}] \in Work
    BY <1>0 DEF Work
  <2> QED BY <1>0, <2>1, <2>3, <2>4, CallKeeps DEF Work
<1>3. ASSUME NEW s \in Label \union Fqdn, UpdateHost(s, done)
      PROVE  pc = "apply" /\ Surviving /\ KeptInv'
  <2>1. pc = "apply" /\ Called(done, [work EXCEPT !.update = @ \ {s}])
        /\ UNCHANGED <<service, config>> /\ s \in DOMAIN match
    BY <1>3 DEF UpdateHost, KeptInv
  <2>2. plan[match[s]].pub \in Pub /\ plan[match[s]].tune \in Tune
    BY <2>1, HostType DEF KeptInv, TypeOK, Range
  <2>3. /\ DOMAIN api' = DOMAIN api
        /\ \A f \in DOMAIN api : api'[f].shard = api[f].shard /\ api'[f] \in ApiHost
    <3>1. PICK x \in Pub, y \in Tune :
             api' = [api EXCEPT ![tf[s].fqdn].pub = x, ![tf[s].fqdn].tune = y]
      <4>1. tf[s].fqdn \in DOMAIN api
        BY <2>1 DEF KeptInv, Spared
      <4>2. api[tf[s].fqdn].pub \in Pub /\ api[tf[s].fqdn].tune \in Tune
        BY <1>0, <4>1, ApiHostType DEF ApiHost
      <4> QED BY <1>3, <2>2, <4>1, <4>2 DEF UpdateHost
    <3>2. \A f \in DOMAIN api : api[f] \in ApiHost
      BY <1>0, ApiHostType
    <3> QED BY <3>1, <3>2 DEF ApiHost
  <2>4. ApiOK' /\ Surviving
    BY <1>0, <2>1, <2>3 DEF ApiOK, Range, Surviving, KeptInv, Spared
  <2>5. [work EXCEPT !.update = @ \ {s}] \in Work
    BY <1>0 DEF Work
  <2> QED BY <1>0, <2>1, <2>4, <2>5, CallKeeps DEF Work
<1>4. ASSUME NEW s \in Shard, DeleteShard(s, done)
      PROVE  pc = "apply" /\ Surviving /\ KeptInv'
  <2>1. pc = "apply" /\ Called(done, [work EXCEPT !.goneShards = @ \ {s}])
        /\ UNCHANGED <<service, config>> /\ s \in work.goneShards
    BY <1>4 DEF DeleteShard
  <2>2. api' = [f \in DOMAIN api \ {g \in DOMAIN api : api[g].shard = s} |-> api[f]]
    BY <1>4 DEF DeleteShard, Remove
  <2>3. ApiOK'
    BY <1>0, <2>2 DEF ApiOK, Range
  <2>4. Surviving
    BY <2>1, <2>2 DEF Surviving, KeptInv, Spared
  <2>5. [work EXCEPT !.goneShards = @ \ {s}] \in Work
    BY <1>0 DEF Work
  <2> QED BY <1>0, <2>1, <2>3, <2>4, <2>5, CallKeeps DEF Work
<1>5. ASSUME NEW f \in Fqdn, DeleteHost(f, done)
      PROVE  pc = "apply" /\ Surviving /\ KeptInv'
  <2>1. pc = "apply" /\ Called(done, [work EXCEPT !.drop = @ \ {f}])
        /\ UNCHANGED <<service, config>> /\ f \in work.drop
    BY <1>5 DEF DeleteHost
  <2>2. api' = [g \in DOMAIN api \ {f} |-> api[g]]
    BY <1>5 DEF DeleteHost, Remove
  <2>3. ApiOK'
    BY <1>0, <2>2 DEF ApiOK, Range
  <2>4. Surviving
    BY <2>1, <2>2 DEF Surviving, KeptInv, Spared
  <2>5. [work EXCEPT !.drop = @ \ {f}] \in Work
    BY <1>0 DEF Work
  <2> QED BY <1>0, <2>1, <2>3, <2>4, <2>5, CallKeeps DEF Work
<1> QED BY <1>1, <1>2, <1>3, <1>4, <1>5

-----------------------------------------------------------------------------
(* A cluster as it is after a successful create.                           *)
LEMMA KeptInit == Init => KeptInv
<1> SUFFICES ASSUME Init PROVE KeptInv
  OBVIOUS
<1>1. PICK name \in [DOMAIN config -> Fqdn] :
         /\ IsInjective(name)
         /\ api \in [Range(name) -> ApiHost]
         /\ tf = [l \in DOMAIN config |-> Named(name[l])]
  BY DEF Init
<1>2. ApiOK
  BY <1>1 DEF ApiOK, Range
<1>3. \A l \in DOMAIN config : name[l] \in DOMAIN api
  BY <1>1 DEF Range
<1>4. \A l \in DOMAIN config : tf[l] \in Host /\ tf[l].fqdn = name[l]
  BY <1>1, <1>2, <1>3, ApiHostType
<1>5. DOMAIN tf \subseteq Label /\ Range(tf) \subseteq Host /\ DistinctNames(tf)
  BY <1>1, <1>4, ClusterHostsAssumption DEF Init, Range, DistinctNames, IsInjective
<1>6. /\ plan = << >> /\ match = << >> /\ work = NoWork /\ pc = "idle" /\ failures = 0
      /\ service \in DOMAIN Configs /\ config \in Configs[service]
  BY DEF Init
<1>7. PlanOK(plan)
  BY <1>6, EmptyMap DEF PlanOK, DistinctNames
<1>8. TypeOK
  BY <1>2, <1>5, <1>6, EmptyMap, NoWorkType, ClusterHostsAssumption DEF TypeOK, ApiOK
<1> QED BY <1>5, <1>6, <1>7, <1>8 DEF KeptInv

(* Every step keeps the invariant, and a step of an update the hosts.      *)
LEMMA KeptStep ==
  ASSUME KeptInv, [Next]_vars
  PROVE  KeptInv' /\ (pc = "apply" => \A s \in DOMAIN match : tf[s].fqdn \in DOMAIN api')
<1>0. ApiOK /\ StateOK(tf) /\ PlanOK(plan) /\ failures \in 0 .. MaxFailures
  BY DEF KeptInv, TypeOK, ApiOK, StateOK
<1>a. UNCHANGED api => ApiOK' /\ (pc = "apply" => \A s \in DOMAIN match : tf[s].fqdn \in DOMAIN api')
  BY <1>0 DEF ApiOK, KeptInv, Spared
<1>b. StateOK(<< >>) /\ StateOK([l \in DOMAIN plan |-> Nulled(plan[l])])
  BY <1>0, EmptyMap, NulledType DEF StateOK, DistinctNames
<1>1. CASE UNCHANGED vars
  <2>1. UNCHANGED api
    BY <1>1 DEF vars
  <2>2. TypeOK'
    BY <1>1 DEF vars, KeptInv, TypeOK
  <2>3. (pc = "fresh" => Refreshed(tf))'
    BY <1>1 DEF vars, KeptInv, Refreshed, Named
  <2>4. (pc = "apply" => \A s \in DOMAIN match : Spared(s))'
    BY <1>1 DEF vars, KeptInv, Spared
  <2> QED BY <1>a, <1>1, <2>1, <2>2, <2>3, <2>4 DEF vars, KeptInv, DistinctNames, PlanOK
<1>2. CASE Edit
  <2>1. TypeOK'
    BY <1>2 DEF Edit, KeptInv, TypeOK
  <2>2. pc = "idle" /\ pc' = "idle" /\ UNCHANGED <<api, tf, plan, match>>
    BY <1>2 DEF Edit
  <2> QED BY <1>a, <2>1, <2>2 DEF KeptInv, DistinctNames, PlanOK
<1>3. CASE Refresh
  <2>1. PICK m \in ReadMatchings(tf) : tf' = ReadResult(tf, m)
    BY <1>3 DEF Refresh
  <2>2. StateOK(tf)' /\ Refreshed(tf)'
    <3>1. StateOK(ReadResult(tf, m)) /\ Refreshed(ReadResult(tf, m))
      BY <1>0, ReadResultType
    <3>2. UNCHANGED api
      BY <1>3 DEF Refresh
    <3> QED BY <2>1, <3>1, <3>2 DEF StateOK, DistinctNames, Refreshed, Named
  <2>3. pc' = "fresh" /\ pc # "apply" /\ UNCHANGED <<service, config, api, plan, match, work, failures>>
    BY <1>3 DEF Refresh
  <2>4. match' = << >>
    BY <1>3, <2>3 DEF Refresh, KeptInv
  <2>5. TypeOK'
    BY <2>2, <2>3, <2>4, EmptyMap DEF KeptInv, TypeOK, StateOK
  <2> QED BY <1>0, <2>2, <2>3, <2>4, <2>5 DEF KeptInv, StateOK, PlanOK, DistinctNames
<1>4. CASE NothingToDo
  BY <1>0, <1>a, <1>4, StopType DEF NothingToDo
<1>5. CASE Reject
  BY <1>0, <1>a, <1>5, StopType DEF Reject
<1>6. CASE StartUpdate
  <2> DEFINE p == PlanOf(config, tf)
  <2>1. PICK m \in PlanMatchings(tf, p) :
           Immutable(tf, p, m) /\ match' = m /\ work' = Diff(tf, p, m) /\ plan' = p
    BY <1>6 DEF StartUpdate
  <2>2. /\ pc' = "apply" /\ UNCHANGED <<service, config, api, tf, failures>>
        /\ Refreshed(tf) /\ pc # "apply"
    BY <1>6 DEF StartUpdate, KeptInv
  <2>3. PlanOK(p)
    BY PlanOfType DEF KeptInv
  <2>4. DOMAIN m \subseteq DOMAIN tf /\ Range(m) \subseteq DOMAIN p
    BY MatchingType
  <2>5. Diff(tf, p, m) \in Work
    BY <1>0, <2>2, <2>3, <2>4, DiffType
  <2>6. /\ Diff(tf, p, m).create \subseteq DOMAIN p
        /\ Diff(tf, p, m).update \subseteq DOMAIN m
    BY DEF Diff
  <2>7. \A s \in DOMAIN m : /\ tf[s].fqdn \in DOMAIN api
                            /\ tf[s].fqdn \notin Diff(tf, p, m).drop
                            /\ api[tf[s].fqdn].shard \notin Diff(tf, p, m).goneShards
    BY <1>0, <2>1, <2>2, <2>3, <2>4, DiffSpares
  <2> HIDE DEF p
  <2>8. TypeOK'
    BY <2>1, <2>2, <2>3, <2>4, <2>5 DEF TypeOK, KeptInv, PlanOK
  <2>9. \A s \in DOMAIN match' : Spared(s)'
    BY <2>1, <2>2, <2>7 DEF Spared
  <2>10. DistinctNames(tf)' /\ PlanOK(plan)'
    BY <2>1, <2>2, <2>3 DEF KeptInv, DistinctNames, PlanOK
  <2> QED BY <2>1, <2>2, <2>6, <2>8, <2>9, <2>10 DEF KeptInv
<1>7. CASE Call
  <2>1. pc = "apply" /\ Surviving /\ KeptInv'
    BY <1>7, CallSurvives, TRUE \in BOOLEAN DEF Call
  <2> QED BY <2>1 DEF Surviving
<1>8. CASE CallBreaksOff
  <2>1. pc = "apply" /\ Surviving /\ KeptInv'
    BY <1>8, CallSurvives, FALSE \in BOOLEAN DEF CallBreaksOff
  <2> QED BY <2>1 DEF Surviving
<1>9. CASE CallFails
  <2>1. Stop(tf) /\ UNCHANGED <<service, config, api>> /\ failures' \in 0 .. MaxFailures
    BY <1>9, FailureType DEF CallFails
  <2> QED BY <1>0, <1>a, <2>1, StopType
<1>10. CASE ReadBack
  <2>1. PICK m \in ReadMatchings(plan) : Stop(ReadResult(plan, m))
    BY <1>10 DEF ReadBack
  <2>2. UNCHANGED <<service, config, api, failures>>
    BY <1>10 DEF ReadBack
  <2>3. StateOK(plan)
    BY <1>0 DEF PlanOK, StateOK
  <2>4. StateOK(ReadResult(plan, m))
    BY <1>0, <2>3, ReadResultType
  <2> QED BY <1>0, <1>a, <2>1, <2>2, <2>4, StopType
<1>11. CASE ReadBackWrong
  <2>1. \E st \in {<< >>, tf} : Stop(st)
    BY <1>11 DEF ReadBackWrong
  <2>2. UNCHANGED <<service, config, api, failures>>
    BY <1>11 DEF ReadBackWrong
  <2> QED BY <1>0, <1>a, <1>b, <2>1, <2>2, StopType
<1>12. CASE ReadBackFails
  <2>1. \E st \in {<< >>, tf, [l \in DOMAIN plan |-> Nulled(plan[l])]} : Stop(st)
    BY <1>12 DEF ReadBackFails
  <2>2. UNCHANGED <<service, config, api>> /\ failures' \in 0 .. MaxFailures
    BY <1>12, FailureType DEF ReadBackFails
  <2> QED BY <1>0, <1>a, <1>b, <2>1, <2>2, StopType
<1> QED BY <1>1, <1>2, <1>3, <1>4, <1>5, <1>6, <1>7, <1>8, <1>9, <1>10, <1>11, <1>12
        DEF Next, Progress

(* The invariant holds for every configuration and every failure.          *)
THEOREM KeptInvariant == Spec => []KeptInv
  BY KeptInit, KeptStep, PTL DEF Spec

(* State, plan, diff and cluster have the types that the provider and the  *)
(* API give them, whatever call fails.                                     *)
THEOREM HostsTypeCorrect == Spec => []TypeOK
<1>1. KeptInv => TypeOK
  BY DEF KeptInv
<1> QED BY <1>1, KeptInvariant, PTL

(* A host that the plan keeps is never deleted by the update, neither      *)
(* alone nor with its shard (hosts.go:259-285, 182-191).                   *)
THEOREM KeptHostsAreSafe == Spec => KeptHostsSurvive
<1>1. KeptInv /\ [Next]_vars
         => [pc = "apply" => \A s \in DOMAIN match : tf[s].fqdn \in DOMAIN api']_vars
  BY KeptStep
<1> QED BY <1>1, KeptInvariant, PTL DEF Spec, KeptHostsSurvive
=============================================================================
