----------------------- MODULE ClusterHostsOutcome_proof -----------------------
(***************************************************************************)
(* What an update of the hosts makes of the cluster, for any               *)
(* configurations, labels, shards and subnets, whatever call fails:        *)
(* hosts are deleted when the others are there (DeletesLast), and an       *)
(* update that succeeds has made the cluster what was written              *)
(* (SuccessRealises), which ReadHosts recognises (ReadBackFindsAll).       *)
(*                                                                         *)
(* The invariant is that labels live somewhere (Lodging): every label of   *)
(* the plan whose host is not still to be created has a host of its own    *)
(* that stays, as planned but for the updates to come, and every other     *)
(* host will be deleted.                                                   *)
(***************************************************************************)
EXTENDS ClusterHosts_proof, FiniteSetTheorems

(* The labels whose hosts are still to be created.                         *)
Pending == work.create \union {l \in DOMAIN plan : plan[l].shard \in work.newShards}

(* What the calls still to be made have to do with the plan.               *)
Orderly ==
    /\ plan = PlanOf(config, tf)
    /\ \A l \in DOMAIN tf : tf[l].fqdn \in Fqdn
    /\ IsInjective(match)
    /\ Range(match) \intersect Pending = {}
    /\ \A l \in DOMAIN plan : plan[l].fqdn \in Fqdn =>
          /\ l \in DOMAIN match /\ match[l] = l
          /\ tf[l].fqdn = plan[l].fqdn /\ plan[l].subnet # Null
    /\ \A l \in work.create : plan[l].shard \notin work.newShards
    /\ \A l \in DOMAIN plan :
          /\ plan[l].shard \notin work.goneShards
          /\ plan[l].shard = Unknown => work.goneShards = {}
    /\ \A f \in work.drop : \E s \in DOMAIN tf : tf[s].fqdn = f

(* Where the other labels live: each in a host of its own, a label that    *)
(* had one in that one; the host stays, and is as planned but for the      *)
(* updates still to be made.  All other hosts will be deleted.             *)
Fits(l, host) ==
    /\ plan[l].subnet \in {Unknown, Null, host.subnet}
    /\ plan[l].shard \in {Unknown, host.shard}
    /\ (\A s \in work.update : match[s] # l) =>
          /\ plan[l].pub = host.pub
          /\ "tune" \in Mask => plan[l].tune = host.tune
Leaves(f) == f \in work.drop \/ api[f].shard \in work.goneShards
Lodging(home) ==
    /\ home \in [DOMAIN plan \ Pending -> DOMAIN api]
    /\ IsInjective(home)
    /\ \A s \in DOMAIN match : home[match[s]] = tf[s].fqdn
    /\ \A l \in DOMAIN home : ~Leaves(home[l]) /\ Fits(l, api[home[l]])
    /\ \A f \in DOMAIN api \ Range(home) : Leaves(f)

(* A host that nobody labelled is entered under its fqdn.                  *)
OwnNames(st) == \A f \in DOMAIN st \intersect Fqdn : st[f].fqdn = f
Covers(st) == \A f \in DOMAIN api : \E l \in DOMAIN st : st[l].fqdn = f

HousedInv ==
    /\ KeptInv
    /\ OwnNames(tf)
    /\ pc = "fresh" => Covers(tf)
    /\ pc = "apply" => Orderly /\ \E home : Lodging(home)

(* An attribute outside the mask never has to change.                      *)
TuneKept ==
    service # "redis" => \A f \in DOMAIN api, l \in DOMAIN config : api[f].tune = config[l].tune

-----------------------------------------------------------------------------
(* What is said of types so far.                                           *)
LEMMA HousedTypes ==
  ASSUME HousedInv
  PROVE  /\ KeptInv /\ ApiOK /\ StateOK(tf) /\ PlanOK(plan) /\ work \in Work
         /\ service \in DOMAIN Configs /\ config \in Configs[service]
         /\ DOMAIN config \subseteq Label /\ DOMAIN config # {}
         /\ \A l \in DOMAIN config : config[l] \in
               [subnet : Subnet \union {Unknown}, shard : Shard \union {Unknown}, pub : Pub, tune : Tune]
         /\ IsFiniteSet(Fqdn)
  BY ClusterHostsAssumption DEF HousedInv, KeptInv, TypeOK, ApiOK, StateOK

(* The plan keeps the fqdn of a label of the state, and what it does not   *)
(* take from the state is as written.  A null subnet is one that is not    *)
(* written and not computed.                                               *)
LEMMA PlanFields ==
  ASSUME NEW c, NEW st
  PROVE  /\ DOMAIN PlanOf(c, st) = DOMAIN c
         /\ \A l \in DOMAIN c :
               LET h == PlanOf(c, st)[l] IN
               /\ h.fqdn = IF l \in DOMAIN st /\ st[l].fqdn # Null THEN st[l].fqdn ELSE Unknown
               /\ c[l].subnet # Unknown => h.subnet = c[l].subnet
               /\ c[l].shard # Unknown => h.shard = c[l].shard
               /\ l \notin DOMAIN st => h.shard = c[l].shard
               /\ l \notin DOMAIN st /\ (SubnetComputed \/ c[l].subnet # Unknown)
                     => h.subnet = c[l].subnet
               /\ SubnetComputed /\ c[l].subnet # Null => h.subnet # Null
               /\ h.pub = c[l].pub /\ h.tune = c[l].tune
<1> DEFINE P == PlanOf(c, st)
<1>1. ASSUME NEW l \in DOMAIN c
      PROVE  /\ P[l].fqdn = (IF l \in DOMAIN st /\ st[l].fqdn # Null THEN st[l].fqdn ELSE Unknown)
             /\ P[l].subnet = (IF c[l].subnet # Unknown THEN c[l].subnet
                               ELSE IF ~SubnetComputed THEN Null
                               ELSE IF l \in DOMAIN st /\ st[l].subnet # Null
                                    THEN st[l].subnet ELSE Unknown)
             /\ P[l].shard = (IF c[l].shard # Unknown THEN c[l].shard
                              ELSE IF l \in DOMAIN st /\ st[l].shard # Null
                                   THEN st[l].shard ELSE Unknown)
             /\ P[l].pub = c[l].pub /\ P[l].tune = c[l].tune
  BY DEF PlanOf
<1>2. DOMAIN P = DOMAIN c
  BY DEF PlanOf
<1> HIDE DEF P
<1> QED BY <1>1, <1>2, ClusterHostsAssumption DEF P

(* No two labels of the state are matched to one of the plan, and a label  *)
(* that is in both stays with itself.                                      *)
LEMMA MatchingKeeps ==
  ASSUME NEW st, NEW p, NEW m \in PlanMatchings(st, p)
  PROVE  /\ IsInjective(m)
         /\ \A l \in DOMAIN st \intersect DOMAIN p : l \in DOMAIN m /\ m[l] = l
<1> DEFINE same == DOMAIN st \intersect DOMAIN p
           S == DOMAIN st \ same
           T == DOMAIN p \ same
           full == {x \in S \X T : FullyMatch(p[x[2]], st[x[1]])}
           part == {x \in S \X T : PartialMatch(p[x[2]], st[x[1]])}
           id == [l \in same |-> l]
           join(f, g) == [x \in DOMAIN f \union DOMAIN g |->
                             IF x \in DOMAIN f THEN f[x] ELSE g[x]]
           rest(f) == MaximalMatchings(S \ DOMAIN f, T \ Range(f), part)
<1>0. m \in UNION {{join(id, join(f, g)) : g \in rest(f)} : f \in MaximalMatchings(S, T, full)}
  BY Zenon DEF PlanMatchings
<1>1. PICK m1, m2 : /\ m1 \in MaximalMatchings(S, T, full) /\ m2 \in rest(m1)
                    /\ m = join(id, join(m1, m2))
  <2> HIDE DEF S, T, full, id, join, rest
  <2> QED BY <1>0, Zenon
<1>2. DOMAIN m1 \subseteq S /\ (\A x \in DOMAIN m1 : m1[x] \in T) /\ IsInjective(m1)
  BY <1>1 DEF MaximalMatchings, PartialFunctions
<1>3. /\ DOMAIN m2 \subseteq S \ DOMAIN m1 /\ IsInjective(m2)
      /\ \A x \in DOMAIN m2 : m2[x] \in T \ Range(m1)
  BY <1>1 DEF MaximalMatchings, PartialFunctions
<1>4. IsInjective(join(m1, m2)) /\ DOMAIN join(m1, m2) \subseteq S
      /\ \A x \in DOMAIN join(m1, m2) : join(m1, m2)[x] \in T
  BY <1>2, <1>3 DEF IsInjective, Range
<1>5. \A l \in same : l \in DOMAIN m /\ m[l] = l
  BY <1>1
<1>6. \A x \in DOMAIN m : x \in same \/ (x \in DOMAIN join(m1, m2) /\ m[x] = join(m1, m2)[x])
  BY <1>1
<1>7. IsInjective(m)
  <2> DEFINE j == join(m1, m2)
  <2>1. /\ \A x, y \in DOMAIN j : j[x] = j[y] => x = y
        /\ \A x \in DOMAIN j : j[x] \in T
    BY <1>4 DEF IsInjective
  <2>2. \A x \in DOMAIN m : x \in same \/ (x \in DOMAIN j /\ m[x] = j[x])
    BY <1>6
  <2>3. T \intersect same = {}
    OBVIOUS
  <2> HIDE DEF j, T, same
  <2> QED BY <1>5, <2>1, <2>2, <2>3 DEF IsInjective
<1> QED BY <1>5, <1>7

(* ReadHosts enters every host of the cluster.                             *)
LEMMA ReadCovers ==
  ASSUME ApiOK, NEW hosts, OwnNames(hosts), NEW m \in ReadMatchings(hosts)
  PROVE  OwnNames(ReadResult(hosts, m)) /\ Covers(ReadResult(hosts, m))
<1> DEFINE R == ReadResult(hosts, m)
           byFqdn == {l \in DOMAIN hosts \ Unnamed(hosts) : hosts[l].fqdn \in DOMAIN api}
           rest == Untaken(hosts) \ Range(m)
<1>1. DOMAIN m \subseteq Unnamed(hosts) /\ \A l \in DOMAIN m : m[l] \in Untaken(hosts)
  BY DEF ReadMatchings, MaximalMatchings, PartialFunctions
<1>2. DOMAIN R = byFqdn \union DOMAIN m \union rest
  BY DEF ReadResult
<1>3. /\ \A l \in byFqdn : R[l] = Named(hosts[l].fqdn)
      /\ \A l \in DOMAIN m : R[l] = Named(m[l])
      /\ \A l \in rest : l \notin byFqdn \union DOMAIN m => R[l] = Named(l)
  BY <1>1, <1>2 DEF ReadResult
<1>4. DOMAIN api \subseteq Fqdn
  BY DEF ApiOK
<1>5. \A f \in DOMAIN api : Named(f).fqdn = f
  BY DEF Named
<1>6. \A f \in rest : f \in DOMAIN api /\ f \notin DOMAIN hosts
  BY <1>4 DEF Untaken, OwnNames
<1>7. \A f \in rest : f \notin byFqdn \union DOMAIN m
  BY <1>1, <1>6 DEF Unnamed
<1>8. \A f \in Fqdn : f \notin DOMAIN m
  BY <1>1 DEF OwnNames, Unnamed
<1>9. OwnNames(R)
  <2>1. \A f \in byFqdn : f \in Fqdn => hosts[f].fqdn = f /\ hosts[f].fqdn \in DOMAIN api
    BY DEF OwnNames
  <2> HIDE DEF R, byFqdn, rest
  <2> QED BY <1>2, <1>3, <1>5, <1>6, <1>7, <1>8, <2>1 DEF OwnNames
<1>10. Covers(R)
  <2> SUFFICES ASSUME NEW f \in DOMAIN api PROVE \E l \in DOMAIN R : R[l].fqdn = f
    BY DEF Covers
  <2>1. CASE f \in rest
    BY <1>2, <1>3, <1>5, <1>7, <2>1
  <2>2. CASE f \in Range(m)
    <3>1. PICK l \in DOMAIN m : m[l] = f
      BY <2>2 DEF Range
    <3> QED BY <1>2, <1>3, <1>5, <3>1
  <2>3. CASE f \notin Untaken(hosts)
    <3>1. PICK l \in DOMAIN hosts : hosts[l].fqdn = f
      BY <2>3 DEF Untaken
    <3>2. l \in byFqdn
      BY <1>4, <3>1 DEF Unnamed
    <3> QED BY <1>2, <1>3, <1>5, <3>1, <3>2
  <2> QED BY <2>1, <2>2, <2>3
<1> QED BY <1>9, <1>10

-----------------------------------------------------------------------------
(* When an update starts, the labels with a host live in it, and the       *)
(* others are still to be created.                                         *)
LEMMA StartLodges ==
  ASSUME HousedInv, StartUpdate, KeptInv'
  PROVE  HousedInv'
<1> DEFINE p == PlanOf(config, tf)
<1>1. PICK m \in PlanMatchings(tf, p) :
         Immutable(tf, p, m) /\ match' = m /\ work' = Diff(tf, p, m) /\ plan' = p
  BY DEF StartUpdate
<1>2. /\ pc' = "apply" /\ UNCHANGED <<service, config, api, tf>>
      /\ Refreshed(tf) /\ Covers(tf) /\ DistinctNames(tf) /\ OwnNames(tf)
      /\ ~ShardsUnclear(tf, p)
  BY DEF StartUpdate, HousedInv, KeptInv
<1>3. /\ DOMAIN m \subseteq DOMAIN tf /\ Range(m) \subseteq DOMAIN p
      /\ \A s \in DOMAIN m : m[s] \in DOMAIN p /\ m[s] \in Range(m)
  BY MatchingType DEF Range
<1>4. IsInjective(m) /\ \A l \in DOMAIN tf \intersect DOMAIN p : l \in DOMAIN m /\ m[l] = l
  BY MatchingKeeps
<1>5. \A l \in DOMAIN tf :
         /\ tf[l].fqdn \in DOMAIN api /\ tf[l].fqdn \in Fqdn
         /\ LET h == api[tf[l].fqdn] IN
            /\ tf[l].subnet = h.subnet /\ tf[l].shard = h.shard
            /\ tf[l].pub = h.pub /\ tf[l].tune = h.tune
  BY <1>2, HousedTypes DEF Refreshed, Named, ApiOK
<1>6. \A l \in DOMAIN p : p[l].fqdn \in Fqdn => l \in DOMAIN tf /\ tf[l].fqdn = p[l].fqdn
  BY PlanFields, ClusterHostsAssumption
<1>7. \A s \in DOMAIN m : /\ p[m[s]].subnet \in {Unknown, tf[s].subnet}
                          /\ p[m[s]].shard \in {Unknown, tf[s].shard}
  BY <1>1 DEF Immutable, PartialMatch
<1> DEFINE new == NewShards(tf, p)
           gone == GoneShards(tf, p)
<1>8. /\ work'.newShards = new /\ work'.goneShards = gone
      /\ work'.create = {l \in DOMAIN p \ Range(m) : p[l].shard \notin new}
      /\ work'.update = {s \in DOMAIN m : Changed(p[m[s]], tf[s])}
      /\ work'.drop = {tf[s].fqdn : s \in DOMAIN tf \ DOMAIN m}
                         \ {tf[s].fqdn : s \in {x \in DOMAIN tf : tf[x].shard \in gone}}
  BY <1>1 DEF Diff
<1>9. /\ Unknown \notin new
      /\ \A l \in DOMAIN tf : tf[l].shard \notin new
      /\ \A l \in DOMAIN p : p[l].shard \notin gone
      /\ \A l \in DOMAIN p : p[l].shard = Unknown => gone = {}
  BY DEF NewShards, GoneShards, ShardsKnown, PlanShards, StateShards
<1> HIDE DEF p, new, gone
<1>10. \A l \in Range(m) : p[l].shard \notin new
  <2> SUFFICES ASSUME NEW s \in DOMAIN m PROVE p[m[s]].shard \notin new
    BY DEF Range
  <2> QED BY <1>3, <1>7, <1>9
<1>11. DOMAIN plan' \ Pending' = Range(m)
  <2>1. Pending' = work'.create \union {l \in DOMAIN p : p[l].shard \in new}
    BY <1>1, <1>8 DEF Pending
  <2> QED BY <1>1, <1>3, <1>8, <1>10, <2>1
<1>12. Orderly'
  <2>1. plan' = PlanOf(config, tf)'
    BY <1>1, <1>2 DEF p, PlanOf, SubnetComputed
  <2>2. Range(match') \intersect Pending' = {}
    BY <1>1, <1>11
  <2>3. ASSUME NEW l \in DOMAIN p, p[l].fqdn \in Fqdn
        PROVE  /\ l \in DOMAIN m /\ m[l] = l
               /\ tf[l].fqdn = p[l].fqdn /\ p[l].subnet # Null
    <3>1. /\ l \in DOMAIN m /\ m[l] = l /\ l \in DOMAIN tf
          /\ tf[l].fqdn = p[l].fqdn
      BY <1>4, <1>6, <2>3
    <3>2. tf[l].subnet \in Subnet
      BY <1>5, <3>1, HousedTypes, ApiHostType DEF ApiHost
    <3> QED BY <1>7, <3>1, <3>2, ClusterHostsAssumption
  <2>4. \A l \in work'.create : plan'[l].shard \notin work'.newShards
    BY <1>1, <1>8
  <2>5. \A l \in DOMAIN plan' :
          /\ plan'[l].shard \notin work'.goneShards
          /\ plan'[l].shard = Unknown => work'.goneShards = {}
    BY <1>1, <1>8, <1>9
  <2>6. \A f \in work'.drop : \E s \in DOMAIN tf' : tf'[s].fqdn = f
    BY <1>2, <1>8
  <2> QED BY <1>1, <1>2, <1>4, <1>5, <2>1, <2>2, <2>3, <2>4, <2>5, <2>6 DEF Orderly
<1>13. PICK home : home = [l \in Range(m) |-> tf[CHOOSE s \in DOMAIN m : m[s] = l].fqdn]
  OBVIOUS
<1>14. \A s \in DOMAIN m : home[m[s]] = tf[s].fqdn
  <2> SUFFICES ASSUME NEW s \in DOMAIN m PROVE home[m[s]] = tf[s].fqdn
    OBVIOUS
  <2>1. (CHOOSE t \in DOMAIN m : m[t] = m[s]) = s
    BY <1>4 DEF IsInjective
  <2> QED BY <1>3, <1>13, <2>1
<1>15. \A l \in Range(m) : \E s \in DOMAIN m : m[s] = l
  BY DEF Range
<1>16. Lodging(home)'
  <2>1. home \in [DOMAIN plan' \ Pending' -> DOMAIN api']
    <3>1. \A l \in Range(m) : home[l] \in DOMAIN api
      BY <1>3, <1>5, <1>14, <1>15
    <3> QED BY <1>2, <1>11, <1>13, <3>1
  <2>2. IsInjective(home)
    <3> SUFFICES ASSUME NEW s \in DOMAIN m, NEW t \in DOMAIN m, home[m[s]] = home[m[t]]
                 PROVE  m[s] = m[t]
      <4>1. \A x, y \in Range(m) : \E i, j \in DOMAIN m : x = m[i] /\ y = m[j]
        BY <1>15
      <4>2. DOMAIN home = Range(m)
        BY <1>13
      <4> QED BY <4>1, <4>2 DEF IsInjective
    <3> QED BY <1>2, <1>3, <1>5, <1>14 DEF DistinctNames
  <2>3. \A f \in DOMAIN api : Leaves(f)' <=> f \in work'.drop \/ api[f].shard \in gone
    BY <1>2, <1>8 DEF Leaves
  <2>4. ASSUME NEW s \in DOMAIN m
        PROVE  ~Leaves(home[m[s]])' /\ Fits(m[s], api[home[m[s]]])'
    <3>1. home[m[s]] = tf[s].fqdn /\ s \in DOMAIN tf /\ tf[s].fqdn \in DOMAIN api
      BY <1>3, <1>5, <1>14
    <3>2. tf[s].fqdn \notin work'.drop
      BY <1>2, <1>3, <1>5, <1>8 DEF DistinctNames
    <3>3. tf[s].shard \notin gone
      BY <1>3, <1>7, <1>9
    <3>4. ~Leaves(home[m[s]])'
      BY <1>2, <1>5, <1>8, <3>1, <3>2, <3>3 DEF Leaves
    <3>5. (\A t \in work'.update : m[t] # m[s]) => p[m[s]].pub = tf[s].pub /\ p[m[s]].tune = tf[s].tune
      BY <1>8 DEF Changed
    <3>6. Fits(m[s], api[home[m[s]]])'
      BY <1>1, <1>2, <1>5, <1>7, <3>1, <3>5 DEF Fits
    <3> QED BY <3>4, <3>6
  <2>5. \A l \in DOMAIN home : ~Leaves(home[l])' /\ Fits(l, api[home[l]])'
    <3> SUFFICES ASSUME NEW l \in Range(m)
                 PROVE  ~Leaves(home[l])' /\ Fits(l, api[home[l]])'
      BY <1>13
    <3>1. PICK s \in DOMAIN m : m[s] = l
      BY <1>15
    <3> QED BY <2>4, <3>1 DEF Leaves, Fits
  <2>6. \A f \in DOMAIN api \ Range(home) : Leaves(f)'
    <3> SUFFICES ASSUME NEW f \in DOMAIN api \ Range(home), api[f].shard \notin gone
                 PROVE  f \in work'.drop
      BY <2>3
    <3>1. PICK l \in DOMAIN tf : tf[l].fqdn = f
      BY <1>2 DEF Covers
    <3>2. l \notin DOMAIN m
      <4>1. \A x \in Range(m) : home[x] \in Range(home)
        BY <1>13 DEF Range
      <4> QED BY <1>3, <1>14, <3>1, <4>1
    <3>3. \A x \in DOMAIN tf : tf[x].fqdn = f => tf[x].shard \notin gone
      BY <1>5
    <3> QED BY <1>8, <3>1, <3>2, <3>3
  <2> QED BY <1>1, <1>2, <1>14, <2>1, <2>2, <2>5, <2>6 DEF Lodging
<1> QED BY <1>2, <1>12, <1>16 DEF HousedInv, OwnNames

-----------------------------------------------------------------------------
(* What a call has to show: where the labels live afterwards.              *)
LEMMA CallHoused ==
  ASSUME HousedInv, KeptInv', pc = "apply", NEW done \in BOOLEAN, NEW left,
         Called(done, left), UNCHANGED <<service, config>>,
         left.create \subseteq work.create, left.newShards \subseteq work.newShards,
         left.goneShards \subseteq work.goneShards, left.drop \subseteq work.drop,
         done => \E home : Lodging(home)'
  PROVE  HousedInv'
<1>1. CASE done
  <2>1. work' = left /\ UNCHANGED <<tf, plan, match, pc>>
    BY <1>1 DEF Called
  <2>2. Pending' \subseteq Pending
    BY <2>1 DEF Pending
  <2>3. Orderly
    BY DEF HousedInv
  <2>4. PlanOf(config, tf)' = PlanOf(config, tf)
    BY <2>1 DEF PlanOf, SubnetComputed
  <2>5. Orderly'
    BY <2>1, <2>2, <2>3, <2>4 DEF Orderly
  <2> QED BY <1>1, <2>1, <2>5 DEF HousedInv, OwnNames
<1>2. CASE ~done
  <2>1. pc' = "idle" /\ tf' = tf
    BY <1>2 DEF Called, Stop
  <2> QED BY <2>1 DEF HousedInv, OwnNames
<1> QED BY <1>1, <1>2

(* A label whose host is created lives in a new one.                       *)
LEMMA NewHostsLodge ==
  ASSUME HousedInv, pc = "apply", NEW L \in SUBSET Pending, L \subseteq DOMAIN plan,
         AddHosts(L), Pending' = Pending \ L,
         UNCHANGED <<service, plan, match, tf>>, work'.update = work.update,
         work'.drop = work.drop, work'.goneShards = work.goneShards
  PROVE  \E home : Lodging(home)'
<1>1. PICK home : Lodging(home)
  BY DEF HousedInv
<1>2. PICK name \in [L -> Fqdn \ Used], host \in [L -> UNION {Placements(plan[l]) : l \in L}] :
         /\ IsInjective(name)
         /\ \A l \in L : host[l] \in Placements(plan[l])
         /\ api' = [f \in DOMAIN api \union Range(name) |->
                       IF f \in DOMAIN api THEN api[f]
                       ELSE host[CHOOSE l \in L : name[l] = f]]
  BY Zenon DEF AddHosts
<1>3. /\ home \in [DOMAIN plan \ Pending -> DOMAIN api] /\ IsInjective(home)
      /\ \A s \in DOMAIN match : home[match[s]] = tf[s].fqdn
      /\ \A l \in DOMAIN home : ~Leaves(home[l]) /\ Fits(l, api[home[l]])
      /\ \A f \in DOMAIN api \ Range(home) : Leaves(f)
  BY <1>1 DEF Lodging
<1>4. Orderly
  BY DEF HousedInv
<1>5. \A l \in L : name[l] \notin DOMAIN api /\ name[l] \notin work.drop
  BY <1>4 DEF Used, Orderly
<1>6. DOMAIN api' = DOMAIN api \union Range(name)
  BY <1>2
<1>7. \A l \in L : name[l] \in Range(name)
  BY DEF Range
<1>8. \A f \in DOMAIN api : api'[f] = api[f]
  BY <1>2
<1>9. \A l \in L : name[l] \in DOMAIN api' /\ api'[name[l]] = host[l]
  <2> SUFFICES ASSUME NEW l \in L PROVE name[l] \in DOMAIN api' /\ api'[name[l]] = host[l]
    OBVIOUS
  <2>1. (CHOOSE k \in L : name[k] = name[l]) = l
    BY <1>2 DEF IsInjective
  <2> QED BY <1>2, <1>5, <1>6, <1>7, <2>1
<1>10. \A l \in L : /\ plan[l].subnet \in {Unknown, Null, host[l].subnet}
                    /\ plan[l].shard \in {Unknown, host[l].shard}
                    /\ plan[l].pub = host[l].pub /\ plan[l].tune = host[l].tune
                    /\ host[l].shard \notin work.goneShards
  BY <1>2, <1>4 DEF Placements, Orderly
<1>11. PICK next : next = [l \in (DOMAIN plan \ Pending) \union L |->
                             IF l \in L THEN name[l] ELSE home[l]]
  OBVIOUS
<1>12. (DOMAIN plan \ Pending) \intersect L = {}
  OBVIOUS
<1>13. \A l \in L : next[l] = name[l]
  BY <1>11
<1>14. \A l \in DOMAIN plan \ Pending : next[l] = home[l] /\ home[l] \in DOMAIN api
  BY <1>3, <1>11, <1>12
<1>15. DOMAIN next = (DOMAIN plan \ Pending) \union L
  BY <1>11
<1>16. next \in [DOMAIN plan' \ Pending' -> DOMAIN api']
  <2>1. DOMAIN plan' \ Pending' = (DOMAIN plan \ Pending) \union L
    OBVIOUS
  <2>2. \A l \in (DOMAIN plan \ Pending) \union L : next[l] \in DOMAIN api'
    BY <1>6, <1>9, <1>13, <1>14
  <2> QED BY <1>11, <2>1, <2>2
<1>17. IsInjective(next)
  <2>1. \A l, k \in L : name[l] = name[k] => l = k
    BY <1>2 DEF IsInjective
  <2>2. \A l, k \in DOMAIN plan \ Pending : home[l] = home[k] => l = k
    BY <1>3 DEF IsInjective
  <2> QED BY <1>5, <1>13, <1>14, <1>15, <2>1, <2>2 DEF IsInjective
<1>18. \A s \in DOMAIN match : next[match[s]] = tf[s].fqdn
  <2>1. \A s \in DOMAIN match : match[s] \in DOMAIN plan \ Pending
    BY <1>4, HousedTypes DEF Orderly, KeptInv, TypeOK, Range
  <2> QED BY <1>3, <1>14, <2>1
<1>19. ASSUME NEW l \in DOMAIN next
       PROVE  ~Leaves(next[l])' /\ Fits(l, api[next[l]])'
  <2>1. CASE l \in L
    <3>1. ~Leaves(next[l])'
      BY <1>5, <1>9, <1>10, <1>13, <2>1 DEF Leaves
    <3>2. Fits(l, api[next[l]])'
      BY <1>9, <1>10, <1>13, <2>1 DEF Fits
    <3> QED BY <3>1, <3>2
  <2>2. CASE l \in DOMAIN plan \ Pending
    <3>1. next[l] = home[l] /\ home[l] \in DOMAIN api /\ api'[home[l]] = api[home[l]]
      BY <1>8, <1>14, <2>2
    <3>2. ~Leaves(home[l]) /\ Fits(l, api[home[l]])
      BY <1>3, <2>2
    <3> QED BY <3>1, <3>2 DEF Leaves, Fits, Mask
  <2> QED BY <1>15, <2>1, <2>2
<1>20. \A f \in DOMAIN api' \ Range(next) : Leaves(f)'
  <2> SUFFICES ASSUME NEW f \in DOMAIN api' \ Range(next) PROVE Leaves(f)'
    OBVIOUS
  <2>1. \A l \in DOMAIN next : next[l] \in Range(next)
    BY DEF Range
  <2>2. \A g \in Range(name) : \E l \in L : name[l] = g
    BY DEF Range
  <2>3. \A g \in Range(home) : \E l \in DOMAIN plan \ Pending : home[l] = g
    BY <1>3 DEF Range
  <2>4. f \in DOMAIN api \ Range(home)
    BY <1>6, <1>13, <1>14, <1>15, <2>1, <2>2, <2>3
  <2> QED BY <1>3, <1>8, <2>4 DEF Leaves
<1>21. Lodging(next)'
  BY <1>16, <1>17, <1>18, <1>19, <1>20 DEF Lodging
<1> QED BY <1>21

(* Hosts that leave are deleted, and nobody lives there.                   *)
LEMMA GoneHostsLodge ==
  ASSUME HousedInv, pc = "apply", NEW hosts, Remove(hosts),
         \A f \in hosts \intersect DOMAIN api : Leaves(f),
         UNCHANGED <<service, plan, match, tf>>,
         work'.create = work.create, work'.newShards = work.newShards,
         work'.update = work.update,
         work'.drop \subseteq work.drop, work'.goneShards \subseteq work.goneShards,
         \A f \in DOMAIN api \ hosts : Leaves(f) => Leaves(f)'
  PROVE  \E home : Lodging(home)' /\ home \in Injection(DOMAIN plan \ Pending, DOMAIN api')
<1>1. PICK home : Lodging(home)
  BY DEF HousedInv
<1>2. /\ home \in [DOMAIN plan \ Pending -> DOMAIN api] /\ IsInjective(home)
      /\ \A s \in DOMAIN match : home[match[s]] = tf[s].fqdn
      /\ \A l \in DOMAIN home : ~Leaves(home[l]) /\ Fits(l, api[home[l]])
      /\ \A f \in DOMAIN api \ Range(home) : Leaves(f)
  BY <1>1 DEF Lodging
<1>3. DOMAIN api' = DOMAIN api \ hosts /\ \A f \in DOMAIN api \ hosts : api'[f] = api[f]
  BY DEF Remove
<1>4. \A l \in DOMAIN home : home[l] \in DOMAIN api \ hosts
  BY <1>2
<1>5. Pending' = Pending
  BY DEF Pending
<1>6. home \in [DOMAIN plan' \ Pending' -> DOMAIN api']
  BY <1>2, <1>3, <1>4, <1>5
<1>7. ASSUME NEW l \in DOMAIN home
      PROVE  ~Leaves(home[l])' /\ Fits(l, api[home[l]])'
  <2>1. ~Leaves(home[l]) /\ Fits(l, api[home[l]]) /\ api'[home[l]] = api[home[l]]
    BY <1>2, <1>3, <1>4
  <2> QED BY <2>1 DEF Leaves, Fits, Mask
<1>8. \A f \in DOMAIN api' \ Range(home) : Leaves(f)'
  BY <1>2, <1>3
<1>9. Lodging(home)'
  BY <1>2, <1>6, <1>7, <1>8 DEF Lodging
<1>10. home \in Injection(DOMAIN plan \ Pending, DOMAIN api')
  BY <1>2, <1>5, <1>6 DEF Injection
<1> QED BY <1>9, <1>10

(* An update makes the host of a label as planned, as far as its mask goes.*)
LEMMA UpdatedHostLodges ==
  ASSUME HousedInv, pc = "apply", NEW s \in work.update, UpdateHost(s, TRUE)
  PROVE  \E home : Lodging(home)'
<1>1. PICK home : Lodging(home)
  BY DEF HousedInv
<1>2. /\ home \in [DOMAIN plan \ Pending -> DOMAIN api]
      /\ \A l, k \in DOMAIN home : home[l] = home[k] => l = k
      /\ \A t \in DOMAIN match : home[match[t]] = tf[t].fqdn
      /\ \A l \in DOMAIN home : ~Leaves(home[l]) /\ Fits(l, api[home[l]])
      /\ \A f \in DOMAIN api \ Range(home) : Leaves(f)
  BY <1>1 DEF Lodging, IsInjective
<1>3. s \in DOMAIN match /\ tf[s].fqdn \in DOMAIN api /\ ApiOK
  BY HousedTypes DEF HousedInv, KeptInv, Spared
<1>4. match[s] \in DOMAIN home
  <2>1. match[s] \in DOMAIN plan /\ match[s] \in Range(match)
    BY <1>3, HousedTypes DEF KeptInv, TypeOK, Range
  <2>2. Range(match) \intersect Pending = {}
    BY DEF HousedInv, Orderly
  <2> QED BY <1>2, <2>1, <2>2
<1>5. /\ UNCHANGED <<service, tf, plan, match>>
      /\ work' = [work EXCEPT !.update = @ \ {s}]
      /\ api' = [api EXCEPT
                   ![tf[s].fqdn].pub = IF "pub" \in Mask THEN plan[match[s]].pub ELSE @,
                   ![tf[s].fqdn].tune = IF "tune" \in Mask THEN plan[match[s]].tune ELSE @]
  BY DEF UpdateHost, Called
<1>6. /\ work'.update = work.update \ {s} /\ work'.newShards = work.newShards
      /\ work'.create = work.create /\ work'.drop = work.drop
      /\ work'.goneShards = work.goneShards
  BY <1>5, HousedTypes DEF Work
<1>7. \A f \in DOMAIN api : DOMAIN api[f] = {"subnet", "shard", "pub", "tune"}
  BY <1>3 DEF ApiOK, ApiHost, Range
<1>8. /\ DOMAIN api' = DOMAIN api
      /\ \A f \in DOMAIN api : /\ api'[f].shard = api[f].shard /\ api'[f].subnet = api[f].subnet
                               /\ f # tf[s].fqdn => api'[f] = api[f]
      /\ api'[tf[s].fqdn].pub = plan[match[s]].pub
      /\ "tune" \in Mask => api'[tf[s].fqdn].tune = plan[match[s]].tune
  <2>1. "pub" \in Mask
    BY DEF Mask
  <2> QED BY <1>3, <1>5, <1>7, <2>1
<1>9. Pending' = Pending
  BY <1>5, <1>6 DEF Pending
<1>10. \A f \in DOMAIN api : Leaves(f)' <=> Leaves(f)
  BY <1>6, <1>8 DEF Leaves
<1>11. \A l \in DOMAIN home : home[l] \in DOMAIN api
  BY <1>2
<1>12. Mask' = Mask
  BY <1>5 DEF Mask
<1>13. ASSUME NEW l \in DOMAIN home
       PROVE  Fits(l, api[home[l]])'
  <2>1. Fits(l, api[home[l]]) /\ home[l] \in DOMAIN api
    BY <1>2, <1>11
  <2>2. CASE l = match[s]
    <3>1. home[l] = tf[s].fqdn
      BY <1>2, <1>3, <2>2
    <3> QED BY <1>5, <1>8, <1>12, <2>1, <2>2, <3>1 DEF Fits
  <2>3. CASE l # match[s]
    <3>1. home[l] # tf[s].fqdn
      BY <1>2, <1>3, <1>4, <2>3
    <3>2. api'[home[l]] = api[home[l]]
      BY <1>8, <2>1, <3>1
    <3>3. (\A t \in work'.update : match[t] # l) => \A t \in work.update : match[t] # l
      BY <1>6, <2>3
    <3> QED BY <1>5, <1>12, <2>1, <3>2, <3>3 DEF Fits
  <2> QED BY <2>2, <2>3
<1>14. Lodging(home)'
  <2>1. home \in [DOMAIN plan' \ Pending' -> DOMAIN api']
    BY <1>2, <1>5, <1>8, <1>9
  <2>2. \A l \in DOMAIN home : ~Leaves(home[l])'
    BY <1>2, <1>10, <1>11
  <2>3. \A f \in DOMAIN api' \ Range(home) : Leaves(f)'
    BY <1>2, <1>8, <1>10
  <2> QED BY <1>2, <1>5, <1>13, <2>1, <2>2, <2>3 DEF Lodging, IsInjective
<1> QED BY <1>14

(* Each of the five calls, when it is done, leaves the labels a home.      *)
LEMMA DoneCallLodges ==
  ASSUME HousedInv,
         \/ \E s \in Shard : CreateShard(s, TRUE) \/ DeleteShard(s, TRUE)
         \/ \E l \in Label : CreateHost(l, TRUE)
         \/ \E s \in Label \union Fqdn : UpdateHost(s, TRUE)
         \/ \E f \in Fqdn : DeleteHost(f, TRUE)
  PROVE  \E home : Lodging(home)'
<1>0. work \in Work /\ KeptInv
  BY HousedTypes
<1>1. ASSUME NEW s \in Shard, CreateShard(s, TRUE)
      PROVE  \E home : Lodging(home)'
  <2> DEFINE L == {l \in DOMAIN plan : plan[l].shard = s}
  <2>1. /\ pc = "apply" /\ s \in work.newShards /\ AddHosts(L)
        /\ work' = [work EXCEPT !.newShards = @ \ {s}]
        /\ UNCHANGED <<service, tf, plan, match>>
    BY <1>1 DEF CreateShard, Called
  <2>2. /\ work'.newShards = work.newShards \ {s} /\ work'.create = work.create
        /\ work'.update = work.update /\ work'.drop = work.drop
        /\ work'.goneShards = work.goneShards
    BY <1>0, <2>1 DEF Work
  <2>3. \A l \in work.create : plan[l].shard \notin work.newShards
    BY <2>1 DEF HousedInv, Orderly
  <2>4. L \in SUBSET Pending /\ Pending' = Pending \ L
    BY <2>1, <2>2, <2>3 DEF Pending
  <2> HIDE DEF L
  <2>5. L \subseteq DOMAIN plan
    BY DEF L
  <2> QED BY <2>1, <2>2, <2>4, <2>5, NewHostsLodge
<1>2. ASSUME NEW l \in Label, CreateHost(l, TRUE)
      PROVE  \E home : Lodging(home)'
  <2>1. /\ pc = "apply" /\ work.newShards = {} /\ l \in work.create /\ AddHosts({l})
        /\ work' = [work EXCEPT !.create = @ \ {l}]
        /\ UNCHANGED <<service, tf, plan, match>>
    BY <1>2 DEF CreateHost, Called
  <2>2. /\ work'.newShards = work.newShards /\ work'.create = work.create \ {l}
        /\ work'.update = work.update /\ work'.drop = work.drop
        /\ work'.goneShards = work.goneShards
    BY <1>0, <2>1 DEF Work
  <2>3. {l} \in SUBSET Pending /\ Pending' = Pending \ {l} /\ {l} \subseteq DOMAIN plan
    BY <1>0, <2>1, <2>2 DEF Pending, KeptInv
  <2> QED BY <2>1, <2>2, <2>3, NewHostsLodge
<1>3. ASSUME NEW s \in Label \union Fqdn, UpdateHost(s, TRUE)
      PROVE  \E home : Lodging(home)'
  <2>1. pc = "apply" /\ s \in work.update
    BY <1>3 DEF UpdateHost
  <2> QED BY <1>3, <2>1, UpdatedHostLodges
<1>4. ASSUME NEW s \in Shard, DeleteShard(s, TRUE)
      PROVE  \E home : Lodging(home)'
  <2> DEFINE hosts == {f \in DOMAIN api : api[f].shard = s}
  <2>1. /\ pc = "apply" /\ s \in work.goneShards /\ Remove(hosts)
        /\ work' = [work EXCEPT !.goneShards = @ \ {s}]
        /\ UNCHANGED <<service, tf, plan, match>>
    BY <1>4 DEF DeleteShard, Called
  <2>2. /\ work'.newShards = work.newShards /\ work'.create = work.create
        /\ work'.update = work.update /\ work'.drop = work.drop
        /\ work'.goneShards = work.goneShards \ {s}
    BY <1>0, <2>1 DEF Work
  <2>3. \A f \in DOMAIN api \ hosts : api'[f] = api[f]
    BY <2>1 DEF Remove
  <2>4. \A f \in DOMAIN api \ hosts : Leaves(f) => Leaves(f)'
    BY <2>2, <2>3 DEF Leaves
  <2>5. \A f \in hosts \intersect DOMAIN api : Leaves(f)
    BY <2>1 DEF Leaves
  <2> HIDE DEF hosts
  <2> QED BY <2>1, <2>2, <2>4, <2>5, GoneHostsLodge
<1>5. ASSUME NEW f \in Fqdn, DeleteHost(f, TRUE)
      PROVE  \E home : Lodging(home)'
  <2>1. /\ pc = "apply" /\ f \in work.drop /\ Remove({f})
        /\ work' = [work EXCEPT !.drop = @ \ {f}]
        /\ UNCHANGED <<service, tf, plan, match>>
    BY <1>5 DEF DeleteHost, Called
  <2>2. /\ work'.newShards = work.newShards /\ work'.create = work.create
        /\ work'.update = work.update /\ work'.drop = work.drop \ {f}
        /\ work'.goneShards = work.goneShards
    BY <1>0, <2>1 DEF Work
  <2>3. \A g \in DOMAIN api \ {f} : api'[g] = api[g]
    BY <2>1 DEF Remove
  <2>4. \A g \in DOMAIN api \ {f} : Leaves(g) => Leaves(g)'
    BY <2>2, <2>3 DEF Leaves
  <2>5. \A g \in {f} \intersect DOMAIN api : Leaves(g)
    BY <2>1 DEF Leaves
  <2> QED BY <2>1, <2>2, <2>4, <2>5, GoneHostsLodge
<1> QED BY <1>1, <1>2, <1>3, <1>4, <1>5

(* A call keeps the labels housed, whether the update goes on or breaks    *)
(* off.                                                                    *)
LEMMA CallStepHoused ==
  ASSUME HousedInv, KeptInv', NEW done \in BOOLEAN,
         \/ \E s \in Shard : CreateShard(s, done) \/ DeleteShard(s, done)
         \/ \E l \in Label : CreateHost(l, done)
         \/ \E s \in Label \union Fqdn : UpdateHost(s, done)
         \/ \E f \in Fqdn : DeleteHost(f, done)
  PROVE  HousedInv'
<1>0. work \in Work
  BY HousedTypes
<1>1. done => \E home : Lodging(home)'
  BY DoneCallLodges
<1> DEFINE Less(left) ==
             /\ pc = "apply" /\ Called(done, left) /\ UNCHANGED <<service, config>>
             /\ left.create \subseteq work.create /\ left.newShards \subseteq work.newShards
             /\ left.goneShards \subseteq work.goneShards /\ left.drop \subseteq work.drop
<1>2. ASSUME NEW s \in Shard, CreateShard(s, done)
      PROVE  Less([work EXCEPT !.newShards = @ \ {s}])
  BY <1>0, <1>2 DEF CreateShard, Work
<1>3. ASSUME NEW l \in Label, CreateHost(l, done)
      PROVE  Less([work EXCEPT !.create = @ \ {l}])
  BY <1>0, <1>3 DEF CreateHost, Work
<1>4. ASSUME NEW s \in Label \union Fqdn, UpdateHost(s, done)
      PROVE  Less([work EXCEPT !.update = @ \ {s}])
  BY <1>0, <1>4 DEF UpdateHost, Work
<1>5. ASSUME NEW s \in Shard, DeleteShard(s, done)
      PROVE  Less([work EXCEPT !.goneShards = @ \ {s}])
  BY <1>0, <1>5 DEF DeleteShard, Work
<1>6. ASSUME NEW f \in Fqdn, DeleteHost(f, done)
      PROVE  Less([work EXCEPT !.drop = @ \ {f}])
  BY <1>0, <1>6 DEF DeleteHost, Work
<1>7. PICK left : Less(left)
  <2> HIDE DEF Less
  <2> QED BY <1>2, <1>3, <1>4, <1>5, <1>6
<1> QED BY <1>1, <1>7, CallHoused

-----------------------------------------------------------------------------
(* A map of hosts with labels only has no host under its fqdn.             *)
LEMMA LabelsOwnNames ==
  ASSUME NEW st, DOMAIN st \subseteq Label
  PROVE  OwnNames(st)
  BY ClusterHostsAssumption DEF OwnNames

(* A created cluster has one host for each label.                          *)
LEMMA HousedInit == Init => HousedInv
<1> SUFFICES ASSUME Init PROVE HousedInv
  OBVIOUS
<1>1. DOMAIN tf \subseteq Label /\ pc = "idle"
  BY ClusterHostsAssumption DEF Init
<1> QED BY <1>1, KeptInit, LabelsOwnNames DEF HousedInv

(* Between two applies only the state counts.                              *)
LEMMA IdleHoused ==
  ASSUME KeptInv', pc' = "idle", NEW st, OwnNames(st), tf' = st
  PROVE  HousedInv'
  BY DEF HousedInv, OwnNames

(* Every step keeps the labels housed.                                     *)
LEMMA HousedStep ==
  ASSUME HousedInv, [Next]_vars
  PROVE  HousedInv'
<1>0. KeptInv' /\ KeptInv /\ OwnNames(tf) /\ ApiOK
  BY KeptStep, HousedTypes DEF HousedInv
<1>1. CASE UNCHANGED vars
  <2>1. UNCHANGED <<service, config, api, tf, plan, match, work, pc>>
    BY <1>1 DEF vars
  <2>2. OwnNames(tf)' /\ (pc = "fresh" => Covers(tf))'
    BY <2>1 DEF HousedInv, OwnNames, Covers
  <2>3. CASE pc = "apply"
    <3>1. Orderly'
      <4>1. Orderly
        BY <2>3 DEF HousedInv
      <4>2. PlanOf(config, tf)' = PlanOf(config, tf) /\ Pending' = Pending
        BY <2>1 DEF Pending, PlanOf, SubnetComputed
      <4> QED BY <2>1, <4>1, <4>2 DEF Orderly
    <3>2. PICK home : Lodging(home)
      BY <2>3 DEF HousedInv
    <3>3. Lodging(home)'
      BY <2>1, <3>2 DEF Lodging, Pending, Leaves, Fits, Mask
    <3> QED BY <1>0, <2>1, <2>2, <3>1, <3>3 DEF HousedInv
  <2> QED BY <1>0, <2>1, <2>2, <2>3 DEF HousedInv
<1>2. CASE Edit
  BY <1>0, <1>2, IdleHoused DEF Edit
<1>3. CASE Refresh
  <2>1. PICK m \in ReadMatchings(tf) : tf' = ReadResult(tf, m)
    BY <1>3 DEF Refresh
  <2>2. OwnNames(ReadResult(tf, m)) /\ Covers(ReadResult(tf, m))
    BY <1>0, ReadCovers
  <2>3. pc' = "fresh" /\ UNCHANGED api
    BY <1>3 DEF Refresh
  <2>4. OwnNames(tf)' /\ Covers(tf)'
    BY <2>1, <2>2, <2>3 DEF OwnNames, Covers
  <2> QED BY <1>0, <2>3, <2>4 DEF HousedInv
<1>4. CASE NothingToDo
  BY <1>0, <1>4, IdleHoused DEF NothingToDo, Stop
<1>5. CASE Reject
  BY <1>0, <1>5, IdleHoused DEF Reject, Stop
<1>6. CASE StartUpdate
  BY <1>0, <1>6, StartLodges
<1>7. CASE Call
  BY <1>0, <1>7, CallStepHoused, TRUE \in BOOLEAN DEF Call
<1>8. CASE CallBreaksOff
  BY <1>0, <1>8, CallStepHoused, FALSE \in BOOLEAN DEF CallBreaksOff
<1>9. CASE CallFails
  BY <1>0, <1>9, IdleHoused DEF CallFails, Stop
<1>10. DOMAIN plan \subseteq Label
  BY <1>0 DEF KeptInv, PlanOK
<1>11. CASE ReadBack
  <2>1. PICK m \in ReadMatchings(plan) : Stop(ReadResult(plan, m))
    BY <1>11 DEF ReadBack
  <2>2. OwnNames(ReadResult(plan, m))
    BY <1>0, <1>10, LabelsOwnNames, ReadCovers
  <2> QED BY <1>0, <2>1, <2>2, IdleHoused DEF Stop
<1>12. OwnNames(<< >>) /\ OwnNames([l \in DOMAIN plan |-> Nulled(plan[l])])
  BY <1>10, EmptyMap, LabelsOwnNames
<1>13. CASE ReadBackWrong
  <2>1. \E st \in {<< >>, tf} : Stop(st)
    BY <1>13 DEF ReadBackWrong
  <2> QED BY <1>0, <1>12, <2>1, IdleHoused DEF Stop
<1>14. CASE ReadBackFails
  <2>1. \E st \in {<< >>, tf, [l \in DOMAIN plan |-> Nulled(plan[l])]} : Stop(st)
    BY <1>14 DEF ReadBackFails
  <2> QED BY <1>0, <1>12, <2>1, IdleHoused DEF Stop
<1> QED BY <1>1, <1>2, <1>3, <1>4, <1>5, <1>6, <1>7, <1>8, <1>9, <1>11, <1>13, <1>14
        DEF Next, Progress

(* Throughout an update every label has a host of its own or one that is   *)
(* still to be created, and every other host will be deleted, whatever     *)
(* failed before (hosts.go:66-69, 100-192, 223-285).                       *)
THEOREM HousedInvariant == Spec => []HousedInv
  BY HousedInit, HousedStep, PTL DEF Spec

-----------------------------------------------------------------------------
(* Whatever is deleted, the labels that have a home keep it.               *)
LEMMA DeletedLeaveEnough ==
  ASSUME HousedInv, KeptInv', pc = "apply", Pending = {}, NEW hosts, Remove(hosts),
         \A f \in hosts \intersect DOMAIN api : Leaves(f)
  PROVE  Cardinality(DOMAIN api') >= Cardinality(DOMAIN plan)
<1>1. PICK home : Lodging(home)
  BY DEF HousedInv
<1>2. /\ home \in [DOMAIN plan -> DOMAIN api] /\ IsInjective(home)
      /\ \A l \in DOMAIN plan : ~Leaves(home[l])
  BY <1>1 DEF Lodging
<1>3. DOMAIN api' = DOMAIN api \ hosts
  BY DEF Remove
<1>4. home \in Injection(DOMAIN plan, DOMAIN api')
  BY <1>2, <1>3 DEF Injection
<1>5. IsFiniteSet(DOMAIN api')
  <2>1. DOMAIN api' \in SUBSET Fqdn
    BY DEF KeptInv, TypeOK
  <2>2. IsFiniteSet(Fqdn)
    BY HousedTypes
  <2> QED BY <2>1, <2>2, FS_Subset
<1>6. /\ IsFiniteSet(DOMAIN plan)
      /\ Cardinality(DOMAIN plan) <= Cardinality(DOMAIN api')
  BY <1>4, <1>5, FS_Injection
<1>7. Cardinality(DOMAIN plan) \in Nat /\ Cardinality(DOMAIN api') \in Nat
  BY <1>5, <1>6, FS_CardinalityType
<1> QED BY <1>6, <1>7

(* Only the deletions take hosts away, and they come last.                 *)
LEMMA DeletionsLast ==
  ASSUME HousedInv, KeptInv', [Next]_vars, DOMAIN api \ DOMAIN api' # {}
  PROVE  Cardinality(DOMAIN api') >= Cardinality(DOMAIN plan)
<1>1. \A L : AddHosts(L) => DOMAIN api \ DOMAIN api' = {}
  BY DEF AddHosts
<1>2. \A s : \A done \in BOOLEAN : UpdateHost(s, done) => DOMAIN api \ DOMAIN api' = {}
  BY DEF UpdateHost
<1>3. ASSUME NEW done \in BOOLEAN,
             \/ \E s \in Shard : CreateShard(s, done) \/ DeleteShard(s, done)
             \/ \E l \in Label : CreateHost(l, done)
             \/ \E s \in Label \union Fqdn : UpdateHost(s, done)
             \/ \E f \in Fqdn : DeleteHost(f, done)
      PROVE  Cardinality(DOMAIN api') >= Cardinality(DOMAIN plan)
  <2>1. PICK x : DeleteShard(x, done) \/ DeleteHost(x, done)
    <3>1. ~(\E s \in Shard : CreateShard(s, done)) /\ ~(\E l \in Label : CreateHost(l, done))
      BY <1>1 DEF CreateShard, CreateHost
    <3>2. ~(\E s \in Label \union Fqdn : UpdateHost(s, done))
      BY <1>2
    <3> QED BY <1>3, <3>1, <3>2
  <2>2. pc = "apply" /\ work.newShards = {} /\ work.create = {}
    BY <2>1 DEF DeleteShard, DeleteHost
  <2>3. Pending = {}
    BY <2>2 DEF Pending
  <2>4. CASE DeleteShard(x, done)
    <3> DEFINE hosts == {f \in DOMAIN api : api[f].shard = x}
    <3>1. Remove(hosts) /\ \A f \in hosts \intersect DOMAIN api : Leaves(f)
      BY <2>4 DEF DeleteShard, Leaves
    <3> HIDE DEF hosts
    <3> QED BY <2>2, <2>3, <3>1, DeletedLeaveEnough
  <2>5. CASE DeleteHost(x, done)
    <3>1. Remove({x}) /\ \A f \in {x} \intersect DOMAIN api : Leaves(f)
      BY <2>5 DEF DeleteHost, Leaves
    <3> QED BY <2>2, <2>3, <3>1, DeletedLeaveEnough
  <2> QED BY <2>1, <2>4, <2>5
<1>4. ~UNCHANGED api
  OBVIOUS
<1>5. Call \/ CallBreaksOff
  BY <1>4 DEF Next, Progress, vars, Edit, Refresh, NothingToDo, Reject, StartUpdate,
              CallFails, ReadBack, ReadBackWrong, ReadBackFails
<1> QED BY <1>3, <1>5, TRUE \in BOOLEAN, FALSE \in BOOLEAN DEF Call, CallBreaksOff

(* Whenever a host is deleted the cluster still has as many as the plan    *)
(* wants, also when the update breaks off there (hosts.go:114-118).        *)
THEOREM HostsGoLast == Spec => DeletesLast
<1>1. HousedInv /\ KeptInv' /\ [Next]_vars
         => [DOMAIN api \ DOMAIN api' # {}
               => Cardinality(DOMAIN api') >= Cardinality(DOMAIN plan)]_vars
  BY DeletionsLast
<1> QED BY <1>1, HousedInvariant, KeptInvariant, PTL DEF Spec, DeletesLast

-----------------------------------------------------------------------------
(* A host that is added is as the plan says of some label.                 *)
LEMMA AddedHosts ==
  ASSUME NEW L, AddHosts(L), NEW f \in DOMAIN api'
  PROVE  \/ f \in DOMAIN api /\ api'[f] = api[f]
         \/ \E l \in L : api'[f] \in Placements(plan[l])
<1>1. PICK name \in [L -> Fqdn \ Used], host \in [L -> UNION {Placements(plan[l]) : l \in L}] :
         /\ IsInjective(name)
         /\ \A l \in L : host[l] \in Placements(plan[l])
         /\ api' = [g \in DOMAIN api \union Range(name) |->
                       IF g \in DOMAIN api THEN api[g]
                       ELSE host[CHOOSE l \in L : name[l] = g]]
  BY Zenon DEF AddHosts
<1>2. CASE f \in DOMAIN api
  BY <1>1, <1>2
<1>3. CASE f \notin DOMAIN api
  <2>1. \E l \in L : name[l] = f
    BY <1>1, <1>3 DEF Range
  <2>2. (CHOOSE l \in L : name[l] = f) \in L
    BY <2>1
  <2> QED BY <1>1, <1>3, <2>2
<1> QED BY <1>2, <1>3

(* The hosts of a created cluster are as written.                          *)
LEMMA TuneInit == MaskCovers /\ Init => TuneKept
<1> SUFFICES ASSUME MaskCovers, Init, service # "redis",
                    NEW f \in DOMAIN api, NEW l \in DOMAIN config
             PROVE  api[f].tune = config[l].tune
  BY DEF TuneKept
<1>1. PICK name \in [DOMAIN config -> Fqdn] :
         /\ api \in [Range(name) -> ApiHost]
         /\ \A k \in DOMAIN config : FullyMatch(PlanOf(config, << >>)[k], api[name[k]])
  BY DEF Init
<1>2. PICK k \in DOMAIN config : name[k] = f
  BY <1>1 DEF Range
<1>3. config[k].tune = api[f].tune
  BY <1>1, <1>2, PlanFields DEF FullyMatch
<1> QED BY <1>3 DEF MaskCovers, Init

(* New hosts have the attribute as written, and no update touches it.      *)
LEMMA TuneCall ==
  ASSUME MaskCovers, HousedInv, TuneKept, NEW done \in BOOLEAN,
         \/ \E s \in Shard : CreateShard(s, done) \/ DeleteShard(s, done)
         \/ \E l \in Label : CreateHost(l, done)
         \/ \E s \in Label \union Fqdn : UpdateHost(s, done)
         \/ \E f \in Fqdn : DeleteHost(f, done)
  PROVE  TuneKept'
<1>0. /\ UNCHANGED <<service, config>> /\ pc = "apply"
      /\ ApiOK /\ work.create \subseteq DOMAIN plan
  BY HousedTypes DEF CreateShard, DeleteShard, CreateHost, UpdateHost, DeleteHost, KeptInv
<1>1. plan = PlanOf(config, tf)
  BY <1>0 DEF HousedInv, Orderly
<1>2. DOMAIN plan = DOMAIN config /\ \A l \in DOMAIN config : plan[l].tune = config[l].tune
  BY <1>1, PlanFields
<1> SUFFICES ASSUME service # "redis", NEW f \in DOMAIN api', NEW l \in DOMAIN config
             PROVE  api'[f].tune = config[l].tune
  BY <1>0 DEF TuneKept
<1>3. \A k \in DOMAIN config : config[k].tune = config[l].tune
  BY HousedTypes DEF MaskCovers
<1>4. \A g \in DOMAIN api : api[g].tune = config[l].tune
  BY DEF TuneKept
<1>5. ASSUME NEW L, L \subseteq DOMAIN plan, AddHosts(L)
      PROVE  api'[f].tune = config[l].tune
  <2>1. CASE f \in DOMAIN api /\ api'[f] = api[f]
    BY <1>4, <2>1
  <2>2. CASE \E k \in L : api'[f] \in Placements(plan[k])
    BY <1>2, <1>3, <1>5, <2>2 DEF Placements
  <2> QED BY <1>5, <2>1, <2>2, AddedHosts
<1>6. ASSUME NEW hosts, Remove(hosts)
      PROVE  api'[f].tune = config[l].tune
  BY <1>4, <1>6 DEF Remove
<1>7. ASSUME NEW s, UpdateHost(s, done)
      PROVE  api'[f].tune = config[l].tune
  <2>1. \A g \in DOMAIN api : DOMAIN api[g] = {"subnet", "shard", "pub", "tune"}
    BY <1>0 DEF ApiOK, ApiHost, Range
  <2>2. "tune" \notin Mask
    BY DEF Mask
  <2>3. \E x : api' = [api EXCEPT ![tf[s].fqdn].pub = x, ![tf[s].fqdn].tune = @]
    BY <1>7, <2>2 DEF UpdateHost
  <2> QED BY <1>4, <2>1, <2>3
<1> QED BY <1>0, <1>5, <1>6, <1>7 DEF CreateShard, DeleteShard, CreateHost, DeleteHost

(* Nothing else touches a host.                                            *)
LEMMA TuneStep ==
  ASSUME MaskCovers, HousedInv, HousedInv', TuneKept, [Next]_vars
  PROVE  TuneKept'
<1>1. CASE Call \/ CallBreaksOff
  BY <1>1, TuneCall, TRUE \in BOOLEAN, FALSE \in BOOLEAN DEF Call, CallBreaksOff
<1>2. CASE ~(Call \/ CallBreaksOff)
  <2>1. UNCHANGED <<service, api>>
    BY <1>2 DEF Next, Progress, vars, Edit, Refresh, NothingToDo, Reject, StartUpdate,
                CallFails, ReadBack, ReadBackWrong, ReadBackFails
  <2>2. PICK k \in DOMAIN config : TRUE
    BY HousedTypes
  <2>3. config \in Configs[service] /\ config' \in Configs[service] /\ service \in DOMAIN Configs
    <3>1. KeptInv /\ KeptInv'
      BY DEF HousedInv
    <3> QED BY <2>1, <3>1 DEF KeptInv, TypeOK
  <2>4. service # "redis" => \A l \in DOMAIN config' : config[k].tune = config'[l].tune
    BY <2>3 DEF MaskCovers
  <2> QED BY <2>1, <2>4 DEF TuneKept
<1> QED BY <1>1, <1>2

-----------------------------------------------------------------------------
(* When all calls are made each label has a host as planned (or a new one, *)
(* in whatever subnet, if the plan has none), there is no other host, and  *)
(* the hosts that no fqdn of the plan takes are those of the labels        *)
(* without an fqdn.                                                        *)
LEMMA FinishedLodging ==
  ASSUME HousedInv, TuneKept, pc = "apply", work = NoWork
  PROVE  \E home \in Bijection(DOMAIN plan, DOMAIN api) :
            /\ \A l \in DOMAIN plan : plan[l].subnet # Null => FullyMatch(plan[l], api[home[l]])
            /\ \A l \in DOMAIN plan \ Unnamed(plan) :
                  plan[l].subnet # Null /\ home[l] = plan[l].fqdn
            /\ \A l \in Unnamed(plan) : home[l] \in Untaken(plan)
            /\ \A f \in Untaken(plan) : \E l \in Unnamed(plan) : home[l] = f
<1>1. PICK home : Lodging(home)
  BY DEF HousedInv
<1>2. /\ work.newShards = {} /\ work.create = {} /\ work.update = {}
      /\ work.drop = {} /\ work.goneShards = {}
  BY DEF NoWork
<1>3. Pending = {} /\ \A f : ~Leaves(f)
  BY <1>2 DEF Pending, Leaves
<1>4. /\ home \in [DOMAIN plan -> DOMAIN api]
      /\ \A l, k \in DOMAIN plan : home[l] = home[k] => l = k
      /\ \A s \in DOMAIN match : home[match[s]] = tf[s].fqdn
      /\ \A l \in DOMAIN plan : Fits(l, api[home[l]])
      /\ DOMAIN api \subseteq Range(home)
  BY <1>1, <1>3 DEF Lodging, IsInjective
<1>5. \A f \in DOMAIN api : \E l \in DOMAIN plan : home[l] = f
  BY <1>4 DEF Range
<1>6. \A l \in DOMAIN plan : home[l] \in DOMAIN api /\ home[l] \in Fqdn
  BY <1>4, HousedTypes DEF ApiOK
<1>7. home \in Bijection(DOMAIN plan, DOMAIN api)
  BY <1>4, <1>5 DEF Bijection, Injection, Surjection, IsInjective
<1>8. Orderly
  BY DEF HousedInv
<1>9. ASSUME NEW l \in DOMAIN plan, plan[l].subnet # Null
      PROVE  FullyMatch(plan[l], api[home[l]])
  <2>1. /\ plan[l].subnet \in {Unknown, api[home[l]].subnet}
        /\ plan[l].shard \in {Unknown, api[home[l]].shard}
        /\ plan[l].pub = api[home[l]].pub
        /\ "tune" \in Mask => plan[l].tune = api[home[l]].tune
    BY <1>2, <1>4, <1>9 DEF Fits
  <2>2. l \in DOMAIN config /\ plan[l].tune = config[l].tune
    BY <1>8, PlanFields DEF Orderly
  <2>3. plan[l].tune = api[home[l]].tune
    BY <1>6, <2>1, <2>2 DEF Mask, TuneKept
  <2> QED BY <2>1, <2>3 DEF FullyMatch
<1>10. \A l \in DOMAIN plan \ Unnamed(plan) :
          plan[l].subnet # Null /\ home[l] = plan[l].fqdn
  BY <1>4, <1>8 DEF Unnamed, Orderly
<1>11. \A l \in Unnamed(plan) : l \in DOMAIN plan
  BY DEF Unnamed
<1>12. ASSUME NEW l \in Unnamed(plan) PROVE home[l] \in Untaken(plan)
  <2>1. ASSUME NEW k \in DOMAIN plan, plan[k].fqdn = home[l] PROVE FALSE
    <3>1. k \in DOMAIN plan \ Unnamed(plan)
      BY <1>6, <1>11, <2>1 DEF Unnamed
    <3>2. k = l
      BY <1>4, <1>10, <1>11, <2>1, <3>1
    <3> QED BY <3>1, <3>2
  <2> QED BY <1>6, <1>11, <2>1 DEF Untaken
<1>13. ASSUME NEW f \in Untaken(plan) PROVE \E l \in Unnamed(plan) : home[l] = f
  <2>1. f \in DOMAIN api /\ \A k \in DOMAIN plan : plan[k].fqdn # f
    BY DEF Untaken
  <2> QED BY <1>5, <1>10, <2>1
<1> QED BY <1>7, <1>9, <1>10, <1>12, <1>13

(* What fits the plan fits what was written.                               *)
LEMMA PlanIsWritten ==
  ASSUME NEW c, NEW st, NEW l \in DOMAIN c, NEW host, FullyMatch(PlanOf(c, st)[l], host)
  PROVE  FullyMatch(c[l], host)
<1>1. PICK h : h = PlanOf(c, st)[l]
  OBVIOUS
<1>2. /\ c[l].subnet # Unknown => h.subnet = c[l].subnet
      /\ c[l].shard # Unknown => h.shard = c[l].shard
      /\ h.pub = c[l].pub /\ h.tune = c[l].tune
  BY <1>1, PlanFields
<1> QED BY <1>1, <1>2 DEF FullyMatch

(* A read-back that finds a host for each label enters just these hosts.   *)
LEMMA ReadBackRealises ==
  ASSUME HousedInv, TuneKept, ReadBack
  PROVE  Realised'
<1>1. PICK m \in ReadMatchings(plan) : DOMAIN m = Unnamed(plan) /\ tf' = ReadResult(plan, m)
  BY DEF ReadBack, Complete, Stop
<1>2. pc = "apply" /\ work = NoWork /\ UNCHANGED <<api, config>>
  BY DEF ReadBack
<1>3. PICK home \in Bijection(DOMAIN plan, DOMAIN api) :
         /\ \A l \in DOMAIN plan : plan[l].subnet # Null => FullyMatch(plan[l], api[home[l]])
         /\ \A l \in DOMAIN plan \ Unnamed(plan) :
               plan[l].subnet # Null /\ home[l] = plan[l].fqdn
         /\ \A l \in Unnamed(plan) : home[l] \in Untaken(plan)
         /\ \A f \in Untaken(plan) : \E l \in Unnamed(plan) : home[l] = f
  BY <1>2, FinishedLodging
<1>4. /\ home \in [DOMAIN plan -> DOMAIN api]
      /\ \A l, k \in DOMAIN plan : home[l] = home[k] => l = k
  BY <1>3 DEF Bijection, Injection, IsInjective
<1>5. Unnamed(plan) \subseteq DOMAIN plan /\ Untaken(plan) \subseteq DOMAIN api
  BY DEF Unnamed, Untaken
<1>6. /\ \A l \in Unnamed(plan) : m[l] \in Untaken(plan)
      /\ \A l \in Unnamed(plan) : FullyMatch(plan[l], api[m[l]])
      /\ IsInjective(m)
      /\ m \in [Unnamed(plan) -> Untaken(plan)]
  <2> DEFINE Pairs == {x \in Unnamed(plan) \X Untaken(plan) : FullyMatch(plan[x[1]], api[x[2]])}
  <2>1. /\ m \in PartialFunctions(Unnamed(plan), Untaken(plan)) /\ IsInjective(m)
        /\ \A s \in DOMAIN m : <<s, m[s]>> \in Pairs
    BY DEF ReadMatchings, MaximalMatchings
  <2>2. m \in [Unnamed(plan) -> Untaken(plan)]
    BY <1>1, <2>1 DEF PartialFunctions
  <2>3. \A l \in Unnamed(plan) : m[l] \in Untaken(plan)
    BY <2>2
  <2>4. \A l \in Unnamed(plan) : FullyMatch(plan[l], api[m[l]])
    BY <1>1, <2>1
  <2> QED BY <2>1, <2>2, <2>3, <2>4
<1>7. IsFiniteSet(Unnamed(plan)) /\ IsFiniteSet(Untaken(plan))
  <2>1. IsFiniteSet(DOMAIN api)
    BY HousedTypes, FS_Subset DEF ApiOK
  <2>2. home \in Injection(DOMAIN plan, DOMAIN api)
    BY <1>3 DEF Bijection
  <2>3. IsFiniteSet(DOMAIN plan)
    BY <2>1, <2>2, FS_Injection
  <2> QED BY <1>5, <2>1, <2>3, FS_Subset
<1>8. \A f \in Untaken(plan) : \E l \in Unnamed(plan) : m[l] = f
  <2>1. PICK h : h = [l \in Unnamed(plan) |-> home[l]]
    OBVIOUS
  <2>2. h \in Bijection(Unnamed(plan), Untaken(plan))
    BY <1>3, <1>4, <1>5, <2>1 DEF Bijection, Injection, Surjection, IsInjective
  <2>3. Cardinality(Untaken(plan)) = Cardinality(Unnamed(plan))
    BY <1>7, <2>2, FS_Bijection DEF ExistsBijection
  <2>4. m \in Injection(Unnamed(plan), Untaken(plan))
    BY <1>6 DEF Injection
  <2>5. m \in Surjection(Unnamed(plan), Untaken(plan))
    BY <1>7, <2>3, <2>4, FS_Injection
  <2> QED BY <2>5 DEF Surjection
<1>9. Untaken(plan) \ Range(m) = {}
  BY <1>1, <1>8 DEF Range
<1> DEFINE R == ReadResult(plan, m)
<1>10. /\ DOMAIN R = DOMAIN plan
       /\ \A l \in DOMAIN plan : R[l] = Named(IF l \in Unnamed(plan) THEN m[l] ELSE home[l])
  <2>1. {l \in DOMAIN plan \ Unnamed(plan) : plan[l].fqdn \in DOMAIN api}
          = DOMAIN plan \ Unnamed(plan)
    BY <1>3, <1>4
  <2>2. (DOMAIN plan \ Unnamed(plan)) \union DOMAIN m \union (Untaken(plan) \ Range(m))
          = DOMAIN plan
    BY <1>1, <1>5, <1>9
  <2> QED BY <1>1, <1>3, <2>1, <2>2 DEF ReadResult
<1>11. \A l \in DOMAIN plan :
          R[l].fqdn = IF l \in Unnamed(plan) THEN m[l] ELSE home[l]
  BY <1>10 DEF Named
<1> HIDE DEF R
<1>12. \A l \in DOMAIN plan : R[l].fqdn \in DOMAIN api /\ FullyMatch(plan[l], api[R[l].fqdn])
  BY <1>3, <1>4, <1>5, <1>6, <1>11
<1>13. {R[l].fqdn : l \in DOMAIN R} = DOMAIN api
  <2> SUFFICES ASSUME NEW f \in DOMAIN api PROVE \E l \in DOMAIN plan : R[l].fqdn = f
    BY <1>10, <1>12
  <2>1. CASE f \in Untaken(plan)
    BY <1>5, <1>8, <1>11, <2>1
  <2>2. CASE f \notin Untaken(plan)
    <3>1. PICK l \in DOMAIN plan : plan[l].fqdn = f
      BY <2>2 DEF Untaken
    <3>2. f \in Fqdn
      BY HousedTypes DEF ApiOK
    <3> QED BY <1>3, <1>11, <3>1, <3>2 DEF Unnamed
  <2> QED BY <2>1, <2>2
<1>14. DistinctNames(R)
  BY <1>1, HousedTypes, ReadResultType DEF R, PlanOK, StateOK
<1>15. IsInjective([l \in DOMAIN R |-> R[l].fqdn])
  <2>1. \A l \in DOMAIN R : R[l].fqdn \in Fqdn
    BY <1>10, <1>12, HousedTypes DEF ApiOK
  <2> QED BY <1>14, <2>1 DEF IsInjective, DistinctNames
<1>16. DOMAIN plan = DOMAIN config /\ plan = PlanOf(config, tf)
  BY <1>2, PlanFields DEF HousedInv, Orderly
<1>17. \A l \in DOMAIN R : FullyMatch(config[l], api[R[l].fqdn])
  BY <1>10, <1>12, <1>16, PlanIsWritten
<1>18. tf' = R
  BY <1>1 DEF R
<1> QED BY <1>2, <1>10, <1>13, <1>15, <1>16, <1>17, <1>18 DEF Realised, FullyMatch

(* An update that ends without an error has made the cluster what was      *)
(* written, whatever failed in updates before (hosts.go:66-69, 100-192), if*)
(* the configurations are alike in what the update mask leaves out.        *)
THEOREM SuccessIsReal ==
  ASSUME MaskCovers
  PROVE  Spec => SuccessRealises
<1>1. Init => TuneKept
  BY TuneInit
<1>2. HousedInv /\ HousedInv' /\ TuneKept /\ [Next]_vars => TuneKept'
  BY TuneStep
<1>3. HousedInv /\ TuneKept /\ [Next]_vars => [ReadBack => Realised']_vars
  BY ReadBackRealises
<1> QED BY <1>1, <1>2, <1>3, HousedInvariant, PTL DEF Spec, SuccessRealises

-----------------------------------------------------------------------------
(* No subnet of such a plan is null.                                       *)
LEMMA SubnetsKnown ==
  ASSUME HousedInv, pc = "apply", NamedAlike, NEW l \in DOMAIN plan
  PROVE  /\ plan[l].subnet # Null
         /\ l \in DOMAIN config /\ (SubnetComputed \/ config[l].subnet # Unknown)
<1>1. plan = PlanOf(config, tf)
  BY DEF HousedInv, Orderly
<1>2. l \in DOMAIN config
  BY <1>1, PlanFields
<1>3. /\ config \in Configs[service] /\ service \in DOMAIN Configs
      /\ config[l].subnet \in Subnet \union {Unknown}
  BY <1>2, HousedTypes
<1>4. SubnetComputed \/ config[l].subnet # Unknown
  BY <1>2, <1>3 DEF NamedAlike, SubnetComputed
<1>5. config[l].subnet # Null
  BY <1>3, ClusterHostsAssumption
<1> QED BY <1>1, <1>2, <1>4, <1>5, PlanFields

(* What the plan says of the labels without an fqdn is what is written of  *)
(* them, for the state has no host for them.                               *)
LEMMA UnnamedAlike ==
  ASSUME HousedInv, pc = "apply", NamedAlike, NEW l \in Unnamed(plan), NEW k \in Unnamed(plan)
  PROVE  /\ plan[l].subnet = Unknown <=> plan[k].subnet = Unknown
         /\ plan[l].shard = Unknown <=> plan[k].shard = Unknown
<1>1. plan = PlanOf(config, tf) /\ \A x \in DOMAIN tf : tf[x].fqdn \in Fqdn
  BY DEF HousedInv, Orderly
<1>2. DOMAIN plan = DOMAIN config
  BY <1>1, PlanFields
<1>3. ASSUME NEW x \in Unnamed(plan)
      PROVE  /\ x \in DOMAIN config /\ plan[x].subnet = config[x].subnet
             /\ plan[x].shard = config[x].shard
  <2>1. x \in DOMAIN config /\ plan[x].fqdn \notin Fqdn
    BY <1>2 DEF Unnamed
  <2>2. x \notin DOMAIN tf
    <3>1. x \in DOMAIN tf => tf[x].fqdn # Null
      BY <1>1, ClusterHostsAssumption
    <3>2. x \in DOMAIN tf => plan[x].fqdn = tf[x].fqdn
      BY <1>1, <2>1, <3>1, PlanFields
    <3> QED BY <1>1, <2>1, <3>2
  <2>3. SubnetComputed \/ config[x].subnet # Unknown
    BY <1>2, <2>1, SubnetsKnown
  <2> QED BY <1>1, <2>1, <2>2, <2>3, PlanFields
<1>4. config \in Configs[service] /\ service \in DOMAIN Configs
  BY HousedTypes
<1>5. \A x, y \in DOMAIN config :
         /\ config[x].subnet = Unknown <=> config[y].subnet = Unknown
         /\ config[x].shard = Unknown <=> config[y].shard = Unknown
  BY <1>4, Zenon DEF NamedAlike
<1> QED BY <1>3, <1>5

(* Hosts that look alike are all found: were a label left over, then each  *)
(* host that it could have is matched to another label, which could live in*)
(* any of those hosts too, and there is one host more than such labels.    *)
LEMMA NoLabelLeftOver ==
  ASSUME HousedInv, TuneKept, NamedAlike, pc = "apply", work = NoWork,
         NEW m \in ReadMatchings(plan)
  PROVE  Complete(plan, m)
<1>1. PICK home \in Bijection(DOMAIN plan, DOMAIN api) :
         /\ \A l \in DOMAIN plan : FullyMatch(plan[l], api[home[l]])
         /\ \A l \in Unnamed(plan) : home[l] \in Untaken(plan)
  BY FinishedLodging, SubnetsKnown
<1>2. /\ home \in [DOMAIN plan -> DOMAIN api]
      /\ \A l, k \in DOMAIN plan : home[l] = home[k] => l = k
  BY <1>1 DEF Bijection, Injection, IsInjective
<1> DEFINE U == Unnamed(plan)
           V == Untaken(plan)
           Pairs == {x \in U \X V : FullyMatch(plan[x[1]], api[x[2]])}
<1>3. m \in MaximalMatchings(U, V, Pairs)
  BY Zenon DEF ReadMatchings
<1>4. /\ DOMAIN m \subseteq U
      /\ \A k \in DOMAIN m : <<k, m[k]>> \in Pairs
      /\ \A s \in U \ DOMAIN m, f \in V \ Range(m) : <<s, f>> \notin Pairs
  <2> HIDE DEF U, V, Pairs
  <2> QED BY <1>3 DEF MaximalMatchings, PartialFunctions
<1>5. U \subseteq DOMAIN plan
  BY DEF Unnamed
<1>6. SUFFICES ASSUME NEW s \in U \ DOMAIN m PROVE FALSE
  BY <1>4 DEF Complete
<1> DEFINE C == {l \in U : FullyMatch(plan[s], api[home[l]])}
<1>7. s \in C
  BY <1>1, <1>5
<1>8. ASSUME NEW l \in C PROVE \E k \in DOMAIN m : m[k] = home[l]
  <2>1. home[l] \in V /\ <<s, home[l]>> \in Pairs
    BY <1>1
  <2>2. home[l] \in Range(m)
    BY <1>4, <2>1
  <2> QED BY <2>2 DEF Range
<1>9. ASSUME NEW l \in C, NEW k \in DOMAIN m, m[k] = home[l] PROVE k \in C
  <2>1. k \in U /\ FullyMatch(plan[k], api[home[l]])
    BY <1>4, <1>9
  <2>2. FullyMatch(plan[s], api[home[l]]) /\ FullyMatch(plan[k], api[home[k]])
    BY <1>1, <1>5, <2>1
  <2>3. /\ plan[s].subnet = Unknown <=> plan[k].subnet = Unknown
        /\ plan[s].shard = Unknown <=> plan[k].shard = Unknown
    BY <2>1, UnnamedAlike
  <2>4. FullyMatch(plan[s], api[home[k]])
    <3> HIDE DEF U, V, Pairs, C
    <3> QED BY <2>1, <2>2, <2>3 DEF FullyMatch
  <2> QED BY <2>1, <2>4
<1> HIDE DEF C
<1>10. PICK q : q = [l \in C |-> CHOOSE k \in DOMAIN m : m[k] = home[l]]
  OBVIOUS
<1>11. \A l \in C : q[l] \in DOMAIN m /\ m[q[l]] = home[l] /\ q[l] \in C
  <2> SUFFICES ASSUME NEW l \in C PROVE q[l] \in DOMAIN m /\ m[q[l]] = home[l]
    BY <1>9
  <2> HIDE DEF Pairs, U, V
  <2> QED BY <1>8, <1>10
<1>12. C \subseteq DOMAIN plan
  BY <1>5 DEF C
<1>13. q \in Injection(C, C)
  <2>1. q \in [C -> C]
    BY <1>10, <1>11
  <2>2. \A l, k \in C : q[l] = q[k] => l = k
    BY <1>2, <1>11, <1>12
  <2> QED BY <2>1, <2>2 DEF Injection, IsInjective
<1>14. IsFiniteSet(C)
  <2>1. IsFiniteSet(DOMAIN api)
    BY HousedTypes, FS_Subset DEF ApiOK
  <2>2. home \in Injection(DOMAIN plan, DOMAIN api)
    BY <1>1 DEF Bijection
  <2>3. IsFiniteSet(DOMAIN plan)
    BY <2>1, <2>2, FS_Injection
  <2> QED BY <1>12, <2>3, FS_Subset
<1>15. q \in Surjection(C, C)
  BY <1>13, <1>14, FS_Injection
<1>16. PICK l \in C : q[l] = s
  BY <1>7, <1>15 DEF Surjection
<1> QED BY <1>11, <1>16

(* ReadHosts finds a host for every label after a successful change        *)
(* (hosts.go:521-527), however it pairs hosts that look alike, if          *)
(* configurations are alike in what the update mask leaves out, and name   *)
(* the subnet of each host (or of none, where subnet_id is computed) and   *)
(* the shard of each or of none.                                           *)
THEOREM ReadBackIsComplete ==
  ASSUME MaskCovers, NamedAlike
  PROVE  Spec => []ReadBackFindsAll
<1>1. Init => TuneKept
  BY TuneInit
<1>2. HousedInv /\ HousedInv' /\ TuneKept /\ [Next]_vars => TuneKept'
  BY TuneStep
<1>3. HousedInv /\ TuneKept => ReadBackFindsAll
  BY NoLabelLeftOver DEF ReadBackFindsAll
<1> QED BY <1>1, <1>2, <1>3, HousedInvariant, PTL DEF Spec
=============================================================================
