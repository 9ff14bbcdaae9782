---------------------------- MODULE MCClusterHosts ----------------------------
(* Instances of ClusterHosts: labels a, b, c; subnets sn1, sn2; shards s1, *)
(* s2; which of them a configuration may use is a set of configurations.   *)
EXTENDS ClusterHosts, TLC

CONSTANTS a, b, c, sn1, sn2, s1, s2, lo, hi,
    f1, f2, f3, f4, f5

Written(labels, subnets, shards, pubs, tunes) ==
    LET wish == [subnet : subnets, shard : shards, pub : pubs, tune : tunes]
    IN  UNION {[D -> wish] : D \in (SUBSET labels) \ {{}}}

(* Redis: hosts in named shards or in the one there is, or with changeable *)
(* attributes, or one that may leave the subnet to the API.  MySQL: the    *)
(* attribute that its mask covers, and one label without a subnet, which   *)
(* gets a new host in every apply.                                         *)
MCSafetyConfigs ==
    [redis |->
        Written({a, b}, {sn1}, {s1, s2, Unknown}, {FALSE}, {lo})
        \union Written({a, b}, {sn1}, {s1}, {FALSE}, {lo, hi})
        \union Written({b, c}, {sn1, Unknown}, {s1}, {FALSE}, {lo}),
     mysql |->
        Written({a, b}, {sn1}, {s1}, BOOLEAN, {lo})
        \union {w \in Written({b, c}, {sn1, Unknown}, {s1}, {FALSE}, {lo}) :
                   c \in DOMAIN w => w[c].subnet # Unknown}]

(* Each label always has the same shard: what a label cannot change never  *)
(* has to.                                                                 *)
MCLiveConfigs ==
    [redis |->
        {w \in Written({a, b, c}, {sn1}, {s1, s2}, BOOLEAN, {lo}) :
            /\ Cardinality(DOMAIN w) <= 2
            /\ \A l \in DOMAIN w : w[l].shard = (IF l = a THEN s1 ELSE s2)
            /\ c \in DOMAIN w => ~w[c].pub},
     mysql |-> Written({a, b}, {sn1}, {s1}, BOOLEAN, {lo})]

(* An attribute that the mask leaves out.                                  *)
MCTuneConfigs == [postgresql |-> Written({a, b}, {sn1}, {s1}, BOOLEAN, {lo, hi})]

(* Subnets named or left to the API, at most two hosts.                    *)
MCPlaceConfigs ==
    [redis |->
        {w \in Written({a, b, c}, {sn1, sn2, Unknown}, {s1}, {FALSE}, {lo}) :
            Cardinality(DOMAIN w) <= 2}]

(* What the theorems ask of configurations, and which of these have it.    *)
ASSUME ConfigsCovered ==
    /\ Configs = MCSafetyConfigs => MaskCovers
    /\ Configs = MCLiveConfigs => MaskCovers /\ NamedAlike
    /\ Configs = MCTuneConfigs => ~MaskCovers /\ NamedAlike
    /\ Configs = MCPlaceConfigs => MaskCovers /\ ~NamedAlike

FqdnSymmetry == Permutations(Fqdn)
=============================================================================
