--------------------------- MODULE MCResourceApply ---------------------------
(***************************************************************************)
(* The handlers of all resources that have a row, each with a few of its   *)
(* arguments at a time.                                                    *)
(***************************************************************************)
EXTENDS ResourceApply, FiniteSets, TLC,
        NetworkRows, ComputeRows, FrameworkRows, IdentityRows,
        DatabaseRows, ServerlessRows

MCRows == 
    NetworkRows @@ ComputeRows @@ FrameworkRows @@ IdentityRows @@ DatabaseRows @@
    ServerlessRows
MCKind == DOMAIN MCRows

(* Arguments of one resource that Create, Read and Update treat alike are  *)
(* interchangeable: one of them stands for all.                            *)
Role(r, a) ==
    [new |-> a \in r.forceNew,
     created |-> {i \in DOMAIN r.create.calls : a \in r.create.calls[i]},
     read |-> a \in r.read.takes,
     on |-> {i \in DOMAIN r.update.calls : a \in r.update.calls[i].on},
     sent |-> {i \in DOMAIN r.update.calls : a \in r.update.calls[i].sends},
     refused |-> a \in r.update.refuses,
     gap |-> a \in r.gap]
Representatives(r) ==
    {CHOOSE a \in r.args : Role(r, a) = role : role \in {Role(r, a) : a \in r.args}}
(* A role that some call of Update is made for, if there is one: every     *)
(* other role is checked together with it.                                 *)
Lead(r) ==
    LET R == Representatives(r)
        updated == {a \in R : Role(r, a).on # {}}
    IN CHOOSE a \in R : updated = {} \/ a \in updated

(* What the code does not keep, per resource (see the README).             *)
MCGap == 
    [VpcDefaultSecurityGroup |-> {"folder_id"},
     LbTargetGroup |-> {"region_id"},
     LbNetworkLoadBalancer |-> {"region_id", "type"},
     AlbHttpRouter |-> {"route_options"},
     AlbVirtualHost |-> {"http_router_id", "name"},
     ComputeDiskPlacementGroup |-> {"zone"},
     ComputePlacementGroup |-> {"placement_strategy_spread",
         "placement_strategy_partitions"},
     MdbClickhouseUser |-> {"generate_password"},
     DatasphereCommunity |-> {"organization_id", "billing_account_id"},
     DatasphereProject |-> {"max_units_per_hour", "max_units_per_execution", "balance"},
     MdbPostgresqlClusterV2 |-> {"network_id", "folder_id"},
     MdbMysqlClusterV2 |-> {"network_id", "folder_id"},
     IamServiceAccountApiKey |-> {"scope"},
     KmsAsymmetricEncryptionKey |-> {"encryption_algorithm"},
     KmsAsymmetricSignatureKey |-> {"signature_algorithm"},
     CmCertificate |-> {"managed"},
     OrgGroupMapping |-> {"federation_id"},
     OrgOsLoginSettings |-> {"organization_id"},
     OrgSamlFederation |-> {"labels"},
     MdbKafkaUser |-> {"password"},
     MdbMysqlUser |-> {"name", "password", "generate_password"},
     MdbPostgresqlDatabase |-> {"cluster_id", "name"},
     MdbPostgresqlUser |-> {"name", "password", "generate_password"},
     StorageBucket |-> {"acl"},
     DatatransferEndpoint |-> SecretSettings,
     MdbSqlserverCluster |-> {"user_password"},
     MdbGreenplumCluster |-> {"assign_public_ip", "version", "master_host_count",
         "user_name", "master_host_group_ids", "segment_host_group_ids"},
     YdbDatabaseServerless |-> {"sleep_after"},
     AuditTrailsTrail |-> {"filter"},
     IotCoreRegistry |-> {"passwords"},
     EventrouterBus |-> {"deletion_protection"},
     EventrouterConnector |-> {"bus_id"},
     EventrouterRule |-> {"bus_id", "jq_filter", "targets"}]
    @@ [k \in MCKind |-> {}]
MCOrphans == 
    {"DnsRecordSet", "ComputeInstanceGroup", "MdbMongodbDatabase",
     "MdbMongodbUser", "MdbClickhouseDatabase", "MdbClickhouseUser",
     "AirflowCluster", "SparkCluster", "DatasphereCommunity",
     "DatasphereProject", "MdbOpensearchCluster", "MdbRedisClusterV2",
     "MdbPostgresqlClusterV2", "MdbMysqlClusterV2", "OrgGroupMappingItem",
     "OrgSamlFederationUserAccount", "OrgUserSshKey", "MonitoringDashboard"}
MCStuck == 
    {"ComputeSnapshotSchedule", "DatasphereCommunity", "DatasphereProject",
     "MdbOpensearchCluster", "MdbRedisClusterV2", "MdbPostgresqlClusterV2",
     "MdbMysqlClusterV2", "IamFederatedCredential", "IamOidcFederation",
     "CmCertificate", "OrgSamlFederationUserAccount", "MdbKafkaUser",
     "ContainerRepositoryLifecyclePolicy", "FunctionScalingPolicy"}

MCFocus ==
    [k \in MCKind |->
        LET r == [gap |-> MCGap[k]] @@ MCRows[k]
            R == Representatives(r)
        IN IF Cardinality(R) = 1 THEN {R} ELSE {{Lead(r), a} : a \in R \ {Lead(r)}}]

(* The rows meet what the theorems of ResourceApply_proof ask of them, so  *)
(* that these hold for all arguments of a resource at once.                *)
ASSUME RowsFaithful == \A k \in MCKind : Faithful(k)
ASSUME RowsCareful == \A k \in MCKind \ MCOrphans : Careful(k)
=============================================================================
