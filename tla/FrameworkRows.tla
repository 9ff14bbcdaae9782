---------------------------- MODULE FrameworkRows ----------------------------
(*****************************************************************************)
(* Resources of the plugin framework. Create saves the state at its end,     *)
(* so that an object whose creation is reported failed is lost; a failed     *)
(* Update leaves the prior state                                             *)
(*****************************************************************************)
EXTENDS ResourceRow

MdbMongodbDatabaseArguments == Arguments({"cluster_id", "name"}, {})
MdbMongodbDatabaseCreate == Creates("saved", <<All(MdbMongodbDatabaseArguments)>>)
MdbMongodbDatabaseRead == Reads(All(MdbMongodbDatabaseArguments))
MdbMongodbDatabaseDelete == Exacting
MdbMongodbDatabase ==
    Resource(MdbMongodbDatabaseArguments, MdbMongodbDatabaseCreate, MdbMongodbDatabaseRead,
             NoUpdate, MdbMongodbDatabaseDelete)

MdbMongodbUserArguments == Arguments({"cluster_id", "name"}, {"password", "permission"})
MdbMongodbUserCreate == Creates("saved", <<All(MdbMongodbUserArguments)>>)
MdbMongodbUserRead == Reads(All(MdbMongodbUserArguments) \ {"password"})
MdbMongodbUserUpdate == Prior(<<Patch(MdbMongodbUserArguments.inPlace)>>)
MdbMongodbUserDelete == Exacting
MdbMongodbUser ==
    Resource(MdbMongodbUserArguments, MdbMongodbUserCreate, MdbMongodbUserRead,
             MdbMongodbUserUpdate, MdbMongodbUserDelete)

MdbClickhouseDatabaseArguments == Arguments({"cluster_id", "name"}, {})
MdbClickhouseDatabaseCreate == Creates("saved", <<All(MdbClickhouseDatabaseArguments)>>)
MdbClickhouseDatabaseRead == Reads(All(MdbClickhouseDatabaseArguments))
MdbClickhouseDatabaseDelete == Exacting
MdbClickhouseDatabase ==
    Resource(MdbClickhouseDatabaseArguments, MdbClickhouseDatabaseCreate,
             MdbClickhouseDatabaseRead, NoUpdate, MdbClickhouseDatabaseDelete)

(* An Update that finds no path to send returns the prior state, which     *)
(* Terraform takes for an error. The errors of the refresh at the end of   *)
(* Create are dropped.                                                     *)
MdbClickhouseUserArguments ==
    Arguments(
        {"cluster_id", "name"},
        {"password", "generate_password", "permission", "quota", "settings"})
MdbClickhouseUserCreate == Creates("saved", <<All(MdbClickhouseUserArguments)>>)
MdbClickhouseUserRead ==
    Reads(All(MdbClickhouseUserArguments) \ {"password", "generate_password"})
MdbClickhouseUserUpdate ==
    Strict(Prior(<<Patch(MdbClickhouseUserArguments.inPlace \ {"generate_password"})>>))
MdbClickhouseUserDelete == Exacting
MdbClickhouseUser ==
    Resource(MdbClickhouseUserArguments, MdbClickhouseUserCreate, MdbClickhouseUserRead,
             MdbClickhouseUserUpdate, MdbClickhouseUserDelete)

AirflowClusterArguments ==
    Arguments(
        {"folder_id", "subnet_ids", "admin_password"},
        {"name", "description", "labels", "deletion_protection", "service_account_id",
         "airflow_version", "python_version", "pip_packages", "deb_packages",
         "security_group_ids", "code_sync", "logging", "lockbox_secrets_backend",
         "airflow_config", "webserver", "scheduler", "worker", "triggerer",
         "maintenance_window"})
AirflowClusterCreate == Creates("saved", <<All(AirflowClusterArguments)>>)
AirflowClusterRead == Reads(All(AirflowClusterArguments) \ {"admin_password"})
AirflowClusterUpdate == Prior(<<Patch(AirflowClusterArguments.inPlace)>>)
AirflowClusterDelete == Exacting
AirflowCluster ==
    Resource(AirflowClusterArguments, AirflowClusterCreate, AirflowClusterRead,
             AirflowClusterUpdate, AirflowClusterDelete)

(* Update is not implemented: it logs an error and returns the prior       *)
(* state.                                                                  *)
SparkClusterArguments ==
    Arguments(
        {"folder_id"},
        {"name", "config", "deletion_protection", "description", "labels", "logging",
         "maintenance_window", "network", "service_account_id"})
SparkClusterCreate == Creates("saved", <<All(SparkClusterArguments)>>)
SparkClusterRead == Reads(All(SparkClusterArguments))
SparkClusterUpdate == Strict(Refusing(SparkClusterArguments.inPlace, Prior(<< >>)))
SparkClusterDelete == Exacting
SparkCluster ==
    Resource(SparkClusterArguments, SparkClusterCreate, SparkClusterRead,
             SparkClusterUpdate, SparkClusterDelete)

DatasphereCommunityArguments ==
    Arguments(
        {},
        {"name", "description", "labels", "organization_id", "billing_account_id"})
DatasphereCommunityCreate == Creates("saved", <<All(DatasphereCommunityArguments)>>)
DatasphereCommunityRead ==
    ReadsExisting(All(DatasphereCommunityArguments) \ {"billing_account_id"})
DatasphereCommunityUpdate == Strict(Prior(<<Patch({"name", "description", "labels"})>>))
DatasphereCommunityDelete == Exacting
DatasphereCommunity ==
    Resource(DatasphereCommunityArguments, DatasphereCommunityCreate,
             DatasphereCommunityRead, DatasphereCommunityUpdate, DatasphereCommunityDelete)

(* A limit that changes alone is sent in the place of the other, and the   *)
(* balance only if something else has changed too. A delete whose          *)
(* operation fails is taken for done.                                      *)
DatasphereProjectArguments ==
    Arguments(
        {"community_id"},
        {"name", "description", "labels", "settings", "max_units_per_hour",
         "max_units_per_execution", "balance"})
DatasphereProjectCreate ==
    Creates("saved", <<All(DatasphereProjectArguments) \ {"balance"}, {"balance"}>>)
DatasphereProjectRead == ReadsExisting(All(DatasphereProjectArguments))
DatasphereProjectUpdate ==
    Strict(
        Prior(
            <<PatchOn(
                  {"name", "description", "labels", "settings", "max_units_per_hour",
                   "max_units_per_execution"},
                  {"name", "description", "labels", "settings"}),
              PatchOn(
                  {"name", "description", "labels", "settings", "max_units_per_hour",
                   "max_units_per_execution"},
                  {"balance"})>>))
DatasphereProjectDelete == Careless
DatasphereProject ==
    Resource(DatasphereProjectArguments, DatasphereProjectCreate, DatasphereProjectRead,
             DatasphereProjectUpdate, DatasphereProjectDelete)

BillingCloudBindingArguments == Arguments({}, {"billing_account_id"})
BillingCloudBindingCreate == Adopted(All(BillingCloudBindingArguments))
BillingCloudBindingRead == Reads({})
BillingCloudBindingUpdate == Prior(<<Put(BillingCloudBindingArguments.inPlace)>>)
BillingCloudBindingDelete == Forgetful
BillingCloudBinding ==
    Resource(BillingCloudBindingArguments, BillingCloudBindingCreate,
             BillingCloudBindingRead, BillingCloudBindingUpdate, BillingCloudBindingDelete)

KubernetesMarketplaceHelmReleaseArguments ==
    Arguments({"cluster_id", "name", "namespace"}, {"product_version", "user_values"})
KubernetesMarketplaceHelmReleaseCreate ==
    Accepted(All(KubernetesMarketplaceHelmReleaseArguments))
KubernetesMarketplaceHelmReleaseRead ==
    Reads(All(KubernetesMarketplaceHelmReleaseArguments) \ {"user_values"})
KubernetesMarketplaceHelmReleaseUpdate ==
    Prior(<<Put(KubernetesMarketplaceHelmReleaseArguments.inPlace)>>)
KubernetesMarketplaceHelmReleaseDelete == Exacting
KubernetesMarketplaceHelmRelease ==
    Resource(KubernetesMarketplaceHelmReleaseArguments,
             KubernetesMarketplaceHelmReleaseCreate, KubernetesMarketplaceHelmReleaseRead,
             KubernetesMarketplaceHelmReleaseUpdate, KubernetesMarketplaceHelmReleaseDelete)

(* A cluster that is gone leaves an unknown id in the state that Read      *)
(* returns, an error.                                                      *)
MdbOpensearchClusterArguments ==
    Arguments(
        {"folder_id", "environment", "network_id"},
        {"name", "description", "labels", "version", "admin_password", "plugins",
         "access", "opensearch", "dashboards", "security_group_ids", "service_account_id",
         "deletion_protection", "maintenance_window", "auth_settings"})
MdbOpensearchClusterCreate ==
    Creates(
        "saved",
        <<All(MdbOpensearchClusterArguments) \ {"auth_settings"}, {"auth_settings"}>>)
MdbOpensearchClusterRead ==
    ReadsExisting(All(MdbOpensearchClusterArguments) \ {"admin_password"})
MdbOpensearchClusterUpdate ==
    Prior(
        <<Patch(
              MdbOpensearchClusterArguments.inPlace
                  \ {"auth_settings", "opensearch", "dashboards"}),
          Patch({"auth_settings"}),
          Patch({"opensearch"}),
          Patch({"dashboards"})>>)
MdbOpensearchClusterDelete == Exacting
MdbOpensearchCluster ==
    Resource(MdbOpensearchClusterArguments, MdbOpensearchClusterCreate,
             MdbOpensearchClusterRead, MdbOpensearchClusterUpdate,
             MdbOpensearchClusterDelete)

MdbRedisClusterV2Arguments ==
    Arguments(
        {"network_id", "environment", "tls_enabled"},
        {"name", "description", "labels", "sharded", "persistence_mode",
         "announce_hostnames", "auth_sentinel", "folder_id", "resources", "config",
         "password", "access", "disk_size_autoscaling", "maintenance_window",
         "security_group_ids", "deletion_protection", "hosts"})
MdbRedisClusterV2Create == Creates("saved", <<All(MdbRedisClusterV2Arguments)>>)
MdbRedisClusterV2Read == ReadsExisting(All(MdbRedisClusterV2Arguments) \ {"password"})
MdbRedisClusterV2Update ==
    Prior(
        <<Patch({"folder_id"}),
          Patch({"sharded"}),
          Patch(
              MdbRedisClusterV2Arguments.inPlace
                  \ {"folder_id", "sharded", "password", "hosts"}),
          Put({"password"}),
          Patch({"hosts"})>>)
MdbRedisClusterV2Delete == Exacting
MdbRedisClusterV2 ==
    Resource(MdbRedisClusterV2Arguments, MdbRedisClusterV2Create, MdbRedisClusterV2Read,
             MdbRedisClusterV2Update, MdbRedisClusterV2Delete)

(* The network and the folder are in no call and do not replace the        *)
(* cluster.                                                                *)
MdbPostgresqlClusterV2Arguments ==
    Arguments(
        {"environment"},
        {"name", "description", "labels", "network_id", "folder_id", "hosts",
         "deletion_protection", "security_group_ids", "maintenance_window", "version",
         "config"})
MdbPostgresqlClusterV2Create == Creates("saved", <<All(MdbPostgresqlClusterV2Arguments)>>)
MdbPostgresqlClusterV2Read == ReadsExisting(All(MdbPostgresqlClusterV2Arguments))
MdbPostgresqlClusterV2Update ==
    Prior(
        <<Patch({"version"}),
          Patch(
              MdbPostgresqlClusterV2Arguments.inPlace
                  \ {"version", "hosts", "network_id", "folder_id"}),
          Patch({"hosts"})>>)
MdbPostgresqlClusterV2Delete == Exacting
MdbPostgresqlClusterV2 ==
    Resource(MdbPostgresqlClusterV2Arguments, MdbPostgresqlClusterV2Create,
             MdbPostgresqlClusterV2Read, MdbPostgresqlClusterV2Update,
             MdbPostgresqlClusterV2Delete)

MdbMysqlClusterV2Arguments ==
    Arguments(
        {"environment"},
        {"name", "description", "labels", "network_id", "folder_id", "hosts",
         "deletion_protection", "security_group_ids", "maintenance_window", "version",
         "access", "performance_diagnostics", "backup_retain_period_days",
         "backup_window_start", "mysql_config", "resources"})
MdbMysqlClusterV2Create == Creates("saved", <<All(MdbMysqlClusterV2Arguments)>>)
MdbMysqlClusterV2Read == ReadsExisting(All(MdbMysqlClusterV2Arguments))
MdbMysqlClusterV2Update ==
    Prior(
        <<Patch({"version"}),
          Patch(
              MdbMysqlClusterV2Arguments.inPlace
                  \ {"version", "hosts", "network_id", "folder_id"}),
          Patch({"hosts"})>>)
MdbMysqlClusterV2Delete == Exacting
MdbMysqlClusterV2 ==
    Resource(MdbMysqlClusterV2Arguments, MdbMysqlClusterV2Create, MdbMysqlClusterV2Read,
             MdbMysqlClusterV2Update, MdbMysqlClusterV2Delete)

FrameworkRows ==
    [MdbMongodbDatabase |-> MdbMongodbDatabase, MdbMongodbUser |-> MdbMongodbUser,
     MdbClickhouseDatabase |-> MdbClickhouseDatabase, MdbClickhouseUser |-> MdbClickhouseUser,
     AirflowCluster |-> AirflowCluster, SparkCluster |-> SparkCluster,
     DatasphereCommunity |-> DatasphereCommunity, DatasphereProject |-> DatasphereProject,
     BillingCloudBinding |-> BillingCloudBinding,
     KubernetesMarketplaceHelmRelease |-> KubernetesMarketplaceHelmRelease,
     MdbOpensearchCluster |-> MdbOpensearchCluster, MdbRedisClusterV2 |-> MdbRedisClusterV2,
     MdbPostgresqlClusterV2 |-> MdbPostgresqlClusterV2,
     MdbMysqlClusterV2 |-> MdbMysqlClusterV2]
=============================================================================
