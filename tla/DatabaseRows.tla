---------------------------- MODULE DatabaseRows ----------------------------
(*****************************************************************************)
(* Managed databases of the SDK provider, with their users and databases;    *)
(* data processing and transfer; message queues and buckets                  *)
(*****************************************************************************)
EXTENDS EndpointSettings

MdbKafkaConnectorArguments ==
    Arguments(
        {"cluster_id", "name"},
        {"tasks_max", "properties", "connector_config_mirrormaker",
         "connector_config_s3_sink"})
MdbKafkaConnectorCreate == Accepted(All(MdbKafkaConnectorArguments))
MdbKafkaConnectorRead == Reads(All(MdbKafkaConnectorArguments))
MdbKafkaConnectorUpdate == Planned(<<Patch(MdbKafkaConnectorArguments.inPlace)>>)
MdbKafkaConnectorDelete == Tolerant
MdbKafkaConnector ==
    Resource(MdbKafkaConnectorArguments, MdbKafkaConnectorCreate, MdbKafkaConnectorRead,
             MdbKafkaConnectorUpdate, MdbKafkaConnectorDelete)

MdbKafkaTopicArguments ==
    Arguments({"cluster_id", "name"}, {"partitions", "replication_factor", "topic_config"})
MdbKafkaTopicCreate == Accepted(All(MdbKafkaTopicArguments))
MdbKafkaTopicRead == Reads(All(MdbKafkaTopicArguments))
MdbKafkaTopicUpdate == Planned(<<Patch(MdbKafkaTopicArguments.inPlace)>>)
MdbKafkaTopicDelete == Tolerant
MdbKafkaTopic ==
    Resource(MdbKafkaTopicArguments, MdbKafkaTopicCreate, MdbKafkaTopicRead,
             MdbKafkaTopicUpdate, MdbKafkaTopicDelete)

(* Create sets the id to that of the cluster before its call; when the     *)
(* call fails, Read cannot take that id apart, whether the user is there   *)
(* or not, nor after a Delete that fails.                                  *)
MdbKafkaUserArguments == Arguments({"cluster_id", "name"}, {"password", "permission"})
MdbKafkaUserCreate == Accepted(All(MdbKafkaUserArguments))
MdbKafkaUserRead == ReadsExisting(All(MdbKafkaUserArguments) \ {"password"})
MdbKafkaUserUpdate == Planned(<<Patch(MdbKafkaUserArguments.inPlace)>>)
MdbKafkaUserDelete == Exacting
MdbKafkaUser ==
    Resource(MdbKafkaUserArguments, MdbKafkaUserCreate, MdbKafkaUserRead,
             MdbKafkaUserUpdate, MdbKafkaUserDelete)

MdbMysqlDatabaseArguments == Arguments({}, {"cluster_id", "name"})
MdbMysqlDatabaseCreate == Accepted(All(MdbMysqlDatabaseArguments))
MdbMysqlDatabaseRead == Reads(All(MdbMysqlDatabaseArguments))
MdbMysqlDatabaseUpdate == Strict(Refusing({"cluster_id", "name"}, Planned(<< >>)))
MdbMysqlDatabaseDelete == Exacting
MdbMysqlDatabase ==
    Resource(MdbMysqlDatabaseArguments, MdbMysqlDatabaseCreate, MdbMysqlDatabaseRead,
             MdbMysqlDatabaseUpdate, MdbMysqlDatabaseDelete)

(* A new name is the name of the user to update, one that does not exist.  *)
MdbMysqlUserArguments ==
    Arguments(
        {"cluster_id"},
        {"name", "password", "permission", "global_permissions", "connection_limits",
         "authentication_plugin", "generate_password"})
MdbMysqlUserCreate == Accepted(All(MdbMysqlUserArguments))
MdbMysqlUserRead == Reads(All(MdbMysqlUserArguments) \ {"password", "generate_password"})
MdbMysqlUserUpdate ==
    Planned(
        <<Put(
              {"password", "permission", "global_permissions", "connection_limits",
               "authentication_plugin"})>>)
MdbMysqlUserDelete == Exacting
MdbMysqlUser ==
    Resource(MdbMysqlUserArguments, MdbMysqlUserCreate, MdbMysqlUserRead,
             MdbMysqlUserUpdate, MdbMysqlUserDelete)

(* The id holds the name, and only a successful Update changes it; another *)
(* cluster neither replaces the database nor moves it.                     *)
MdbPostgresqlDatabaseArguments ==
    Arguments(
        {"owner", "lc_collate", "lc_type", "template_db"},
        {"cluster_id", "name", "extension", "deletion_protection"})
MdbPostgresqlDatabaseCreate == Accepted(All(MdbPostgresqlDatabaseArguments))
MdbPostgresqlDatabaseRead == Reads(All(MdbPostgresqlDatabaseArguments))
MdbPostgresqlDatabaseUpdate ==
    Planned(<<Put({"name", "extension", "deletion_protection"})>>)
MdbPostgresqlDatabaseDelete == Exacting
MdbPostgresqlDatabase ==
    Resource(MdbPostgresqlDatabaseArguments, MdbPostgresqlDatabaseCreate,
             MdbPostgresqlDatabaseRead, MdbPostgresqlDatabaseUpdate,
             MdbPostgresqlDatabaseDelete)

MdbPostgresqlUserArguments ==
    Arguments(
        {"cluster_id"},
        {"name", "password", "login", "grants", "permission", "conn_limit", "settings",
         "deletion_protection", "generate_password"})
MdbPostgresqlUserCreate == Accepted(All(MdbPostgresqlUserArguments))
MdbPostgresqlUserRead ==
    Reads(All(MdbPostgresqlUserArguments) \ {"password", "generate_password"})
MdbPostgresqlUserUpdate ==
    Planned(<<Patch(MdbPostgresqlUserArguments.inPlace \ {"name", "generate_password"})>>)
MdbPostgresqlUserDelete == Exacting
MdbPostgresqlUser ==
    Resource(MdbPostgresqlUserArguments, MdbPostgresqlUserCreate, MdbPostgresqlUserRead,
             MdbPostgresqlUserUpdate, MdbPostgresqlUserDelete)

MessageQueueArguments ==
    Arguments(
        {"name", "name_prefix", "fifo_queue"},
        {"delay_seconds", "max_message_size", "message_retention_seconds",
         "receive_wait_time_seconds", "visibility_timeout_seconds", "redrive_policy",
         "content_based_deduplication", "tags"})
MessageQueueCreate == Accepted(All(MessageQueueArguments))
MessageQueueRead == Reads(All(MessageQueueArguments) \ {"name_prefix"})
MessageQueueUpdate ==
    Planned(<<Patch({"tags"}), Patch(MessageQueueArguments.inPlace \ {"tags"})>>)
MessageQueueDelete == Exacting
MessageQueue ==
    Resource(MessageQueueArguments, MessageQueueCreate, MessageQueueRead,
             MessageQueueUpdate, MessageQueueDelete)

(* One S3 call per property, then one of the cloud API and one for HTTPS.  *)
(* The ACL is not read back.                                               *)
StorageBucketArguments ==
    Arguments(
        {"bucket", "bucket_prefix", "folder_id"},
        {"acl", "grant", "policy", "cors_rule", "website", "versioning",
         "object_lock_configuration", "logging", "lifecycle_rule",
         "server_side_encryption_configuration", "default_storage_class", "max_size",
         "anonymous_access_flags", "https", "tags"})
StorageBucketCreate ==
    Creates(
        "accepted",
        <<{"bucket", "bucket_prefix", "folder_id", "acl", "max_size",
           "default_storage_class", "anonymous_access_flags"},
          {"policy"},
          {"cors_rule"},
          {"website"},
          {"versioning"},
          {"grant"},
          {"logging"},
          {"lifecycle_rule"},
          {"server_side_encryption_configuration"},
          {"object_lock_configuration"},
          {"tags"},
          {"https"}>>)
StorageBucketRead == Reads(All(StorageBucketArguments) \ {"acl", "bucket_prefix"})
StorageBucketUpdate ==
    Planned(
        <<Patch({"policy"}),
          Patch({"cors_rule"}),
          Patch({"website"}),
          Patch({"versioning"}),
          Patch({"acl"}),
          Patch({"grant"}),
          Patch({"logging"}),
          Patch({"lifecycle_rule"}),
          Patch({"server_side_encryption_configuration"}),
          Patch({"object_lock_configuration"}),
          Patch({"tags"}),
          Patch({"default_storage_class", "max_size", "anonymous_access_flags"}),
          Patch({"https"})>>)
StorageBucketDelete == Exacting
StorageBucket ==
    Resource(StorageBucketArguments, StorageBucketCreate, StorageBucketRead,
             StorageBucketUpdate, StorageBucketDelete)

DataprocClusterArguments ==
    Arguments(
        {"host_group_ids", "folder_id", "zone_id", "environment", "version_id",
         "services", "properties", "ssh_public_keys", "initialization_action", "oslogin"},
        {"name", "service_account_id", "description", "labels", "ui_proxy", "bucket",
         "security_group_ids", "deletion_protection", "log_group_id",
         "autoscaling_service_account_id", "subcluster_spec"})
DataprocClusterCreate == Accepted(All(DataprocClusterArguments))
DataprocClusterRead == Reads(All(DataprocClusterArguments))
DataprocClusterUpdate ==
    Partial(
        <<Patch(DataprocClusterArguments.inPlace \ {"subcluster_spec"}),
          Patch({"subcluster_spec"})>>)
DataprocClusterDelete == Tolerant
DataprocCluster ==
    Resource(DataprocClusterArguments, DataprocClusterCreate, DataprocClusterRead,
             DataprocClusterUpdate, DataprocClusterDelete)

(* The second call of Create activates the transfer.                       *)
DatatransferTransferArguments ==
    Arguments(
        {"folder_id", "source_id", "target_id", "type"},
        {"name", "description", "labels", "runtime", "transformation"})
DatatransferTransferCreate ==
    Creates("accepted", <<All(DatatransferTransferArguments), {}>>)
DatatransferTransferRead == Reads(All(DatatransferTransferArguments))
DatatransferTransferUpdate == Planned(<<Patch(DatatransferTransferArguments.inPlace)>>)
DatatransferTransferDelete == Tolerant
DatatransferTransfer ==
    Resource(DatatransferTransferArguments, DatatransferTransferCreate,
             DatatransferTransferRead, DatatransferTransferUpdate,
             DatatransferTransferDelete)

(* The passwords and tokens are not read back.                             *)
DatatransferEndpointArguments ==
    Arguments(
        {"folder_id"},
        {"name", "description", "labels"} \union Under("settings", SettingsArguments))
DatatransferEndpointCreate ==
    Accepted(
        {"folder_id", "name", "description", "labels"}
            \union Under("settings", expandSettings))
DatatransferEndpointRead ==
    Reads(
        {"folder_id", "name", "description", "labels"}
            \union Under("settings", flattenSettings))
DatatransferEndpointUpdate ==
    Planned(
        <<Patch(
              {"name", "description", "labels"} \union Under("settings", expandSettings))>>)
DatatransferEndpointDelete == Tolerant
DatatransferEndpoint ==
    Resource(DatatransferEndpointArguments, DatatransferEndpointCreate, DatatransferEndpointRead,
             DatatransferEndpointUpdate, DatatransferEndpointDelete)

(* admin_password is one of the arguments of config.                       *)
MdbElasticsearchClusterArguments ==
    Arguments(
        {"folder_id", "environment", "network_id", "disk_type_id"},
        {"name", "description", "labels", "service_account_id", "config",
         "admin_password", "security_group_ids", "host", "deletion_protection",
         "maintenance_window"})
MdbElasticsearchClusterCreate == Accepted(All(MdbElasticsearchClusterArguments))
MdbElasticsearchClusterRead ==
    Reads(All(MdbElasticsearchClusterArguments) \ {"admin_password"})
MdbElasticsearchClusterUpdate ==
    Partial(<<Patch(MdbElasticsearchClusterArguments.inPlace \ {"host"}), Patch({"host"})>>)
MdbElasticsearchClusterDelete == Tolerant
MdbElasticsearchCluster ==
    Resource(MdbElasticsearchClusterArguments, MdbElasticsearchClusterCreate,
             MdbElasticsearchClusterRead, MdbElasticsearchClusterUpdate,
             MdbElasticsearchClusterDelete)

MdbSqlserverClusterArguments ==
    Arguments(
        {"folder_id", "environment", "network_id", "host_group_ids"},
        {"name", "version", "resources", "database", "user", "user_password", "host",
         "description", "labels", "backup_window_start", "security_group_ids",
         "sqlserver_config", "deletion_protection", "sqlcollation", "disk_type_id"})
MdbSqlserverClusterCreate == Accepted(All(MdbSqlserverClusterArguments))
MdbSqlserverClusterRead == Reads(All(MdbSqlserverClusterArguments) \ {"user_password"})
MdbSqlserverClusterUpdate ==
    Refusing(
        {"version", "host", "disk_type_id", "sqlcollation"},
        Planned(
            <<Patch(
                  {"name", "resources", "description", "labels", "backup_window_start",
                   "security_group_ids", "sqlserver_config", "deletion_protection"}),
              Patch({"database"}),
              Patch({"user", "user_password"})>>))
MdbSqlserverClusterDelete == Tolerant
MdbSqlserverCluster ==
    Resource(MdbSqlserverClusterArguments, MdbSqlserverClusterCreate,
             MdbSqlserverClusterRead, MdbSqlserverClusterUpdate, MdbSqlserverClusterDelete)

(* Six arguments are in no call and do not replace the cluster.            *)
MdbGreenplumClusterArguments ==
    Arguments(
        {"folder_id", "environment", "network_id", "zone", "subnet_id"},
        {"name", "assign_public_ip", "version", "master_host_count", "segment_host_count",
         "segment_in_host", "description", "labels", "master_subcluster",
         "segment_subcluster", "user_name", "user_password", "security_group_ids",
         "maintenance_window", "deletion_protection", "service_account_id", "logging",
         "backup_window_start", "access", "pooler_config", "pxf_config",
         "greenplum_config", "cloud_storage", "master_host_group_ids",
         "segment_host_group_ids", "background_activities"})
MdbGreenplumClusterCreate == Accepted(All(MdbGreenplumClusterArguments))
MdbGreenplumClusterRead == Reads(All(MdbGreenplumClusterArguments) \ {"user_password"})
MdbGreenplumClusterUpdate ==
    Refusing(
        {"security_group_ids"},
        Partial(
            <<Patch(
                  MdbGreenplumClusterArguments.inPlace
                      \ {"assign_public_ip", "version", "master_host_count",
                         "segment_host_count", "segment_in_host", "user_name",
                         "security_group_ids", "master_host_group_ids",
                         "segment_host_group_ids"}),
              Patch({"segment_host_count", "segment_in_host"})>>))
MdbGreenplumClusterDelete == Tolerant
MdbGreenplumCluster ==
    Resource(MdbGreenplumClusterArguments, MdbGreenplumClusterCreate,
             MdbGreenplumClusterRead, MdbGreenplumClusterUpdate, MdbGreenplumClusterDelete)

MdbRedisClusterArguments ==
    Arguments(
        {"network_id", "environment", "tls_enabled"},
        {"name", "config", "password", "resources", "disk_type_id",
         "disk_size_autoscaling", "access", "host", "description", "labels", "sharded",
         "persistence_mode", "announce_hostnames", "auth_sentinel", "folder_id",
         "security_group_ids", "maintenance_window", "deletion_protection"})
MdbRedisClusterCreate == Accepted(All(MdbRedisClusterArguments))
MdbRedisClusterRead == Reads(All(MdbRedisClusterArguments) \ {"password"})
MdbRedisClusterUpdate ==
    Refusing(
        {"disk_type_id"},
        Partial(
            <<Patch({"folder_id"}),
              Patch({"sharded"}),
              Patch(
                  MdbRedisClusterArguments.inPlace
                      \ {"folder_id", "sharded", "password", "host", "disk_type_id"}),
              Patch({"password"}),
              Patch({"host"})>>))
MdbRedisClusterDelete == Tolerant
MdbRedisCluster ==
    Resource(MdbRedisClusterArguments, MdbRedisClusterCreate, MdbRedisClusterRead,
             MdbRedisClusterUpdate, MdbRedisClusterDelete)

MdbClickhouseClusterArguments ==
    Arguments(
        {"network_id", "environment", "sql_user_management", "sql_database_management",
         "embedded_keeper"},
        {"name", "clickhouse", "user", "shard", "database", "host", "shard_group",
         "format_schema", "ml_model", "description", "labels", "version",
         "backup_window_start", "access", "zookeeper", "folder_id", "security_group_ids",
         "admin_password", "service_account_id", "cloud_storage", "maintenance_window",
         "deletion_protection", "backup_retain_period_days"})
MdbClickhouseClusterCreate ==
    Creates(
        "accepted",
        <<All(MdbClickhouseClusterArguments)
              \ {"shard", "shard_group", "format_schema", "ml_model"},
          {"shard"},
          {"shard_group"},
          {"format_schema"},
          {"ml_model"}>>)
MdbClickhouseClusterRead == Reads(All(MdbClickhouseClusterArguments) \ {"admin_password"})
MdbClickhouseClusterUpdate ==
    Partial(
        <<Patch({"folder_id"}),
          Patch({"version"}),
          Patch(
              {"name", "clickhouse", "description", "labels", "backup_window_start",
               "access", "zookeeper", "security_group_ids", "admin_password",
               "service_account_id", "cloud_storage", "maintenance_window",
               "deletion_protection", "backup_retain_period_days"}),
          Patch({"database"}),
          Patch({"user"}),
          Patch({"host"}),
          Patch({"shard"}),
          Patch({"shard_group"}),
          Patch({"format_schema"}),
          Patch({"ml_model"})>>)
MdbClickhouseClusterDelete == Tolerant
MdbClickhouseCluster ==
    Resource(MdbClickhouseClusterArguments, MdbClickhouseClusterCreate,
             MdbClickhouseClusterRead, MdbClickhouseClusterUpdate,
             MdbClickhouseClusterDelete)

MdbKafkaClusterArguments ==
    Arguments(
        {"network_id", "environment", "host_group_ids"},
        {"name", "config", "description", "labels", "subnet_ids", "topic", "user",
         "folder_id", "security_group_ids", "deletion_protection", "maintenance_window"})
MdbKafkaClusterCreate == Accepted(All(MdbKafkaClusterArguments))
MdbKafkaClusterRead == Reads(All(MdbKafkaClusterArguments) \ {"subnet_ids"})
MdbKafkaClusterUpdate ==
    Partial(
        <<Patch({"folder_id"}),
          Patch(MdbKafkaClusterArguments.inPlace \ {"folder_id", "topic", "user"}),
          Patch({"topic"}),
          Patch({"user"})>>)
MdbKafkaClusterDelete == Tolerant
MdbKafkaCluster ==
    Resource(MdbKafkaClusterArguments, MdbKafkaClusterCreate, MdbKafkaClusterRead,
             MdbKafkaClusterUpdate, MdbKafkaClusterDelete)

(* resources and disk_size_autoscaling stand for one argument per type of  *)
(* host.                                                                   *)
MdbMongodbClusterArguments ==
    Arguments(
        {"network_id", "environment", "restore"},
        {"name", "user", "database", "host", "resources", "disk_size_autoscaling",
         "cluster_config", "description", "labels", "folder_id", "security_group_ids",
         "maintenance_window", "deletion_protection"})
MdbMongodbClusterCreate == Accepted(All(MdbMongodbClusterArguments))
MdbMongodbClusterRead == Reads(All(MdbMongodbClusterArguments) \ {"restore"})
MdbMongodbClusterUpdate ==
    Partial(
        <<Patch({"folder_id"}),
          Patch(
              MdbMongodbClusterArguments.inPlace
                  \ {"folder_id", "database", "user", "host"}),
          Patch({"database"}),
          Patch({"user"}),
          Patch({"host"})>>)
MdbMongodbClusterDelete == Tolerant
MdbMongodbCluster ==
    Resource(MdbMongodbClusterArguments, MdbMongodbClusterCreate, MdbMongodbClusterRead,
             MdbMongodbClusterUpdate, MdbMongodbClusterDelete)

(* The second call of Create sets the replication sources of the hosts.    *)
MdbMysqlClusterArguments ==
    Arguments(
        {"environment", "network_id", "restore"},
        {"name", "version", "resources", "database", "user", "host", "description",
         "labels", "backup_window_start", "backup_retain_period_days", "folder_id",
         "security_group_ids", "mysql_config", "access", "maintenance_window",
         "deletion_protection", "performance_diagnostics", "host_group_ids"})
MdbMysqlClusterCreate ==
    Creates(
        "accepted",
        <<All(MdbMysqlClusterArguments) \ {"maintenance_window"},
          {},
          {"maintenance_window"}>>)
MdbMysqlClusterRead == Reads(All(MdbMysqlClusterArguments) \ {"restore"})
MdbMysqlClusterUpdate ==
    Refusing(
        {"host_group_ids"},
        Partial(
            <<Patch({"folder_id"}),
              Patch(
                  MdbMysqlClusterArguments.inPlace
                      \ {"folder_id", "database", "user", "host", "host_group_ids"}),
              Patch({"database"}),
              Patch({"user"}),
              Patch({"host"})>>))
MdbMysqlClusterDelete == Tolerant
MdbMysqlCluster ==
    Resource(MdbMysqlClusterArguments, MdbMysqlClusterCreate, MdbMysqlClusterRead,
             MdbMysqlClusterUpdate, MdbMysqlClusterDelete)

(* Users are added before the databases, and changed and dropped after     *)
(* them.                                                                   *)
MdbPostgresqlClusterArguments ==
    Arguments(
        {"environment", "restore"},
        {"name", "network_id", "config", "database", "user", "host", "folder_id",
         "description", "labels", "security_group_ids", "host_master_name",
         "maintenance_window", "deletion_protection", "host_group_ids"})
MdbPostgresqlClusterCreate ==
    Creates(
        "accepted",
        <<All(MdbPostgresqlClusterArguments) \ {"host_master_name", "maintenance_window"},
          {},
          {"maintenance_window"},
          {"host_master_name"}>>)
MdbPostgresqlClusterRead == Reads(All(MdbPostgresqlClusterArguments) \ {"restore"})
MdbPostgresqlClusterUpdate ==
    Refusing(
        {"host_group_ids"},
        Partial(
            <<Patch({"folder_id"}),
              Patch(
                  MdbPostgresqlClusterArguments.inPlace
                      \ {"folder_id", "user", "database", "host", "host_master_name",
                         "host_group_ids"}),
              PatchOn({"user"}, {}),
              Patch({"database"}),
              Patch({"user"}),
              Patch({"host"}),
              Patch({"host_master_name"})>>))
MdbPostgresqlClusterDelete == Tolerant
MdbPostgresqlCluster ==
    Resource(MdbPostgresqlClusterArguments, MdbPostgresqlClusterCreate,
             MdbPostgresqlClusterRead, MdbPostgresqlClusterUpdate,
             MdbPostgresqlClusterDelete)

YdbDatabaseDedicatedArguments ==
    Arguments(
        {"location", "location_id", "folder_id"},
        {"name", "network_id", "subnet_ids", "security_group_ids", "resource_preset_id",
         "scale_policy", "storage_config", "assign_public_ips", "description", "labels",
         "deletion_protection"})
YdbDatabaseDedicatedCreate == Accepted(All(YdbDatabaseDedicatedArguments))
YdbDatabaseDedicatedRead == Reads(All(YdbDatabaseDedicatedArguments))
YdbDatabaseDedicatedUpdate == Partial(<<Patch(YdbDatabaseDedicatedArguments.inPlace)>>)
YdbDatabaseDedicatedDelete == Tolerant
YdbDatabaseDedicated ==
    Resource(YdbDatabaseDedicatedArguments, YdbDatabaseDedicatedCreate,
             YdbDatabaseDedicatedRead, YdbDatabaseDedicatedUpdate,
             YdbDatabaseDedicatedDelete)

(* sleep_after is in the schema, and in no call.                           *)
YdbDatabaseServerlessArguments ==
    Arguments(
        {"location_id", "folder_id"},
        {"name", "description", "labels", "deletion_protection", "serverless_database",
         "sleep_after"})
YdbDatabaseServerlessCreate ==
    Accepted(All(YdbDatabaseServerlessArguments) \ {"sleep_after"})
YdbDatabaseServerlessRead == Reads(All(YdbDatabaseServerlessArguments) \ {"sleep_after"})
YdbDatabaseServerlessUpdate ==
    Partial(<<Patch(YdbDatabaseServerlessArguments.inPlace \ {"sleep_after"})>>)
YdbDatabaseServerlessDelete == Tolerant
YdbDatabaseServerless ==
    Resource(YdbDatabaseServerlessArguments, YdbDatabaseServerlessCreate,
             YdbDatabaseServerlessRead, YdbDatabaseServerlessUpdate,
             YdbDatabaseServerlessDelete)

DatabaseRows ==
    [MdbKafkaConnector |-> MdbKafkaConnector, MdbKafkaTopic |-> MdbKafkaTopic,
     MdbKafkaUser |-> MdbKafkaUser, MdbMysqlDatabase |-> MdbMysqlDatabase,
     MdbMysqlUser |-> MdbMysqlUser, MdbPostgresqlDatabase |-> MdbPostgresqlDatabase,
     MdbPostgresqlUser |-> MdbPostgresqlUser, MessageQueue |-> MessageQueue,
     StorageBucket |-> StorageBucket, DataprocCluster |-> DataprocCluster,
     DatatransferTransfer |-> DatatransferTransfer,
     DatatransferEndpoint |-> DatatransferEndpoint,
     MdbElasticsearchCluster |-> MdbElasticsearchCluster,
     MdbSqlserverCluster |-> MdbSqlserverCluster, MdbGreenplumCluster |-> MdbGreenplumCluster,
     MdbRedisCluster |-> MdbRedisCluster, MdbClickhouseCluster |-> MdbClickhouseCluster,
     MdbKafkaCluster |-> MdbKafkaCluster, MdbMongodbCluster |-> MdbMongodbCluster,
     MdbMysqlCluster |-> MdbMysqlCluster, MdbPostgresqlCluster |-> MdbPostgresqlCluster,
     YdbDatabaseDedicated |-> YdbDatabaseDedicated,
     YdbDatabaseServerless |-> YdbDatabaseServerless]
=============================================================================
