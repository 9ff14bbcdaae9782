-------------------------- MODULE EndpointSettings --------------------------
(***************************************************************************)
(* The settings of a Data Transfer endpoint: which of their arguments the  *)
(* conversions carry to the API and back.                                  *)
(***************************************************************************)
EXTENDS ResourceRow

(* The nested arguments of the schema, by the kind of endpoint.            *)
SettingsClickhouseSourceConnectionArguments ==
    Under(
        "connection_options",
        {"database", "mdb_cluster_id", "user", "password.raw"}
            \union Under(
                "on_premise",
                {"http_port", "native_port", "shards.hosts", "shards.name",
                 "tls_mode.disabled", "tls_mode.enabled.ca_certificate"}))
SettingsClickhouseSourceArguments ==
    {"clickhouse_cluster_name", "exclude_tables", "include_tables", "security_groups",
     "subnet_id"}
    \union Under("connection", SettingsClickhouseSourceConnectionArguments)
SettingsClickhouseTargetAltNamesArguments == {"from_name", "to_name"}
SettingsClickhouseTargetConnectionArguments == SettingsClickhouseSourceConnectionArguments
SettingsClickhouseTargetShardingArguments ==
    {"column_value_hash.column_name", "round_robin", "transfer_id"}
    \union Under(
               "custom_mapping",
               {"column_name", "mapping.column_value.string_value", "mapping.shard_name"})
SettingsClickhouseTargetArguments ==
    {"cleanup_policy", "clickhouse_cluster_name", "security_groups", "subnet_id"}
    \union Under("alt_names", SettingsClickhouseTargetAltNamesArguments)
    \union Under("connection", SettingsClickhouseTargetConnectionArguments)
    \union Under("sharding", SettingsClickhouseTargetShardingArguments)
SettingsKafkaSourceAuthArguments ==
    {"no_auth"}
    \union Under("sasl", {"mechanism", "user", "password.raw"})
SettingsKafkaSourceConnectionArguments ==
    {"cluster_id"}
    \union Under(
               "on_premise",
               {"broker_urls", "subnet_id", "tls_mode.disabled",
                "tls_mode.enabled.ca_certificate"})
SettingsKafkaSourceParserJsonParserArguments ==
    {"add_rest_column", "null_keys_allowed", "unescape_string_values"}
    \union Under(
               "data_schema",
               {"json_fields"}
                   \union Under(
                       "fields",
                       Under("fields", {"key", "name", "path", "required", "type"})))
SettingsKafkaSourceParserTskvParserArguments == SettingsKafkaSourceParserJsonParserArguments
SettingsKafkaSourceParserArguments ==
    {"audit_trails_v1_parser", "cloud_logging_parser"}
    \union Under("json_parser", SettingsKafkaSourceParserJsonParserArguments)
    \union Under("tskv_parser", SettingsKafkaSourceParserTskvParserArguments)
SettingsKafkaSourceTransformerArguments ==
    {"buffer_flush_interval", "buffer_size", "cloud_function", "invocation_timeout",
     "number_of_retries", "service_account_id"}
SettingsKafkaSourceArguments ==
    {"security_groups", "topic_name", "topic_names"}
    \union Under("auth", SettingsKafkaSourceAuthArguments)
    \union Under("connection", SettingsKafkaSourceConnectionArguments)
    \union Under("parser", SettingsKafkaSourceParserArguments)
    \union Under("transformer", SettingsKafkaSourceTransformerArguments)
SettingsKafkaTargetAuthArguments == SettingsKafkaSourceAuthArguments
SettingsKafkaTargetConnectionArguments == SettingsKafkaSourceConnectionArguments
SettingsKafkaTargetSerializerArguments ==
    {"serializer_auto", "serializer_debezium.serializer_parameters.key",
     "serializer_debezium.serializer_parameters.value", "serializer_json"}
SettingsKafkaTargetTopicSettingsArguments ==
    {"topic_prefix", "topic.save_tx_order", "topic.topic_name"}
SettingsKafkaTargetArguments ==
    {"security_groups"}
    \union Under("auth", SettingsKafkaTargetAuthArguments)
    \union Under("connection", SettingsKafkaTargetConnectionArguments)
    \union Under("serializer", SettingsKafkaTargetSerializerArguments)
    \union Under("topic_settings", SettingsKafkaTargetTopicSettingsArguments)
SettingsMetrikaSourceArguments ==
    {"counter_ids", "streams.columns", "streams.type", "token.raw"}
SettingsMongoSourceCollectionsArguments == {"collection_name", "database_name"}
SettingsMongoSourceConnectionArguments ==
    Under(
        "connection_options",
        {"auth_source", "mdb_cluster_id", "user", "password.raw"}
            \union Under(
                "on_premise",
                {"hosts", "port", "replica_set", "tls_mode.disabled",
                 "tls_mode.enabled.ca_certificate"}))
SettingsMongoSourceExcludedCollectionsArguments == {"collection_name", "database_name"}
SettingsMongoSourceArguments ==
    {"secondary_preferred_mode", "security_groups", "subnet_id"}
    \union Under("collections", SettingsMongoSourceCollectionsArguments)
    \union Under("connection", SettingsMongoSourceConnectionArguments)
    \union Under("excluded_collections", SettingsMongoSourceExcludedCollectionsArguments)
SettingsMongoTargetConnectionArguments == SettingsMongoSourceConnectionArguments
SettingsMongoTargetArguments ==
    {"cleanup_policy", "database", "security_groups", "subnet_id"}
    \union Under("connection", SettingsMongoTargetConnectionArguments)
SettingsMysqlSourceConnectionArguments ==
    {"mdb_cluster_id"}
    \union Under(
               "on_premise",
               {"hosts", "port", "subnet_id", "tls_mode.disabled",
                "tls_mode.enabled.ca_certificate"})
SettingsMysqlSourceObjectTransferSettingsArguments ==
    {"routine", "tables", "trigger", "view"}
SettingsMysqlSourceArguments ==
    {"database", "include_tables_regex", "exclude_tables_regex", "security_groups",
     "service_database", "timezone", "user", "password.raw"}
    \union Under("connection", SettingsMysqlSourceConnectionArguments)
    \union Under(
               "object_transfer_settings",
               SettingsMysqlSourceObjectTransferSettingsArguments)
SettingsMysqlTargetConnectionArguments == SettingsMysqlSourceConnectionArguments
SettingsMysqlTargetArguments ==
    {"cleanup_policy", "database", "security_groups", "service_database",
     "skip_constraint_checks", "sql_mode", "timezone", "user", "password.raw"}
    \union Under("connection", SettingsMysqlTargetConnectionArguments)
SettingsPostgresSourceConnectionArguments == SettingsMysqlSourceConnectionArguments
SettingsPostgresSourceObjectTransferSettingsArguments ==
    {"cast", "collation", "constraint", "default_values", "fk_constraint", "function",
     "index", "materialized_view", "policy", "primary_key", "rule", "sequence",
     "sequence_owned_by", "sequence_set", "table", "trigger", "type", "view"}
SettingsPostgresSourceArguments ==
    {"database", "exclude_tables", "include_tables", "security_groups", "service_schema",
     "slot_gigabyte_lag_limit", "user", "password.raw"}
    \union Under("connection", SettingsPostgresSourceConnectionArguments)
    \union Under(
               "object_transfer_settings",
               SettingsPostgresSourceObjectTransferSettingsArguments)
SettingsPostgresTargetArguments ==
    {"cleanup_policy", "database", "security_groups", "user", "password.raw"}
    \union Under("connection", SettingsMysqlSourceConnectionArguments)
SettingsYdbSourceArguments ==
    {"changefeed_custom_name", "database", "instance", "paths", "sa_key_content",
     "security_groups", "service_account_id", "subnet_id"}
SettingsYdbTargetArguments ==
    {"cleanup_policy", "database", "default_compression", "instance",
     "is_table_column_oriented", "path", "sa_key_content", "security_groups",
     "service_account_id", "subnet_id"}
SettingsYdsSourceParserJsonParserArguments == SettingsKafkaSourceParserJsonParserArguments
SettingsYdsSourceParserTskvParserArguments == SettingsKafkaSourceParserJsonParserArguments
SettingsYdsSourceParserArguments ==
    {"audit_trails_v1_parser", "cloud_logging_parser"}
    \union Under("json_parser", SettingsYdsSourceParserJsonParserArguments)
    \union Under("tskv_parser", SettingsYdsSourceParserTskvParserArguments)
SettingsYdsSourceArguments ==
    {"allow_ttl_rewind", "consumer", "database", "endpoint", "security_groups",
     "service_account_id", "stream", "subnet_id", "supported_codecs"}
    \union Under("parser", SettingsYdsSourceParserArguments)
SettingsYdsTargetArguments ==
    {"database", "endpoint", "save_tx_order", "security_groups", "service_account_id",
     "stream", "subnet_id"}
    \union Under("serializer", SettingsKafkaTargetSerializerArguments)
SettingsArguments ==
    Under("clickhouse_source", SettingsClickhouseSourceArguments)
    \union Under("clickhouse_target", SettingsClickhouseTargetArguments)
    \union Under("kafka_source", SettingsKafkaSourceArguments)
    \union Under("kafka_target", SettingsKafkaTargetArguments)
    \union Under("metrika_source", SettingsMetrikaSourceArguments)
    \union Under("mongo_source", SettingsMongoSourceArguments)
    \union Under("mongo_target", SettingsMongoTargetArguments)
    \union Under("mysql_source", SettingsMysqlSourceArguments)
    \union Under("mysql_target", SettingsMysqlTargetArguments)
    \union Under("postgres_source", SettingsPostgresSourceArguments)
    \union Under("postgres_target", SettingsPostgresTargetArguments)
    \union Under("ydb_source", SettingsYdbSourceArguments)
    \union Under("ydb_target", SettingsYdbTargetArguments)
    \union Under("yds_source", SettingsYdsSourceArguments)
    \union Under("yds_target", SettingsYdsTargetArguments)

(* What the expand functions put into a request.                           *)
expandSettingsClickhouseSourceConnectionConnectionOptions ==
    {"database", "mdb_cluster_id", "user", "password.raw"}
    \union Under(
               "on_premise",
               {"http_port", "native_port", "shards.hosts", "shards.name",
                "tls_mode.disabled", "tls_mode.enabled.ca_certificate"})
expandSettingsClickhouseSourceConnection ==
    Under("connection_options", expandSettingsClickhouseSourceConnectionConnectionOptions)
expandSettingsClickhouseSource ==
    {"clickhouse_cluster_name", "exclude_tables", "include_tables", "security_groups",
     "subnet_id"}
    \union Under("connection", expandSettingsClickhouseSourceConnection)
expandSettingsClickhouseTargetAltNamesSlice == {"from_name", "to_name"}
expandSettingsClickhouseTargetConnectionConnectionOptions ==
    expandSettingsClickhouseSourceConnectionConnectionOptions
expandSettingsClickhouseTargetConnection ==
    Under("connection_options", expandSettingsClickhouseTargetConnectionConnectionOptions)
expandSettingsClickhouseTargetSharding == SettingsClickhouseTargetShardingArguments
expandSettingsClickhouseTarget ==
    {"cleanup_policy", "clickhouse_cluster_name", "security_groups", "subnet_id"}
    \union Under("alt_names", expandSettingsClickhouseTargetAltNamesSlice)
    \union Under("connection", expandSettingsClickhouseTargetConnection)
    \union Under("sharding", expandSettingsClickhouseTargetSharding)
expandSettingsKafkaSourceAuth == SettingsKafkaSourceAuthArguments
expandSettingsKafkaSourceConnection == SettingsKafkaSourceConnectionArguments
expandSettingsKafkaSourceParserJsonParser == SettingsKafkaSourceParserJsonParserArguments
expandSettingsKafkaSourceParserTskvParser == SettingsKafkaSourceParserJsonParserArguments
expandSettingsKafkaSourceParser ==
    {"audit_trails_v1_parser", "cloud_logging_parser"}
    \union Under("json_parser", expandSettingsKafkaSourceParserJsonParser)
    \union Under("tskv_parser", expandSettingsKafkaSourceParserTskvParser)
expandSettingsKafkaSourceTransformer == SettingsKafkaSourceTransformerArguments
expandSettingsKafkaSource ==
    {"security_groups", "topic_name", "topic_names"}
    \union Under("auth", expandSettingsKafkaSourceAuth)
    \union Under("connection", expandSettingsKafkaSourceConnection)
    \union Under("parser", expandSettingsKafkaSourceParser)
    \union Under("transformer", expandSettingsKafkaSourceTransformer)
expandSettingsKafkaTargetAuth == SettingsKafkaSourceAuthArguments
expandSettingsKafkaTargetConnection == SettingsKafkaSourceConnectionArguments
expandSettingsKafkaTargetSerializer == SettingsKafkaTargetSerializerArguments
expandSettingsKafkaTargetTopicSettings == SettingsKafkaTargetTopicSettingsArguments
expandSettingsKafkaTarget ==
    {"security_groups"}
    \union Under("auth", expandSettingsKafkaTargetAuth)
    \union Under("connection", expandSettingsKafkaTargetConnection)
    \union Under("serializer", expandSettingsKafkaTargetSerializer)
    \union Under("topic_settings", expandSettingsKafkaTargetTopicSettings)
expandSettingsMetrikaSource == SettingsMetrikaSourceArguments
expandSettingsMongoSourceCollectionsSlice == {"collection_name", "database_name"}
expandSettingsMongoSourceConnection == SettingsMongoSourceConnectionArguments
expandSettingsMongoSourceExcludedCollectionsSlice == {"collection_name", "database_name"}
expandSettingsMongoSource ==
    {"secondary_preferred_mode", "security_groups", "subnet_id"}
    \union Under("collections", expandSettingsMongoSourceCollectionsSlice)
    \union Under("connection", expandSettingsMongoSourceConnection)
    \union Under("excluded_collections", expandSettingsMongoSourceExcludedCollectionsSlice)
expandSettingsMongoTargetConnection == SettingsMongoSourceConnectionArguments
expandSettingsMongoTarget ==
    {"cleanup_policy", "database", "security_groups", "subnet_id"}
    \union Under("connection", expandSettingsMongoTargetConnection)
expandSettingsMysqlSourceConnection == SettingsMysqlSourceConnectionArguments
expandSettingsMysqlSourceObjectTransferSettings ==
    SettingsMysqlSourceObjectTransferSettingsArguments
expandSettingsMysqlSource ==
    {"database", "exclude_tables_regex", "include_tables_regex", "security_groups",
     "service_database", "timezone", "user", "password.raw"}
    \union Under("connection", expandSettingsMysqlSourceConnection)
    \union Under(
               "object_transfer_settings",
               expandSettingsMysqlSourceObjectTransferSettings)
expandSettingsMysqlTargetConnection == SettingsMysqlSourceConnectionArguments
expandSettingsMysqlTarget ==
    {"cleanup_policy", "database", "security_groups", "service_database",
     "skip_constraint_checks", "sql_mode", "timezone", "user", "password.raw"}
    \union Under("connection", expandSettingsMysqlTargetConnection)
expandSettingsPostgresSourceConnection == SettingsMysqlSourceConnectionArguments
expandSettingsPostgresSourceObjectTransferSettings ==
    SettingsPostgresSourceObjectTransferSettingsArguments
expandSettingsPostgresSource ==
    {"database", "exclude_tables", "include_tables", "security_groups", "service_schema",
     "slot_gigabyte_lag_limit", "user", "password.raw"}
    \union Under("connection", expandSettingsPostgresSourceConnection)
    \union Under(
               "object_transfer_settings",
               expandSettingsPostgresSourceObjectTransferSettings)
expandSettingsPostgresTarget == SettingsPostgresTargetArguments
expandSettingsYdbSource == SettingsYdbSourceArguments
expandSettingsYdbTarget == SettingsYdbTargetArguments
expandSettingsYdsSourceParserJsonParser == SettingsKafkaSourceParserJsonParserArguments
expandSettingsYdsSourceParserTskvParser == SettingsKafkaSourceParserJsonParserArguments
expandSettingsYdsSourceParser ==
    {"audit_trails_v1_parser", "cloud_logging_parser"}
    \union Under("json_parser", expandSettingsYdsSourceParserJsonParser)
    \union Under("tskv_parser", expandSettingsYdsSourceParserTskvParser)
expandSettingsYdsSource ==
    {"allow_ttl_rewind", "consumer", "database", "endpoint", "security_groups",
     "service_account_id", "stream", "subnet_id", "supported_codecs"}
    \union Under("parser", expandSettingsYdsSourceParser)
expandSettingsYdsTarget == SettingsYdsTargetArguments
expandSettings ==
    Under("clickhouse_source", expandSettingsClickhouseSource)
    \union Under("clickhouse_target", expandSettingsClickhouseTarget)
    \union Under("kafka_source", expandSettingsKafkaSource)
    \union Under("kafka_target", expandSettingsKafkaTarget)
    \union Under("metrika_source", expandSettingsMetrikaSource)
    \union Under("mongo_source", expandSettingsMongoSource)
    \union Under("mongo_target", expandSettingsMongoTarget)
    \union Under("mysql_source", expandSettingsMysqlSource)
    \union Under("mysql_target", expandSettingsMysqlTarget)
    \union Under("postgres_source", expandSettingsPostgresSource)
    \union Under("postgres_target", expandSettingsPostgresTarget)
    \union Under("ydb_source", expandSettingsYdbSource)
    \union Under("ydb_target", expandSettingsYdbTarget)
    \union Under("yds_source", expandSettingsYdsSource)
    \union Under("yds_target", expandSettingsYdsTarget)

(* What the flatten functions take from an answer: all but the secrets,    *)
(* which they copy from the state.                                         *)
flattenSettingsClickhouseSourceConnection ==
    Under(
        "connection_options",
        {"database", "mdb_cluster_id", "user"}
            \union Under(
                "on_premise",
                {"http_port", "native_port", "shards.hosts", "shards.name",
                 "tls_mode.disabled", "tls_mode.enabled.ca_certificate"}))
flattenSettingsClickhouseSource ==
    {"clickhouse_cluster_name", "exclude_tables", "include_tables", "security_groups",
     "subnet_id"}
    \union Under("connection", flattenSettingsClickhouseSourceConnection)
flattenSettingsClickhouseTargetAltNamesSlice == {"from_name", "to_name"}
flattenSettingsClickhouseTargetConnection == flattenSettingsClickhouseSourceConnection
flattenSettingsClickhouseTargetSharding == SettingsClickhouseTargetShardingArguments
flattenSettingsClickhouseTarget ==
    {"cleanup_policy", "clickhouse_cluster_name", "security_groups", "subnet_id"}
    \union Under("alt_names", flattenSettingsClickhouseTargetAltNamesSlice)
    \union Under("connection", flattenSettingsClickhouseTargetConnection)
    \union Under("sharding", flattenSettingsClickhouseTargetSharding)
flattenSettingsKafkaSourceAuth == {"no_auth", "sasl.mechanism", "sasl.user"}
flattenSettingsKafkaSourceConnection == SettingsKafkaSourceConnectionArguments
flattenSettingsKafkaSourceParserJsonParser == SettingsKafkaSourceParserJsonParserArguments
flattenSettingsKafkaSourceParserTskvParser == SettingsKafkaSourceParserJsonParserArguments
flattenSettingsKafkaSourceParser ==
    {"audit_trails_v1_parser", "cloud_logging_parser"}
    \union Under("json_parser", flattenSettingsKafkaSourceParserJsonParser)
    \union Under("tskv_parser", flattenSettingsKafkaSourceParserTskvParser)
flattenSettingsKafkaSourceTransformer == SettingsKafkaSourceTransformerArguments
flattenSettingsKafkaSource ==
    {"security_groups", "topic_name", "topic_names"}
    \union Under("auth", flattenSettingsKafkaSourceAuth)
    \union Under("connection", flattenSettingsKafkaSourceConnection)
    \union Under("parser", flattenSettingsKafkaSourceParser)
    \union Under("transformer", flattenSettingsKafkaSourceTransformer)
flattenSettingsKafkaTargetAuth == flattenSettingsKafkaSourceAuth
flattenSettingsKafkaTargetConnection == SettingsKafkaSourceConnectionArguments
flattenSettingsKafkaTargetSerializer == SettingsKafkaTargetSerializerArguments
flattenSettingsKafkaTargetTopicSettings == SettingsKafkaTargetTopicSettingsArguments
flattenSettingsKafkaTarget ==
    {"security_groups"}
    \union Under("auth", flattenSettingsKafkaTargetAuth)
    \union Under("connection", flattenSettingsKafkaTargetConnection)
    \union Under("serializer", flattenSettingsKafkaTargetSerializer)
    \union Under("topic_settings", flattenSettingsKafkaTargetTopicSettings)
flattenSettingsMetrikaSource == {"counter_ids", "streams.columns", "streams.type"}
flattenSettingsMongoSourceCollectionsSlice == {"collection_name", "database_name"}
flattenSettingsMongoSourceConnection ==
    Under(
        "connection_options",
        {"auth_source", "mdb_cluster_id", "user"}
            \union Under(
                "on_premise",
                {"hosts", "port", "replica_set", "tls_mode.disabled",
                 "tls_mode.enabled.ca_certificate"}))
flattenSettingsMongoSourceExcludedCollectionsSlice == {"collection_name", "database_name"}
flattenSettingsMongoSource ==
    {"secondary_preferred_mode", "security_groups", "subnet_id"}
    \union Under("collections", flattenSettingsMongoSourceCollectionsSlice)
    \union Under("connection", flattenSettingsMongoSourceConnection)
    \union Under("excluded_collections", flattenSettingsMongoSourceExcludedCollectionsSlice)
flattenSettingsMongoTarget ==
    {"cleanup_policy", "database", "security_groups", "subnet_id"}
    \union Under("connection", flattenSettingsMongoSourceConnection)
flattenSettingsMysqlSource ==
    {"database", "exclude_tables_regex", "include_tables_regex", "security_groups",
     "service_database", "timezone", "user"}
    \union Under("connection", SettingsMysqlSourceConnectionArguments)
    \union Under(
               "object_transfer_settings",
               SettingsMysqlSourceObjectTransferSettingsArguments)
flattenSettingsMysqlTarget ==
    {"cleanup_policy", "database", "security_groups", "service_database",
     "skip_constraint_checks", "sql_mode", "timezone", "user"}
    \union Under("connection", SettingsMysqlSourceConnectionArguments)
flattenSettingsPostgresSource ==
    {"database", "exclude_tables", "include_tables", "security_groups", "service_schema",
     "slot_gigabyte_lag_limit", "user"}
    \union Under("connection", SettingsMysqlSourceConnectionArguments)
    \union Under(
               "object_transfer_settings",
               SettingsPostgresSourceObjectTransferSettingsArguments)
flattenSettingsPostgresTarget ==
    {"cleanup_policy", "database", "security_groups", "user"}
    \union Under("connection", SettingsMysqlSourceConnectionArguments)
flattenSettingsYdbSource == SettingsYdbSourceArguments
flattenSettingsYdbTarget == SettingsYdbTargetArguments
flattenSettingsYdsSourceParserJsonParser == SettingsKafkaSourceParserJsonParserArguments
flattenSettingsYdsSourceParserTskvParser == SettingsKafkaSourceParserJsonParserArguments
flattenSettingsYdsSourceParser ==
    {"audit_trails_v1_parser", "cloud_logging_parser"}
    \union Under("json_parser", flattenSettingsYdsSourceParserJsonParser)
    \union Under("tskv_parser", flattenSettingsYdsSourceParserTskvParser)
flattenSettingsYdsSource ==
    {"allow_ttl_rewind", "consumer", "database", "endpoint", "security_groups",
     "service_account_id", "stream", "subnet_id", "supported_codecs"}
    \union Under("parser", flattenSettingsYdsSourceParser)
flattenSettingsYdsTarget == SettingsYdsTargetArguments
flattenSettings ==
    Under("clickhouse_source", flattenSettingsClickhouseSource)
    \union Under("clickhouse_target", flattenSettingsClickhouseTarget)
    \union Under("kafka_source", flattenSettingsKafkaSource)
    \union Under("kafka_target", flattenSettingsKafkaTarget)
    \union Under("metrika_source", flattenSettingsMetrikaSource)
    \union Under("mongo_source", flattenSettingsMongoSource)
    \union Under("mongo_target", flattenSettingsMongoTarget)
    \union Under("mysql_source", flattenSettingsMysqlSource)
    \union Under("mysql_target", flattenSettingsMysqlTarget)
    \union Under("postgres_source", flattenSettingsPostgresSource)
    \union Under("postgres_target", flattenSettingsPostgresTarget)
    \union Under("ydb_source", flattenSettingsYdbSource)
    \union Under("ydb_target", flattenSettingsYdbTarget)
    \union Under("yds_source", flattenSettingsYdsSource)
    \union Under("yds_target", flattenSettingsYdsTarget)

SecretSettings == Under("settings", expandSettings \ flattenSettings)
=============================================================================
