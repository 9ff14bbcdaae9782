--------------------------- MODULE ServerlessRows ---------------------------
(*****************************************************************************)
(* Gateways, triggers, queues of events, devices, clusters of containers,    *)
(* web security                                                              *)
(*****************************************************************************)
EXTENDS SecurityProfiles

(* Domains are attached and detached one by one after the gateway is       *)
(* there; the specification is not read back.                              *)
ApiGatewayArguments ==
    Arguments(
        {"folder_id"},
        {"name", "description", "labels", "spec", "custom_domains", "connectivity",
         "variables", "canary", "log_options", "execution_timeout"})
ApiGatewayCreate ==
    Creates(
        "accepted",
        <<All(ApiGatewayArguments) \ {"custom_domains"}, {"custom_domains"}>>)
ApiGatewayRead == Reads(All(ApiGatewayArguments) \ {"spec"})
ApiGatewayUpdate ==
    Partial(
        <<Patch(ApiGatewayArguments.inPlace \ {"custom_domains"}),
          Patch({"custom_domains"})>>)
ApiGatewayDelete == Tolerant
ApiGateway ==
    Resource(ApiGatewayArguments, ApiGatewayCreate, ApiGatewayRead, ApiGatewayUpdate,
             ApiGatewayDelete)

(* The deprecated filter is not read back.                                 *)
AuditTrailsTrailArguments ==
    Arguments(
        {"folder_id"},
        {"name", "description", "labels", "service_account_id", "storage_destination",
         "logging_destination", "data_stream_destination", "filtering_policy", "filter"})
AuditTrailsTrailCreate == Accepted(All(AuditTrailsTrailArguments))
AuditTrailsTrailRead == Reads(All(AuditTrailsTrailArguments) \ {"filter"})
AuditTrailsTrailUpdate == Planned(<<Put(AuditTrailsTrailArguments.inPlace)>>)
AuditTrailsTrailDelete == Tolerant
AuditTrailsTrail ==
    Resource(AuditTrailsTrailArguments, AuditTrailsTrailCreate, AuditTrailsTrailRead,
             AuditTrailsTrailUpdate, AuditTrailsTrailDelete)

BackupPolicyArguments ==
    Arguments(
        {"folder_id"},
        {"name", "compression", "format", "multi_volume_snapshotting_enabled",
         "performance_window_enabled", "silent_mode_enabled", "splitting_bytes",
         "vss_provider", "archive_name", "fast_backup_enabled", "reattempts",
         "vm_snapshot_reattempts", "retention", "scheduling", "cbt"})
BackupPolicyCreate == Accepted(All(BackupPolicyArguments))
BackupPolicyRead == Reads(All(BackupPolicyArguments))
BackupPolicyUpdate == Planned(<<Put(BackupPolicyArguments.inPlace)>>)
BackupPolicyDelete == Tolerant
BackupPolicy ==
    Resource(BackupPolicyArguments, BackupPolicyCreate, BackupPolicyRead,
             BackupPolicyUpdate, BackupPolicyDelete)

(* Create does not wait for the operation. Its Read takes the binding off  *)
(* the state if the API does not list it yet.                              *)
BackupPolicyBindingsArguments == Arguments({"instance_id", "policy_id"}, {})
BackupPolicyBindingsCreate == Accepted(All(BackupPolicyBindingsArguments))
BackupPolicyBindingsRead == Reads(All(BackupPolicyBindingsArguments))
BackupPolicyBindingsDelete == Tolerant
BackupPolicyBindings ==
    Resource(BackupPolicyBindingsArguments, BackupPolicyBindingsCreate,
             BackupPolicyBindingsRead, NoUpdate, BackupPolicyBindingsDelete)

ContainerRegistryArguments == Arguments({"folder_id"}, {"name", "labels"})
ContainerRegistryCreate == Accepted(All(ContainerRegistryArguments))
ContainerRegistryRead == Reads(All(ContainerRegistryArguments))
ContainerRegistryUpdate == Strict(Planned(<<Patch(ContainerRegistryArguments.inPlace)>>))
ContainerRegistryDelete == Tolerant
ContainerRegistry ==
    Resource(ContainerRegistryArguments, ContainerRegistryCreate, ContainerRegistryRead,
             ContainerRegistryUpdate, ContainerRegistryDelete)

ContainerRepositoryArguments == Arguments({"name"}, {})
ContainerRepositoryCreate == Accepted(All(ContainerRepositoryArguments))
ContainerRepositoryRead == Reads(All(ContainerRepositoryArguments))
ContainerRepositoryDelete == Tolerant
ContainerRepository ==
    Resource(ContainerRepositoryArguments, ContainerRepositoryCreate,
             ContainerRepositoryRead, NoUpdate, ContainerRepositoryDelete)

ContainerRepositoryLifecyclePolicyArguments ==
    Arguments({"repository_id"}, {"status", "name", "description", "rule"})
ContainerRepositoryLifecyclePolicyCreate ==
    Accepted(All(ContainerRepositoryLifecyclePolicyArguments))
ContainerRepositoryLifecyclePolicyRead ==
    ReadsExisting(All(ContainerRepositoryLifecyclePolicyArguments))
ContainerRepositoryLifecyclePolicyUpdate ==
    Planned(<<Patch(ContainerRepositoryLifecyclePolicyArguments.inPlace)>>)
ContainerRepositoryLifecyclePolicyDelete == Exacting
ContainerRepositoryLifecyclePolicy ==
    Resource(ContainerRepositoryLifecyclePolicyArguments,
             ContainerRepositoryLifecyclePolicyCreate,
             ContainerRepositoryLifecyclePolicyRead,
             ContainerRepositoryLifecyclePolicyUpdate,
             ContainerRepositoryLifecyclePolicyDelete)

(* The policies of a function, one call for each tag; two stand for all.   *)
(* That the function is gone is wrapped in a text (%s), so that Read does  *)
(* not recognize it.                                                       *)
FunctionScalingPolicyArguments ==
    Arguments({"function_id"}, {"policy", "policy_of_next_tag"})
FunctionScalingPolicyCreate ==
    Creates(
        "adopted",
        <<All(FunctionScalingPolicyArguments) \ {"policy_of_next_tag"},
          {"policy_of_next_tag"}>>)
FunctionScalingPolicyRead == ReadsExisting(FunctionScalingPolicyArguments.inPlace)
FunctionScalingPolicyUpdate == Planned(<<Patch({"policy"}), Patch({"policy_of_next_tag"})>>)
FunctionScalingPolicyDelete == Exacting
FunctionScalingPolicy ==
    Resource(FunctionScalingPolicyArguments, FunctionScalingPolicyCreate,
             FunctionScalingPolicyRead, FunctionScalingPolicyUpdate,
             FunctionScalingPolicyDelete)

FunctionTriggerArguments ==
    Arguments(
        {"folder_id", "function", "container", "iot", "message_queue", "object_storage",
         "container_registry", "data_streams", "timer", "mail", "log_group", "logging"},
        {"name", "description", "labels", "dlq"})
FunctionTriggerCreate == Accepted(All(FunctionTriggerArguments))
FunctionTriggerRead == Reads(All(FunctionTriggerArguments))
FunctionTriggerUpdate == Partial(<<Put(FunctionTriggerArguments.inPlace)>>)
FunctionTriggerDelete == Tolerant
FunctionTrigger ==
    Resource(FunctionTriggerArguments, FunctionTriggerCreate, FunctionTriggerRead,
             FunctionTriggerUpdate, FunctionTriggerDelete)

IotCoreBrokerArguments ==
    Arguments(
        {"folder_id"},
        {"name", "description", "labels", "certificates", "log_options"})
IotCoreBrokerCreate == Accepted(All(IotCoreBrokerArguments))
IotCoreBrokerRead == Reads(All(IotCoreBrokerArguments) \ {"certificates"})
IotCoreBrokerUpdate ==
    Partial(
        <<Patch(IotCoreBrokerArguments.inPlace \ {"certificates"}),
          Patch({"certificates"})>>)
IotCoreBrokerDelete == Tolerant
IotCoreBroker ==
    Resource(IotCoreBrokerArguments, IotCoreBrokerCreate, IotCoreBrokerRead,
             IotCoreBrokerUpdate, IotCoreBrokerDelete)

IotCoreDeviceArguments ==
    Arguments(
        {"registry_id"},
        {"name", "description", "labels", "certificates", "passwords", "aliases"})
IotCoreDeviceCreate ==
    Creates("accepted", <<All(IotCoreDeviceArguments) \ {"passwords"}, {"passwords"}>>)
IotCoreDeviceRead == Reads({"registry_id", "name", "description", "labels"})
IotCoreDeviceUpdate ==
    Partial(
        <<Patch({"name", "description", "labels", "aliases"}),
          Patch({"certificates"}),
          Patch({"passwords"})>>)
IotCoreDeviceDelete == Tolerant
IotCoreDevice ==
    Resource(IotCoreDeviceArguments, IotCoreDeviceCreate, IotCoreDeviceRead,
             IotCoreDeviceUpdate, IotCoreDeviceDelete)

(* As many new passwords as there are old ones are added to those, which   *)
(* stay valid.                                                             *)
IotCoreRegistryArguments ==
    Arguments(
        {"folder_id"},
        {"name", "description", "labels", "certificates", "passwords", "log_options"})
IotCoreRegistryCreate ==
    Creates("accepted", <<All(IotCoreRegistryArguments) \ {"passwords"}, {"passwords"}>>)
IotCoreRegistryRead == Reads(All(IotCoreRegistryArguments) \ {"certificates", "passwords"})
IotCoreRegistryUpdate ==
    Partial(
        <<Patch({"name", "description", "labels", "log_options"}),
          Patch({"certificates"}),
          Patch({"passwords"})>>)
IotCoreRegistryDelete == Tolerant
IotCoreRegistry ==
    Resource(IotCoreRegistryArguments, IotCoreRegistryCreate, IotCoreRegistryRead,
             IotCoreRegistryUpdate, IotCoreRegistryDelete)

(* The arguments of the block master stand next to the others.             *)
KubernetesClusterArguments ==
    Arguments(
        {"network_id", "folder_id", "cluster_ipv4_range", "cluster_ipv6_range",
         "node_ipv4_cidr_mask_size", "service_ipv4_range", "service_ipv6_range",
         "release_channel", "network_policy_provider", "kms_provider",
         "network_implementation", "zonal", "regional", "public_ip",
         "external_v6_address", "etcd_cluster_size"},
        {"service_account_id", "node_service_account_id", "name", "description", "labels",
         "version", "maintenance_policy", "security_group_ids", "master_logging",
         "master_location"})
KubernetesClusterCreate == Accepted(All(KubernetesClusterArguments))
KubernetesClusterRead == Reads(All(KubernetesClusterArguments))
KubernetesClusterUpdate == Strict(Planned(<<Patch(KubernetesClusterArguments.inPlace)>>))
KubernetesClusterDelete == Tolerant
KubernetesCluster ==
    Resource(KubernetesClusterArguments, KubernetesClusterCreate, KubernetesClusterRead,
             KubernetesClusterUpdate, KubernetesClusterDelete)

KubernetesNodeGroupArguments ==
    Arguments(
        {"cluster_id", "allowed_unsafe_sysctls", "node_taints", "nat"},
        {"instance_template", "allocation_policy", "scale_policy", "name", "description",
         "labels", "version", "node_labels", "maintenance_policy", "deploy_policy"})
KubernetesNodeGroupCreate == Accepted(All(KubernetesNodeGroupArguments))
KubernetesNodeGroupRead == Reads(All(KubernetesNodeGroupArguments))
KubernetesNodeGroupUpdate ==
    Strict(Planned(<<Patch(KubernetesNodeGroupArguments.inPlace)>>))
KubernetesNodeGroupDelete == Tolerant
KubernetesNodeGroup ==
    Resource(KubernetesNodeGroupArguments, KubernetesNodeGroupCreate,
             KubernetesNodeGroupRead, KubernetesNodeGroupUpdate, KubernetesNodeGroupDelete)

LoadtestingAgentArguments ==
    Arguments(
        {"folder_id", "log_settings"},
        {"name", "description", "labels", "compute_instance"})
LoadtestingAgentCreate == Accepted(All(LoadtestingAgentArguments))
LoadtestingAgentRead == Reads(All(LoadtestingAgentArguments))
LoadtestingAgentUpdate == Planned(<<Patch(LoadtestingAgentArguments.inPlace)>>)
LoadtestingAgentDelete == Tolerant
LoadtestingAgent ==
    Resource(LoadtestingAgentArguments, LoadtestingAgentCreate, LoadtestingAgentRead,
             LoadtestingAgentUpdate, LoadtestingAgentDelete)

(* The id is taken from the response, after the operation is done.         *)
MonitoringDashboardArguments ==
    Arguments(
        {"folder_id", "name"},
        {"description", "labels", "parametrization", "title", "widgets"})
MonitoringDashboardCreate == Done(All(MonitoringDashboardArguments))
MonitoringDashboardRead == Reads(All(MonitoringDashboardArguments))
MonitoringDashboardUpdate == Planned(<<Put(MonitoringDashboardArguments.inPlace)>>)
MonitoringDashboardDelete == Tolerant
MonitoringDashboard ==
    Resource(MonitoringDashboardArguments, MonitoringDashboardCreate,
             MonitoringDashboardRead, MonitoringDashboardUpdate, MonitoringDashboardDelete)

(* The deletion protection is in no call of Update.                        *)
EventrouterBusArguments ==
    Arguments({"folder_id"}, {"name", "description", "labels", "deletion_protection"})
EventrouterBusCreate == Accepted(All(EventrouterBusArguments))
EventrouterBusRead == Reads(All(EventrouterBusArguments))
EventrouterBusUpdate == Planned(<<Patch({"name", "description", "labels"})>>)
EventrouterBusDelete == Tolerant
EventrouterBus ==
    Resource(EventrouterBusArguments, EventrouterBusCreate, EventrouterBusRead,
             EventrouterBusUpdate, EventrouterBusDelete)

(* Another bus neither replaces the connector nor is it in a call.         *)
EventrouterConnectorArguments ==
    Arguments(
        {"yds", "ymq", "timer"},
        {"name", "bus_id", "description", "labels", "deletion_protection"})
EventrouterConnectorCreate == Accepted(All(EventrouterConnectorArguments))
EventrouterConnectorRead == Reads(All(EventrouterConnectorArguments))
EventrouterConnectorUpdate ==
    Planned(<<Patch(EventrouterConnectorArguments.inPlace \ {"bus_id"})>>)
EventrouterConnectorDelete == Tolerant
EventrouterConnector ==
    Resource(EventrouterConnectorArguments, EventrouterConnectorCreate,
             EventrouterConnectorRead, EventrouterConnectorUpdate,
             EventrouterConnectorDelete)

(* A changed filter is looked for under the name of the API, filter, and   *)
(* never sent; another bus is in no call. Read takes over the kinds of     *)
(* targets that the rule has and leaves those that it lacks as they are in *)
(* the state.                                                              *)
EventrouterRuleArguments ==
    Arguments(
        {},
        {"name", "bus_id", "description", "labels", "jq_filter", "targets",
         "deletion_protection"})
EventrouterRuleCreate == Accepted(All(EventrouterRuleArguments))
EventrouterRuleRead == Reads(All(EventrouterRuleArguments) \ {"targets"})
EventrouterRuleUpdate ==
    Planned(<<Patch(EventrouterRuleArguments.inPlace \ {"bus_id", "jq_filter"})>>)
EventrouterRuleDelete == Tolerant
EventrouterRule ==
    Resource(EventrouterRuleArguments, EventrouterRuleCreate, EventrouterRuleRead,
             EventrouterRuleUpdate, EventrouterRuleDelete)

SmartcaptchaCaptchaArguments ==
    Arguments(
        {"folder_id"},
        {"allowed_sites", "challenge_type", "complexity", "deletion_protection", "name",
         "pre_check_type", "style_json", "turn_off_hostname_check"}
            \union Under(
                "override_variant",
                CaptchaOverrideVariantArguments)
            \union Under("security_rule", CaptchaSecurityRuleArguments))
SmartcaptchaCaptchaCreate ==
    Accepted(
        {"folder_id", "allowed_sites", "challenge_type", "complexity",
         "deletion_protection", "name", "pre_check_type", "style_json",
         "turn_off_hostname_check"}
            \union Under(
                "override_variant",
                expandCaptchaOverrideVariantsSlice)
            \union Under("security_rule", expandCaptchaSecurityRulesSlice))
SmartcaptchaCaptchaRead ==
    Reads(
        {"folder_id", "allowed_sites", "challenge_type", "complexity",
         "deletion_protection", "name", "pre_check_type", "style_json",
         "turn_off_hostname_check"}
            \union Under(
                "override_variant",
                flattenSmartcaptchaOverrideVariantSlice)
            \union Under("security_rule", flattenSmartcaptchaSecurityRuleSlice))
SmartcaptchaCaptchaUpdate ==
    Planned(
        <<Patch(
              {"allowed_sites", "challenge_type", "complexity", "deletion_protection",
               "name", "pre_check_type", "style_json", "turn_off_hostname_check"}
                  \union Under(
                      "override_variant",
                      expandCaptchaOverrideVariantsSlice_)
                  \union Under("security_rule", expandCaptchaSecurityRulesSlice_))>>)
SmartcaptchaCaptchaDelete == Tolerant
SmartcaptchaCaptcha ==
    Resource(SmartcaptchaCaptchaArguments, SmartcaptchaCaptchaCreate, SmartcaptchaCaptchaRead,
             SmartcaptchaCaptchaUpdate, SmartcaptchaCaptchaDelete)

SwsAdvancedRateLimiterProfileArguments ==
    Arguments(
        {"folder_id"},
        {"description", "labels", "name"}
            \union Under("advanced_rate_limiter_rule", RateLimiterRuleArguments))
SwsAdvancedRateLimiterProfileCreate ==
    Accepted(
        {"folder_id", "description", "labels", "name"}
            \union Under("advanced_rate_limiter_rule", expandRateLimiterRulesSlice))
SwsAdvancedRateLimiterProfileRead ==
    Reads(
        {"folder_id", "description", "labels", "name"}
            \union Under("advanced_rate_limiter_rule", flattenRateLimiterRuleSlice))
SwsAdvancedRateLimiterProfileUpdate ==
    Planned(
        <<Patch(
              {"description", "labels", "name"}
                  \union Under(
                      "advanced_rate_limiter_rule",
                      expandRateLimiterRulesSlice_))>>)
SwsAdvancedRateLimiterProfileDelete == Tolerant
SwsAdvancedRateLimiterProfile ==
    Resource(SwsAdvancedRateLimiterProfileArguments, SwsAdvancedRateLimiterProfileCreate, SwsAdvancedRateLimiterProfileRead,
             SwsAdvancedRateLimiterProfileUpdate, SwsAdvancedRateLimiterProfileDelete)

SwsSecurityProfileArguments ==
    Arguments(
        {"folder_id"},
        {"advanced_rate_limiter_profile_id", "captcha_id", "default_action",
         "description", "labels", "name"}
            \union Under("security_rule", SecurityRuleArguments))
SwsSecurityProfileCreate ==
    Accepted(
        {"folder_id", "advanced_rate_limiter_profile_id", "captcha_id", "default_action",
         "description", "labels", "name"}
            \union Under("security_rule", expandSecurityRulesSlice))
SwsSecurityProfileRead ==
    Reads(
        {"folder_id", "advanced_rate_limiter_profile_id", "captcha_id", "default_action",
         "description", "labels", "name"}
            \union Under("security_rule", flattenSmartwebsecuritySecurityRuleSlice))
SwsSecurityProfileUpdate ==
    Planned(
        <<Patch(
              {"advanced_rate_limiter_profile_id", "captcha_id", "default_action",
               "description", "labels", "name"}
                  \union Under("security_rule", expandSecurityRulesSlice_))>>)
SwsSecurityProfileDelete == Tolerant
SwsSecurityProfile ==
    Resource(SwsSecurityProfileArguments, SwsSecurityProfileCreate, SwsSecurityProfileRead,
             SwsSecurityProfileUpdate, SwsSecurityProfileDelete)

SwsWafProfileArguments ==
    Arguments(
        {"folder_id"},
        {"description", "labels", "name"}
            \union Under(
                "analyze_request_body",
                WafAnalyzeRequestBodyArguments)
            \union Under(
                "core_rule_set",
                WafCoreRuleSetArguments)
            \union Under(
                "exclusion_rule",
                WafExclusionRuleArguments)
            \union Under("rule", WafRuleArguments))
SwsWafProfileCreate ==
    Accepted(
        {"folder_id", "description", "labels", "name"}
            \union Under(
                "analyze_request_body",
                expandWafProfileAnalyzeRequestBody)
            \union Under(
                "core_rule_set",
                expandWafProfileCoreRuleSet)
            \union Under(
                "exclusion_rule",
                expandWafProfileExclusionRulesSlice)
            \union Under("rule", expandWafProfileRulesSlice))
SwsWafProfileRead ==
    Reads(
        {"folder_id", "description", "labels", "name"}
            \union Under(
                "analyze_request_body",
                flatten_WafProfile_AnalyzeRequestBody)
            \union Under(
                "core_rule_set",
                flatten_WafProfile_CoreRuleSet)
            \union Under(
                "exclusion_rule",
                flattenWafExclusionRuleSlice)
            \union Under("rule", flattenWafRuleSlice))
SwsWafProfileUpdate ==
    Planned(
        <<Patch(
              {"description", "labels", "name"}
                  \union Under(
                      "analyze_request_body",
                      expandWafProfileAnalyzeRequestBody_)
                  \union Under(
                      "core_rule_set",
                      expandWafProfileCoreRuleSet_)
                  \union Under(
                      "exclusion_rule",
                      expandWafProfileExclusionRulesSlice_)
                  \union Under("rule", expandWafProfileRulesSlice_))>>)
SwsWafProfileDelete == Tolerant
SwsWafProfile ==
    Resource(SwsWafProfileArguments, SwsWafProfileCreate, SwsWafProfileRead,
             SwsWafProfileUpdate, SwsWafProfileDelete)

ServerlessRows ==
    [ApiGateway |-> ApiGateway, AuditTrailsTrail |-> AuditTrailsTrail,
     BackupPolicy |-> BackupPolicy, BackupPolicyBindings |-> BackupPolicyBindings,
     ContainerRegistry |-> ContainerRegistry, ContainerRepository |-> ContainerRepository,
     ContainerRepositoryLifecyclePolicy |-> ContainerRepositoryLifecyclePolicy,
     FunctionScalingPolicy |-> FunctionScalingPolicy, FunctionTrigger |-> FunctionTrigger,
     IotCoreBroker |-> IotCoreBroker, IotCoreDevice |-> IotCoreDevice,
     IotCoreRegistry |-> IotCoreRegistry, KubernetesCluster |-> KubernetesCluster,
     KubernetesNodeGroup |-> KubernetesNodeGroup, LoadtestingAgent |-> LoadtestingAgent,
     MonitoringDashboard |-> MonitoringDashboard, EventrouterBus |-> EventrouterBus,
     EventrouterConnector |-> EventrouterConnector, EventrouterRule |-> EventrouterRule,
     SmartcaptchaCaptcha |-> SmartcaptchaCaptcha,
     SwsAdvancedRateLimiterProfile |-> SwsAdvancedRateLimiterProfile,
     SwsSecurityProfile |-> SwsSecurityProfile, SwsWafProfile |-> SwsWafProfile]
=============================================================================
