-------------------------- MODULE SecurityProfiles --------------------------
(***************************************************************************)
(* The nested arguments of the Smart Web Security profiles, as in          *)
(* RequestLimits.                                                          *)
(***************************************************************************)
EXTENDS RequestLimits

(* yandex_sws_waf_profile                                                  *)
WafAnalyzeRequestBodyArguments == {"is_enabled", "size_limit", "size_limit_action"}
WafCoreRuleSetArguments ==
    {"inbound_anomaly_score", "paranoia_level", "rule_set.name", "rule_set.version"}
WafExclusionRuleConditionAuthorityArguments ==
    RateLimiterRuleDynamicQuotaConditionAuthorityArguments
WafExclusionRuleConditionHeadersArguments == HeaderMatcher
WafExclusionRuleConditionHttpMethodArguments ==
    RateLimiterRuleDynamicQuotaConditionHttpMethodArguments
WafExclusionRuleConditionRequestUriArguments == UriMatcher
WafExclusionRuleConditionSourceIpArguments == IpMatcher
WafExclusionRuleConditionArguments ==
    Under("authority", WafExclusionRuleConditionAuthorityArguments)
    \union Under("headers", WafExclusionRuleConditionHeadersArguments)
    \union Under("http_method", WafExclusionRuleConditionHttpMethodArguments)
    \union Under("request_uri", WafExclusionRuleConditionRequestUriArguments)
    \union Under("source_ip", WafExclusionRuleConditionSourceIpArguments)
WafExclusionRuleExcludeRulesArguments == {"exclude_all", "rule_ids"}
WafExclusionRuleArguments ==
    {"description", "log_excluded", "name"}
    \union Under("condition", WafExclusionRuleConditionArguments)
    \union Under("exclude_rules", WafExclusionRuleExcludeRulesArguments)
WafRuleArguments == {"is_blocking", "is_enabled", "rule_id"}
expandWafProfileRulesSlice == WafRuleArguments
expandWafProfileExclusionRulesConditionAuthority ==
    RateLimiterRuleDynamicQuotaConditionAuthorityArguments
expandWafProfileExclusionRulesConditionHttpMethod ==
    RateLimiterRuleDynamicQuotaConditionHttpMethodArguments
expandWafProfileExclusionRulesConditionRequestUri == UriMatcher
expandWafProfileExclusionRulesConditionHeadersSlice == HeaderMatcher
expandWafProfileExclusionRulesConditionSourceIp == IpMatcher
expandWafProfileExclusionRulesCondition ==
    Under("authority", expandWafProfileExclusionRulesConditionAuthority)
    \union Under("http_method", expandWafProfileExclusionRulesConditionHttpMethod)
    \union Under("request_uri", expandWafProfileExclusionRulesConditionRequestUri)
    \union Under("headers", expandWafProfileExclusionRulesConditionHeadersSlice)
    \union Under("source_ip", expandWafProfileExclusionRulesConditionSourceIp)
expandWafProfileExclusionRulesExcludeRules == {"exclude_all", "rule_ids"}
expandWafProfileExclusionRules ==
    {"name", "description", "log_excluded"}
    \union Under("condition", expandWafProfileExclusionRulesCondition)
    \union Under("exclude_rules", expandWafProfileExclusionRulesExcludeRules)
expandWafProfileExclusionRulesSlice == expandWafProfileExclusionRules
expandWafProfileAnalyzeRequestBody == WafAnalyzeRequestBodyArguments
expandWafProfileCoreRuleSet == WafCoreRuleSetArguments
flattenWafRuleSlice == WafRuleArguments
flatten_WafProfileExclusionRule_ExcludeRules == {"exclude_all", "rule_ids"}
flatten_WafProfileExclusionRule ==
    {"description", "log_excluded", "name"}
    \union Under("condition", flatten_Condition)
    \union Under("exclude_rules", flatten_WafProfileExclusionRule_ExcludeRules)
flattenWafExclusionRuleSlice == flatten_WafProfileExclusionRule
flatten_WafProfile_AnalyzeRequestBody == WafAnalyzeRequestBodyArguments
flatten_WafProfile_CoreRuleSet == WafCoreRuleSetArguments
expandWafProfileRulesSlice_ == WafRuleArguments
expandWafProfileExclusionRulesConditionAuthority_ ==
    RateLimiterRuleDynamicQuotaConditionAuthorityArguments
expandWafProfileExclusionRulesConditionHttpMethod_ ==
    RateLimiterRuleDynamicQuotaConditionHttpMethodArguments
expandWafProfileExclusionRulesConditionRequestUri_ == UriMatcher
expandWafProfileExclusionRulesConditionHeadersSlice_ == HeaderMatcher
expandWafProfileExclusionRulesConditionSourceIp_ == IpMatcher
expandWafProfileExclusionRulesCondition_ ==
    Under("authority", expandWafProfileExclusionRulesConditionAuthority_)
    \union Under("http_method", expandWafProfileExclusionRulesConditionHttpMethod_)
    \union Under("request_uri", expandWafProfileExclusionRulesConditionRequestUri_)
    \union Under("headers", expandWafProfileExclusionRulesConditionHeadersSlice_)
    \union Under("source_ip", expandWafProfileExclusionRulesConditionSourceIp_)
expandWafProfileExclusionRulesExcludeRules_ == {"exclude_all", "rule_ids"}
expandWafProfileExclusionRules_ ==
    {"name", "description", "log_excluded"}
    \union Under("condition", expandWafProfileExclusionRulesCondition_)
    \union Under("exclude_rules", expandWafProfileExclusionRulesExcludeRules_)
expandWafProfileExclusionRulesSlice_ == expandWafProfileExclusionRules_
expandWafProfileAnalyzeRequestBody_ == WafAnalyzeRequestBodyArguments
expandWafProfileCoreRuleSet_ == WafCoreRuleSetArguments

(* yandex_sws_security_profile                                             *)
SecurityRuleRuleConditionConditionAuthorityArguments ==
    RateLimiterRuleDynamicQuotaConditionAuthorityArguments
SecurityRuleRuleConditionConditionHeadersArguments == HeaderMatcher
SecurityRuleRuleConditionConditionHttpMethodArguments ==
    RateLimiterRuleDynamicQuotaConditionHttpMethodArguments
SecurityRuleRuleConditionConditionRequestUriArguments == UriMatcher
SecurityRuleRuleConditionConditionSourceIpArguments == IpMatcher
SecurityRuleRuleConditionConditionArguments ==
    Under("authority", SecurityRuleRuleConditionConditionAuthorityArguments)
    \union Under("headers", SecurityRuleRuleConditionConditionHeadersArguments)
    \union Under("http_method", SecurityRuleRuleConditionConditionHttpMethodArguments)
    \union Under("request_uri", SecurityRuleRuleConditionConditionRequestUriArguments)
    \union Under("source_ip", SecurityRuleRuleConditionConditionSourceIpArguments)
SecurityRuleRuleConditionArguments ==
    {"action"}
    \union Under("condition", SecurityRuleRuleConditionConditionArguments)
SecurityRuleSmartProtectionConditionAuthorityArguments ==
    RateLimiterRuleDynamicQuotaConditionAuthorityArguments
SecurityRuleSmartProtectionConditionHeadersArguments == HeaderMatcher
SecurityRuleSmartProtectionConditionHttpMethodArguments ==
    RateLimiterRuleDynamicQuotaConditionHttpMethodArguments
SecurityRuleSmartProtectionConditionRequestUriArguments == UriMatcher
SecurityRuleSmartProtectionConditionSourceIpArguments == IpMatcher
SecurityRuleSmartProtectionConditionArguments ==
    Under("authority", SecurityRuleSmartProtectionConditionAuthorityArguments)
    \union Under("headers", SecurityRuleSmartProtectionConditionHeadersArguments)
    \union Under("http_method", SecurityRuleSmartProtectionConditionHttpMethodArguments)
    \union Under("request_uri", SecurityRuleSmartProtectionConditionRequestUriArguments)
    \union Under("source_ip", SecurityRuleSmartProtectionConditionSourceIpArguments)
SecurityRuleSmartProtectionArguments ==
    {"mode"}
    \union Under("condition", SecurityRuleSmartProtectionConditionArguments)
SecurityRuleWafConditionAuthorityArguments ==
    RateLimiterRuleDynamicQuotaConditionAuthorityArguments
SecurityRuleWafConditionHeadersArguments == HeaderMatcher
SecurityRuleWafConditionHttpMethodArguments ==
    RateLimiterRuleDynamicQuotaConditionHttpMethodArguments
SecurityRuleWafConditionRequestUriArguments == UriMatcher
SecurityRuleWafConditionSourceIpArguments == IpMatcher
SecurityRuleWafConditionArguments ==
    Under("authority", SecurityRuleWafConditionAuthorityArguments)
    \union Under("headers", SecurityRuleWafConditionHeadersArguments)
    \union Under("http_method", SecurityRuleWafConditionHttpMethodArguments)
    \union Under("request_uri", SecurityRuleWafConditionRequestUriArguments)
    \union Under("source_ip", SecurityRuleWafConditionSourceIpArguments)
SecurityRuleWafArguments ==
    {"mode", "waf_profile_id"}
    \union Under("condition", SecurityRuleWafConditionArguments)
SecurityRuleArguments ==
    {"description", "dry_run", "name", "priority"}
    \union Under("rule_condition", SecurityRuleRuleConditionArguments)
    \union Under("smart_protection", SecurityRuleSmartProtectionArguments)
    \union Under("waf", SecurityRuleWafArguments)
expandSecurityRulesRuleConditionConditionAuthority ==
    RateLimiterRuleDynamicQuotaConditionAuthorityArguments
expandSecurityRulesRuleConditionConditionHttpMethod ==
    RateLimiterRuleDynamicQuotaConditionHttpMethodArguments
expandSecurityRulesRuleConditionConditionRequestUri == UriMatcher
expandSecurityRulesRuleConditionConditionHeadersSlice == HeaderMatcher
expandSecurityRulesRuleConditionConditionSourceIp == IpMatcher
expandSecurityRulesRuleConditionCondition ==
    Under("authority", expandSecurityRulesRuleConditionConditionAuthority)
    \union Under("http_method", expandSecurityRulesRuleConditionConditionHttpMethod)
    \union Under("request_uri", expandSecurityRulesRuleConditionConditionRequestUri)
    \union Under("headers", expandSecurityRulesRuleConditionConditionHeadersSlice)
    \union Under("source_ip", expandSecurityRulesRuleConditionConditionSourceIp)
expandSecurityRulesRuleCondition ==
    {"action"}
    \union Under("condition", expandSecurityRulesRuleConditionCondition)
expandSecurityRulesSmartProtectionConditionAuthority ==
    RateLimiterRuleDynamicQuotaConditionAuthorityArguments
expandSecurityRulesSmartProtectionConditionHttpMethod ==
    RateLimiterRuleDynamicQuotaConditionHttpMethodArguments
expandSecurityRulesSmartProtectionConditionRequestUri == UriMatcher
expandSecurityRulesSmartProtectionConditionHeadersSlice == HeaderMatcher
expandSecurityRulesSmartProtectionConditionSourceIp == IpMatcher
expandSecurityRulesSmartProtectionCondition ==
    Under("authority", expandSecurityRulesSmartProtectionConditionAuthority)
    \union Under("http_method", expandSecurityRulesSmartProtectionConditionHttpMethod)
    \union Under("request_uri", expandSecurityRulesSmartProtectionConditionRequestUri)
    \union Under("headers", expandSecurityRulesSmartProtectionConditionHeadersSlice)
    \union Under("source_ip", expandSecurityRulesSmartProtectionConditionSourceIp)
expandSecurityRulesSmartProtection ==
    {"mode"}
    \union Under("condition", expandSecurityRulesSmartProtectionCondition)
expandSecurityRulesWafConditionAuthority ==
    RateLimiterRuleDynamicQuotaConditionAuthorityArguments
expandSecurityRulesWafConditionHttpMethod ==
    RateLimiterRuleDynamicQuotaConditionHttpMethodArguments
expandSecurityRulesWafConditionRequestUri == UriMatcher
expandSecurityRulesWafConditionHeadersSlice == HeaderMatcher
expandSecurityRulesWafConditionSourceIp == IpMatcher
expandSecurityRulesWafCondition ==
    Under("authority", expandSecurityRulesWafConditionAuthority)
    \union Under("http_method", expandSecurityRulesWafConditionHttpMethod)
    \union Under("request_uri", expandSecurityRulesWafConditionRequestUri)
    \union Under("headers", expandSecurityRulesWafConditionHeadersSlice)
    \union Under("source_ip", expandSecurityRulesWafConditionSourceIp)
expandSecurityRulesWaf ==
    {"mode", "waf_profile_id"}
    \union Under("condition", expandSecurityRulesWafCondition)
expandSecurityRules ==
    {"name", "priority", "dry_run", "description"}
    \union Under("rule_condition", expandSecurityRulesRuleCondition)
    \union Under("smart_protection", expandSecurityRulesSmartProtection)
    \union Under("waf", expandSecurityRulesWaf)
expandSecurityRulesSlice == expandSecurityRules
flatten_SecurityRule_RuleCondition ==
    {"action"}
    \union Under("condition", flatten_Condition)
flatten_SecurityRule_SmartProtection ==
    {"mode"}
    \union Under("condition", flatten_Condition)
flatten_SecurityRule_Waf ==
    {"mode", "waf_profile_id"}
    \union Under("condition", flatten_Condition)
flatten_SecurityRule ==
    {"description", "dry_run", "name", "priority"}
    \union Under("rule_condition", flatten_SecurityRule_RuleCondition)
    \union Under("smart_protection", flatten_SecurityRule_SmartProtection)
    \union Under("waf", flatten_SecurityRule_Waf)
flattenSmartwebsecuritySecurityRuleSlice == flatten_SecurityRule
expandSecurityRulesRuleConditionConditionAuthority_ ==
    RateLimiterRuleDynamicQuotaConditionAuthorityArguments
expandSecurityRulesRuleConditionConditionHttpMethod_ ==
    RateLimiterRuleDynamicQuotaConditionHttpMethodArguments
expandSecurityRulesRuleConditionConditionRequestUri_ == UriMatcher
expandSecurityRulesRuleConditionConditionHeadersSlice_ == HeaderMatcher
expandSecurityRulesRuleConditionConditionSourceIp_ == IpMatcher
expandSecurityRulesRuleConditionCondition_ ==
    Under("authority", expandSecurityRulesRuleConditionConditionAuthority_)
    \union Under("http_method", expandSecurityRulesRuleConditionConditionHttpMethod_)
    \union Under("request_uri", expandSecurityRulesRuleConditionConditionRequestUri_)
    \union Under("headers", expandSecurityRulesRuleConditionConditionHeadersSlice_)
    \union Under("source_ip", expandSecurityRulesRuleConditionConditionSourceIp_)
expandSecurityRulesRuleCondition_ ==
    {"action"}
    \union Under("condition", expandSecurityRulesRuleConditionCondition_)
expandSecurityRulesSmartProtectionConditionAuthority_ ==
    RateLimiterRuleDynamicQuotaConditionAuthorityArguments
expandSecurityRulesSmartProtectionConditionHttpMethod_ ==
    RateLimiterRuleDynamicQuotaConditionHttpMethodArguments
expandSecurityRulesSmartProtectionConditionRequestUri_ == UriMatcher
expandSecurityRulesSmartProtectionConditionHeadersSlice_ == HeaderMatcher
expandSecurityRulesSmartProtectionConditionSourceIp_ == IpMatcher
expandSecurityRulesSmartProtectionCondition_ ==
    Under("authority", expandSecurityRulesSmartProtectionConditionAuthority_)
    \union Under("http_method", expandSecurityRulesSmartProtectionConditionHttpMethod_)
    \union Under("request_uri", expandSecurityRulesSmartProtectionConditionRequestUri_)
    \union Under("headers", expandSecurityRulesSmartProtectionConditionHeadersSlice_)
    \union Under("source_ip", expandSecurityRulesSmartProtectionConditionSourceIp_)
expandSecurityRulesSmartProtection_ ==
    {"mode"}
    \union Under("condition", expandSecurityRulesSmartProtectionCondition_)
expandSecurityRulesWafConditionAuthority_ ==
    RateLimiterRuleDynamicQuotaConditionAuthorityArguments
expandSecurityRulesWafConditionHttpMethod_ ==
    RateLimiterRuleDynamicQuotaConditionHttpMethodArguments
expandSecurityRulesWafConditionRequestUri_ == UriMatcher
expandSecurityRulesWafConditionHeadersSlice_ == HeaderMatcher
expandSecurityRulesWafConditionSourceIp_ == IpMatcher
expandSecurityRulesWafCondition_ ==
    Under("authority", expandSecurityRulesWafConditionAuthority_)
    \union Under("http_method", expandSecurityRulesWafConditionHttpMethod_)
    \union Under("request_uri", expandSecurityRulesWafConditionRequestUri_)
    \union Under("headers", expandSecurityRulesWafConditionHeadersSlice_)
    \union Under("source_ip", expandSecurityRulesWafConditionSourceIp_)
expandSecurityRulesWaf_ ==
    {"mode", "waf_profile_id"}
    \union Under("condition", expandSecurityRulesWafCondition_)
expandSecurityRules_ ==
    {"name", "priority", "dry_run", "description"}
    \union Under("rule_condition", expandSecurityRulesRuleCondition_)
    \union Under("smart_protection", expandSecurityRulesSmartProtection_)
    \union Under("waf", expandSecurityRulesWaf_)
expandSecurityRulesSlice_ == expandSecurityRules_
=============================================================================
