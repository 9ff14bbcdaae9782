--------------------------- MODULE RequestLimits ----------------------------
(***************************************************************************)
(* The nested arguments of the SmartCaptcha and rate limiter resources,    *)
(* what the expand functions put into a request, for Create and (the names *)
(* that end in _) for Update, and what the flatten functions take from an  *)
(* answer.                                                                 *)
(***************************************************************************)
EXTENDS ResourceRow

(* What the conditions of all the rules are made of.                       *)
StringMatcher ==
    {"exact_match", "exact_not_match", "pire_regex_match", "pire_regex_not_match",
     "prefix_match", "prefix_not_match"}
HeaderMatcher == {"name"} \union Under("value", StringMatcher)
IpMatcher ==
    {"geo_ip_match.locations", "geo_ip_not_match.locations", "ip_ranges_match.ip_ranges",
     "ip_ranges_not_match.ip_ranges"}
UriMatcher ==
    Under("path", StringMatcher)
    \union Under("queries", {"key"} \union Under("value", StringMatcher))

(* yandex_smartcaptcha_captcha                                             *)
CaptchaOverrideVariantArguments ==
    {"challenge_type", "complexity", "description", "pre_check_type", "uuid"}
CaptchaSecurityRuleConditionHeadersArguments == HeaderMatcher
CaptchaSecurityRuleConditionHostArguments == Under("hosts", StringMatcher)
CaptchaSecurityRuleConditionSourceIpArguments == IpMatcher
CaptchaSecurityRuleConditionUriArguments == UriMatcher
CaptchaSecurityRuleConditionArguments ==
    Under("headers", CaptchaSecurityRuleConditionHeadersArguments)
    \union Under("host", CaptchaSecurityRuleConditionHostArguments)
    \union Under("source_ip", CaptchaSecurityRuleConditionSourceIpArguments)
    \union Under("uri", CaptchaSecurityRuleConditionUriArguments)
CaptchaSecurityRuleArguments ==
    {"description", "name", "override_variant_uuid", "priority"}
    \union Under("condition", CaptchaSecurityRuleConditionArguments)
expandCaptchaSecurityRulesConditionHost == CaptchaSecurityRuleConditionHostArguments
expandCaptchaSecurityRulesConditionUri == UriMatcher
expandCaptchaSecurityRulesConditionHeadersSlice == HeaderMatcher
expandCaptchaSecurityRulesConditionSourceIp == IpMatcher
expandCaptchaSecurityRulesCondition ==
    Under("host", expandCaptchaSecurityRulesConditionHost)
    \union Under("uri", expandCaptchaSecurityRulesConditionUri)
    \union Under("headers", expandCaptchaSecurityRulesConditionHeadersSlice)
    \union Under("source_ip", expandCaptchaSecurityRulesConditionSourceIp)
expandCaptchaSecurityRules ==
    {"name", "priority", "description", "override_variant_uuid"}
    \union Under("condition", expandCaptchaSecurityRulesCondition)
expandCaptchaSecurityRulesSlice == expandCaptchaSecurityRules
expandCaptchaOverrideVariantsSlice == CaptchaOverrideVariantArguments
flattenCaptchaCondition_headersSlice == HeaderMatcher
flattenCaptcha_Condition_HostMatcher == CaptchaSecurityRuleConditionHostArguments
flattenCaptcha_Condition_IpMatcher == IpMatcher
flattenCaptcha_Condition_StringMatcher == StringMatcher
flattenCaptcha_Condition_QueryMatcher ==
    {"key"}
    \union Under("value", flattenCaptcha_Condition_StringMatcher)
flattenCaptchaCondition_uriqueriesSlice == flattenCaptcha_Condition_QueryMatcher
flattenCaptcha_Condition_UriMatcher ==
    Under("path", flattenCaptcha_Condition_StringMatcher)
    \union Under("queries", flattenCaptchaCondition_uriqueriesSlice)
flattenCaptcha_Condition ==
    Under("headers", flattenCaptchaCondition_headersSlice)
    \union Under("host", flattenCaptcha_Condition_HostMatcher)
    \union Under("source_ip", flattenCaptcha_Condition_IpMatcher)
    \union Under("uri", flattenCaptcha_Condition_UriMatcher)
flattenCaptcha_SecurityRule ==
    {"description", "name", "override_variant_uuid", "priority"}
    \union Under("condition", flattenCaptcha_Condition)
flattenSmartcaptchaSecurityRuleSlice == flattenCaptcha_SecurityRule
flattenSmartcaptchaOverrideVariantSlice == CaptchaOverrideVariantArguments
expandCaptchaSecurityRulesConditionHost_ == CaptchaSecurityRuleConditionHostArguments
expandCaptchaSecurityRulesConditionUri_ == UriMatcher
expandCaptchaSecurityRulesConditionHeadersSlice_ == HeaderMatcher
expandCaptchaSecurityRulesConditionSourceIp_ == IpMatcher
expandCaptchaSecurityRulesCondition_ ==
    Under("host", expandCaptchaSecurityRulesConditionHost_)
    \union Under("uri", expandCaptchaSecurityRulesConditionUri_)
    \union Under("headers", expandCaptchaSecurityRulesConditionHeadersSlice_)
    \union Under("source_ip", expandCaptchaSecurityRulesConditionSourceIp_)
expandCaptchaSecurityRules_ ==
    {"name", "priority", "description", "override_variant_uuid"}
    \union Under("condition", expandCaptchaSecurityRulesCondition_)
expandCaptchaSecurityRulesSlice_ == expandCaptchaSecurityRules_
expandCaptchaOverrideVariantsSlice_ == CaptchaOverrideVariantArguments

(* yandex_sws_advanced_rate_limiter_profile                                *)
RateLimiterRuleDynamicQuotaCharacteristicArguments ==
    {"case_insensitive", "key_characteristic.type", "key_characteristic.value",
     "simple_characteristic.type"}
RateLimiterRuleDynamicQuotaConditionAuthorityArguments ==
    Under("authorities", StringMatcher)
RateLimiterRuleDynamicQuotaConditionHeadersArguments == HeaderMatcher
RateLimiterRuleDynamicQuotaConditionHttpMethodArguments ==
    Under("http_methods", StringMatcher)
RateLimiterRuleDynamicQuotaConditionRequestUriArguments == UriMatcher
RateLimiterRuleDynamicQuotaConditionSourceIpArguments == IpMatcher
RateLimiterRuleDynamicQuotaConditionArguments ==
    Under("authority", RateLimiterRuleDynamicQuotaConditionAuthorityArguments)
    \union Under("headers", RateLimiterRuleDynamicQuotaConditionHeadersArguments)
    \union Under("http_method", RateLimiterRuleDynamicQuotaConditionHttpMethodArguments)
    \union Under("request_uri", RateLimiterRuleDynamicQuotaConditionRequestUriArguments)
    \union Under("source_ip", RateLimiterRuleDynamicQuotaConditionSourceIpArguments)
RateLimiterRuleDynamicQuotaArguments ==
    {"action", "limit", "period"}
    \union Under("characteristic", RateLimiterRuleDynamicQuotaCharacteristicArguments)
    \union Under("condition", RateLimiterRuleDynamicQuotaConditionArguments)
RateLimiterRuleStaticQuotaConditionAuthorityArguments ==
    RateLimiterRuleDynamicQuotaConditionAuthorityArguments
RateLimiterRuleStaticQuotaConditionHeadersArguments == HeaderMatcher
RateLimiterRuleStaticQuotaConditionHttpMethodArguments ==
    RateLimiterRuleDynamicQuotaConditionHttpMethodArguments
RateLimiterRuleStaticQuotaConditionRequestUriArguments == UriMatcher
RateLimiterRuleStaticQuotaConditionSourceIpArguments == IpMatcher
RateLimiterRuleStaticQuotaConditionArguments ==
    Under("authority", RateLimiterRuleStaticQuotaConditionAuthorityArguments)
    \union Under("headers", RateLimiterRuleStaticQuotaConditionHeadersArguments)
    \union Under("http_method", RateLimiterRuleStaticQuotaConditionHttpMethodArguments)
    \union Under("request_uri", RateLimiterRuleStaticQuotaConditionRequestUriArguments)
    \union Under("source_ip", RateLimiterRuleStaticQuotaConditionSourceIpArguments)
RateLimiterRuleStaticQuotaArguments ==
    {"action", "limit", "period"}
    \union Under("condition", RateLimiterRuleStaticQuotaConditionArguments)
RateLimiterRuleArguments ==
    {"description", "dry_run", "name", "priority"}
    \union Under("dynamic_quota", RateLimiterRuleDynamicQuotaArguments)
    \union Under("static_quota", RateLimiterRuleStaticQuotaArguments)
expandRateLimiterRulesStaticQuotaConditionAuthority ==
    RateLimiterRuleDynamicQuotaConditionAuthorityArguments
expandRateLimiterRulesStaticQuotaConditionHttpMethod ==
    RateLimiterRuleDynamicQuotaConditionHttpMethodArguments
expandRateLimiterRulesStaticQuotaConditionRequestUri == UriMatcher
expandRateLimiterRulesStaticQuotaConditionHeadersSlice == HeaderMatcher
expandRateLimiterRulesStaticQuotaConditionSourceIp == IpMatcher
expandRateLimiterRulesStaticQuotaCondition ==
    Under("authority", expandRateLimiterRulesStaticQuotaConditionAuthority)
    \union Under("http_method", expandRateLimiterRulesStaticQuotaConditionHttpMethod)
    \union Under("request_uri", expandRateLimiterRulesStaticQuotaConditionRequestUri)
    \union Under("headers", expandRateLimiterRulesStaticQuotaConditionHeadersSlice)
    \union Under("source_ip", expandRateLimiterRulesStaticQuotaConditionSourceIp)
expandRateLimiterRulesStaticQuota ==
    {"action", "limit", "period"}
    \union Under("condition", expandRateLimiterRulesStaticQuotaCondition)
expandRateLimiterRulesDynamicQuotaConditionAuthority ==
    RateLimiterRuleDynamicQuotaConditionAuthorityArguments
expandRateLimiterRulesDynamicQuotaConditionHttpMethod ==
    RateLimiterRuleDynamicQuotaConditionHttpMethodArguments
expandRateLimiterRulesDynamicQuotaConditionRequestUri == UriMatcher
expandRateLimiterRulesDynamicQuotaConditionHeadersSlice == HeaderMatcher
expandRateLimiterRulesDynamicQuotaConditionSourceIp == IpMatcher
expandRateLimiterRulesDynamicQuotaCondition ==
    Under("authority", expandRateLimiterRulesDynamicQuotaConditionAuthority)
    \union Under("http_method", expandRateLimiterRulesDynamicQuotaConditionHttpMethod)
    \union Under("request_uri", expandRateLimiterRulesDynamicQuotaConditionRequestUri)
    \union Under("headers", expandRateLimiterRulesDynamicQuotaConditionHeadersSlice)
    \union Under("source_ip", expandRateLimiterRulesDynamicQuotaConditionSourceIp)
expandRateLimiterRulesDynamicQuotaCharacteristicsSlice ==
    RateLimiterRuleDynamicQuotaCharacteristicArguments
expandRateLimiterRulesDynamicQuota ==
    {"action", "limit", "period"}
    \union Under("condition", expandRateLimiterRulesDynamicQuotaCondition)
    \union Under("characteristic", expandRateLimiterRulesDynamicQuotaCharacteristicsSlice)
expandRateLimiterRules ==
    {"name", "priority", "description", "dry_run"}
    \union Under("static_quota", expandRateLimiterRulesStaticQuota)
    \union Under("dynamic_quota", expandRateLimiterRulesDynamicQuota)
expandRateLimiterRulesSlice == expandRateLimiterRules
flattenRateLimiterRuledynamicQuotacharacteristicSlice ==
    RateLimiterRuleDynamicQuotaCharacteristicArguments
flatten_Condition_AuthorityMatcher == RateLimiterRuleDynamicQuotaConditionAuthorityArguments
flattenCondition_headersSlice == HeaderMatcher
flatten_Condition_HttpMethodMatcher ==
    RateLimiterRuleDynamicQuotaConditionHttpMethodArguments
flatten_Condition_RequestUriMatcher == UriMatcher
flatten_Condition_IpMatcher == IpMatcher
flatten_Condition ==
    Under("authority", flatten_Condition_AuthorityMatcher)
    \union Under("headers", flattenCondition_headersSlice)
    \union Under("http_method", flatten_Condition_HttpMethodMatcher)
    \union Under("request_uri", flatten_Condition_RequestUriMatcher)
    \union Under("source_ip", flatten_Condition_IpMatcher)
flattenRateLimiterRule_DynamicQuota ==
    {"action", "limit", "period"}
    \union Under("characteristic", flattenRateLimiterRuledynamicQuotacharacteristicSlice)
    \union Under("condition", flatten_Condition)
flattenRateLimiterRule_StaticQuota ==
    {"action", "limit", "period"}
    \union Under("condition", flatten_Condition)
flattenRateLimiterRule ==
    {"description", "dry_run", "name", "priority"}
    \union Under("dynamic_quota", flattenRateLimiterRule_DynamicQuota)
    \union Under("static_quota", flattenRateLimiterRule_StaticQuota)
flattenRateLimiterRuleSlice == flattenRateLimiterRule
expandRateLimiterRulesStaticQuotaConditionAuthority_ ==
    RateLimiterRuleDynamicQuotaConditionAuthorityArguments
expandRateLimiterRulesStaticQuotaConditionHttpMethod_ ==
    RateLimiterRuleDynamicQuotaConditionHttpMethodArguments
expandRateLimiterRulesStaticQuotaConditionRequestUri_ == UriMatcher
expandRateLimiterRulesStaticQuotaConditionHeadersSlice_ == HeaderMatcher
expandRateLimiterRulesStaticQuotaConditionSourceIp_ == IpMatcher
expandRateLimiterRulesStaticQuotaCondition_ ==
    Under("authority", expandRateLimiterRulesStaticQuotaConditionAuthority_)
    \union Under("http_method", expandRateLimiterRulesStaticQuotaConditionHttpMethod_)
    \union Under("request_uri", expandRateLimiterRulesStaticQuotaConditionRequestUri_)
    \union Under("headers", expandRateLimiterRulesStaticQuotaConditionHeadersSlice_)
    \union Under("source_ip", expandRateLimiterRulesStaticQuotaConditionSourceIp_)
expandRateLimiterRulesStaticQuota_ ==
    {"action", "limit", "period"}
    \union Under("condition", expandRateLimiterRulesStaticQuotaCondition_)
expandRateLimiterRulesDynamicQuotaConditionAuthority_ ==
    RateLimiterRuleDynamicQuotaConditionAuthorityArguments
expandRateLimiterRulesDynamicQuotaConditionHttpMethod_ ==
    RateLimiterRuleDynamicQuotaConditionHttpMethodArguments
expandRateLimiterRulesDynamicQuotaConditionRequestUri_ == UriMatcher
expandRateLimiterRulesDynamicQuotaConditionHeadersSlice_ == HeaderMatcher
expandRateLimiterRulesDynamicQuotaConditionSourceIp_ == IpMatcher
expandRateLimiterRulesDynamicQuotaCondition_ ==
    Under("authority", expandRateLimiterRulesDynamicQuotaConditionAuthority_)
    \union Under("http_method", expandRateLimiterRulesDynamicQuotaConditionHttpMethod_)
    \union Under("request_uri", expandRateLimiterRulesDynamicQuotaConditionRequestUri_)
    \union Under("headers", expandRateLimiterRulesDynamicQuotaConditionHeadersSlice_)
    \union Under("source_ip", expandRateLimiterRulesDynamicQuotaConditionSourceIp_)
expandRateLimiterRulesDynamicQuotaCharacteristicsSlice_ ==
    RateLimiterRuleDynamicQuotaCharacteristicArguments
expandRateLimiterRulesDynamicQuota_ ==
    {"action", "limit", "period"}
    \union Under("condition", expandRateLimiterRulesDynamicQuotaCondition_)
    \union Under("characteristic", expandRateLimiterRulesDynamicQuotaCharacteristicsSlice_)
expandRateLimiterRules_ ==
    {"name", "priority", "description", "dry_run"}
    \union Under("static_quota", expandRateLimiterRulesStaticQuota_)
    \union Under("dynamic_quota", expandRateLimiterRulesDynamicQuota_)
expandRateLimiterRulesSlice_ == expandRateLimiterRules_
=============================================================================
