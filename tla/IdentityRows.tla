---------------------------- MODULE IdentityRows ----------------------------
(*****************************************************************************)
(* Accounts, keys, organizations, clouds and folders; encryption keys,       *)
(* secrets, certificates and logs                                            *)
(*****************************************************************************)
EXTENDS ResourceRow

IamServiceAccountArguments == Arguments({"folder_id"}, {"name", "description"})
IamServiceAccountCreate == Accepted(All(IamServiceAccountArguments))
IamServiceAccountRead == Reads(All(IamServiceAccountArguments))
IamServiceAccountUpdate == Partial(<<Patch(IamServiceAccountArguments.inPlace)>>)
IamServiceAccountDelete == Tolerant
IamServiceAccount ==
    Resource(IamServiceAccountArguments, IamServiceAccountCreate, IamServiceAccountRead,
             IamServiceAccountUpdate, IamServiceAccountDelete)

(* The deprecated scope is in no call of Update. What the keys put into    *)
(* Lockbox is in LockboxVersions.                                          *)
IamServiceAccountApiKeyArguments ==
    Arguments(
        {"service_account_id", "pgp_key"},
        {"description", "scopes", "scope", "expires_at"})
IamServiceAccountApiKeyCreate == Accepted(All(IamServiceAccountApiKeyArguments))
IamServiceAccountApiKeyRead == Reads(All(IamServiceAccountApiKeyArguments) \ {"pgp_key"})
IamServiceAccountApiKeyUpdate ==
    Partial(<<Patch(IamServiceAccountApiKeyArguments.inPlace \ {"scope"})>>)
IamServiceAccountApiKeyDelete == Tolerant
IamServiceAccountApiKey ==
    Resource(IamServiceAccountApiKeyArguments, IamServiceAccountApiKeyCreate,
             IamServiceAccountApiKeyRead, IamServiceAccountApiKeyUpdate,
             IamServiceAccountApiKeyDelete)

IamServiceAccountKeyArguments ==
    Arguments({"service_account_id", "format", "key_algorithm", "pgp_key"}, {"description"})
IamServiceAccountKeyCreate == Accepted(All(IamServiceAccountKeyArguments))
IamServiceAccountKeyRead ==
    Reads(All(IamServiceAccountKeyArguments) \ {"format", "pgp_key"})
IamServiceAccountKeyUpdate == Planned(<<Patch(IamServiceAccountKeyArguments.inPlace)>>)
IamServiceAccountKeyDelete == Tolerant
IamServiceAccountKey ==
    Resource(IamServiceAccountKeyArguments, IamServiceAccountKeyCreate,
             IamServiceAccountKeyRead, IamServiceAccountKeyUpdate,
             IamServiceAccountKeyDelete)

IamServiceAccountStaticAccessKeyArguments ==
    Arguments({"service_account_id", "description", "pgp_key"}, {})
IamServiceAccountStaticAccessKeyCreate ==
    Accepted(All(IamServiceAccountStaticAccessKeyArguments))
IamServiceAccountStaticAccessKeyRead ==
    Reads(All(IamServiceAccountStaticAccessKeyArguments) \ {"pgp_key"})
IamServiceAccountStaticAccessKeyUpdate == Planned(<< >>)
IamServiceAccountStaticAccessKeyDelete == Tolerant
IamServiceAccountStaticAccessKey ==
    Resource(IamServiceAccountStaticAccessKeyArguments,
             IamServiceAccountStaticAccessKeyCreate, IamServiceAccountStaticAccessKeyRead,
             IamServiceAccountStaticAccessKeyUpdate, IamServiceAccountStaticAccessKeyDelete)

IamFederatedCredentialArguments ==
    Arguments({"federation_id", "service_account_id", "external_subject_id"}, {})
IamFederatedCredentialCreate == Accepted(All(IamFederatedCredentialArguments))
IamFederatedCredentialRead == ReadsExisting(All(IamFederatedCredentialArguments))
IamFederatedCredentialDelete == Exacting
IamFederatedCredential ==
    Resource(IamFederatedCredentialArguments, IamFederatedCredentialCreate,
             IamFederatedCredentialRead, NoUpdate, IamFederatedCredentialDelete)

IamOidcFederationArguments ==
    Arguments(
        {"folder_id", "issuer"},
        {"name", "description", "disabled", "audiences", "jwks_url", "labels"})
IamOidcFederationCreate == Accepted(All(IamOidcFederationArguments))
IamOidcFederationRead == ReadsExisting(All(IamOidcFederationArguments) \ {"disabled"})
IamOidcFederationUpdate == Partial(<<Patch(IamOidcFederationArguments.inPlace)>>)
IamOidcFederationDelete == Exacting
IamOidcFederation ==
    Resource(IamOidcFederationArguments, IamOidcFederationCreate, IamOidcFederationRead,
             IamOidcFederationUpdate, IamOidcFederationDelete)

KmsSymmetricKeyArguments ==
    Arguments(
        {"folder_id"},
        {"name", "description", "labels", "default_algorithm", "deletion_protection",
         "rotation_period"})
KmsSymmetricKeyCreate == Accepted(All(KmsSymmetricKeyArguments))
KmsSymmetricKeyRead == Reads(All(KmsSymmetricKeyArguments))
KmsSymmetricKeyUpdate == Partial(<<Patch(KmsSymmetricKeyArguments.inPlace)>>)
KmsSymmetricKeyDelete == Tolerant
KmsSymmetricKey ==
    Resource(KmsSymmetricKeyArguments, KmsSymmetricKeyCreate, KmsSymmetricKeyRead,
             KmsSymmetricKeyUpdate, KmsSymmetricKeyDelete)

(* A change of the algorithm is in no call.                                *)
KmsAsymmetricEncryptionKeyArguments ==
    Arguments(
        {"folder_id"},
        {"name", "description", "labels", "encryption_algorithm", "deletion_protection"})
KmsAsymmetricEncryptionKeyCreate == Accepted(All(KmsAsymmetricEncryptionKeyArguments))
KmsAsymmetricEncryptionKeyRead == Reads(All(KmsAsymmetricEncryptionKeyArguments))
KmsAsymmetricEncryptionKeyUpdate ==
    Partial(
        <<Patch(KmsAsymmetricEncryptionKeyArguments.inPlace \ {"encryption_algorithm"})>>)
KmsAsymmetricEncryptionKeyDelete == Tolerant
KmsAsymmetricEncryptionKey ==
    Resource(KmsAsymmetricEncryptionKeyArguments, KmsAsymmetricEncryptionKeyCreate,
             KmsAsymmetricEncryptionKeyRead, KmsAsymmetricEncryptionKeyUpdate,
             KmsAsymmetricEncryptionKeyDelete)

(* A change of the algorithm is in no call.                                *)
KmsAsymmetricSignatureKeyArguments ==
    Arguments(
        {"folder_id"},
        {"name", "description", "labels", "signature_algorithm", "deletion_protection"})
KmsAsymmetricSignatureKeyCreate == Accepted(All(KmsAsymmetricSignatureKeyArguments))
KmsAsymmetricSignatureKeyRead == Reads(All(KmsAsymmetricSignatureKeyArguments))
KmsAsymmetricSignatureKeyUpdate ==
    Partial(<<Patch(KmsAsymmetricSignatureKeyArguments.inPlace \ {"signature_algorithm"})>>)
KmsAsymmetricSignatureKeyDelete == Tolerant
KmsAsymmetricSignatureKey ==
    Resource(KmsAsymmetricSignatureKeyArguments, KmsAsymmetricSignatureKeyCreate,
             KmsAsymmetricSignatureKeyRead, KmsAsymmetricSignatureKeyUpdate,
             KmsAsymmetricSignatureKeyDelete)

(* The cipher text is kept nowhere but in the state: there is no object    *)
(* but the key.                                                            *)
KmsSecretCiphertextArguments == Arguments({"key_id", "aad_context", "plaintext"}, {})
KmsSecretCiphertextCreate == Adopted(All(KmsSecretCiphertextArguments))
KmsSecretCiphertextRead == Reads({})
KmsSecretCiphertextDelete == Forgetful
KmsSecretCiphertext ==
    Resource(KmsSecretCiphertextArguments, KmsSecretCiphertextCreate,
             KmsSecretCiphertextRead, NoUpdate, KmsSecretCiphertextDelete)

LockboxSecretArguments ==
    Arguments(
        {"folder_id", "kms_key_id"},
        {"deletion_protection", "description", "labels", "name",
         "password_payload_specification"})
LockboxSecretCreate == Accepted(All(LockboxSecretArguments))
LockboxSecretRead == Reads(All(LockboxSecretArguments))
LockboxSecretUpdate == Planned(<<Patch(LockboxSecretArguments.inPlace)>>)
LockboxSecretDelete == Tolerant
LockboxSecret ==
    Resource(LockboxSecretArguments, LockboxSecretCreate, LockboxSecretRead,
             LockboxSecretUpdate, LockboxSecretDelete)

(* Delete schedules the destruction of the version.                        *)
LockboxSecretVersionArguments == Arguments({"entries", "secret_id", "description"}, {})
LockboxSecretVersionCreate == Accepted(All(LockboxSecretVersionArguments))
LockboxSecretVersionRead == Reads({})
LockboxSecretVersionDelete == Exacting
LockboxSecretVersion ==
    Resource(LockboxSecretVersionArguments, LockboxSecretVersionCreate,
             LockboxSecretVersionRead, NoUpdate, LockboxSecretVersionDelete)

(* The state has hashes of the values; Create, Read and Delete are those   *)
(* of LockboxSecretVersion.                                                *)
LockboxSecretVersionHashedArguments ==
    Arguments({"secret_id", "description", "keys", "text_values"}, {})
LockboxSecretVersionHashedCreate == Accepted(All(LockboxSecretVersionHashedArguments))
LockboxSecretVersionHashedRead == Reads({})
LockboxSecretVersionHashedDelete == Exacting
LockboxSecretVersionHashed ==
    Resource(LockboxSecretVersionHashedArguments, LockboxSecretVersionHashedCreate,
             LockboxSecretVersionHashedRead, NoUpdate, LockboxSecretVersionHashedDelete)

LoggingGroupArguments ==
    Arguments(
        {"folder_id"},
        {"name", "retention_period", "description", "data_stream", "labels"})
LoggingGroupCreate == Accepted(All(LoggingGroupArguments))
LoggingGroupRead == Reads(All(LoggingGroupArguments))
LoggingGroupUpdate == Partial(<<Patch(LoggingGroupArguments.inPlace)>>)
LoggingGroupDelete == Tolerant
LoggingGroup ==
    Resource(LoggingGroupArguments, LoggingGroupCreate, LoggingGroupRead,
             LoggingGroupUpdate, LoggingGroupDelete)

(* The managed block is in no call of Update and not read back.            *)
CmCertificateArguments ==
    Arguments(
        {"folder_id", "domains"},
        {"name", "description", "labels", "deletion_protection", "self_managed", "managed"})
CmCertificateCreate == Accepted(All(CmCertificateArguments))
CmCertificateRead ==
    ReadsExisting(All(CmCertificateArguments) \ {"domains", "self_managed", "managed"})
CmCertificateUpdate == Partial(<<Patch(CmCertificateArguments.inPlace \ {"managed"})>>)
CmCertificateDelete == Tolerant
CmCertificate ==
    Resource(CmCertificateArguments, CmCertificateCreate, CmCertificateRead,
             CmCertificateUpdate, CmCertificateDelete)

OrgGroupArguments == Arguments({"organization_id"}, {"name", "description"})
OrgGroupCreate == Accepted(All(OrgGroupArguments))
OrgGroupRead == Reads(All(OrgGroupArguments))
OrgGroupUpdate == Strict(Planned(<<Patch(OrgGroupArguments.inPlace)>>))
OrgGroupDelete == Tolerant
OrgGroup ==
    Resource(OrgGroupArguments, OrgGroupCreate, OrgGroupRead, OrgGroupUpdate,
             OrgGroupDelete)

(* The mapping of another federation is never asked for: federation_id is  *)
(* neither an argument that replaces nor in the mask.                      *)
OrgGroupMappingArguments == Arguments({}, {"enabled", "federation_id"})
OrgGroupMappingCreate == Accepted(All(OrgGroupMappingArguments))
OrgGroupMappingRead == Reads(All(OrgGroupMappingArguments))
OrgGroupMappingUpdate == Planned(<<Patch({"enabled"})>>)
OrgGroupMappingDelete == Tolerant
OrgGroupMapping ==
    Resource(OrgGroupMappingArguments, OrgGroupMappingCreate, OrgGroupMappingRead,
             OrgGroupMappingUpdate, OrgGroupMappingDelete)

OrgGroupMappingItemArguments ==
    Arguments({"federation_id", "internal_group_id", "external_group_id"}, {})
OrgGroupMappingItemCreate == Done(All(OrgGroupMappingItemArguments))
OrgGroupMappingItemRead == Reads({})
OrgGroupMappingItemDelete == Exacting
OrgGroupMappingItem ==
    Resource(OrgGroupMappingItemArguments, OrgGroupMappingItemCreate,
             OrgGroupMappingItemRead, NoUpdate, OrgGroupMappingItemDelete)

(* The settings of the organization are there before and after. Create is  *)
(* Update; another organization alone is an error.                         *)
OrgOsLoginSettingsArguments ==
    Arguments({}, {"organization_id", "user_ssh_key_settings", "ssh_certificate_settings"})
OrgOsLoginSettingsCreate == Adopted(All(OrgOsLoginSettingsArguments))
OrgOsLoginSettingsRead == Reads(All(OrgOsLoginSettingsArguments) \ {"organization_id"})
OrgOsLoginSettingsUpdate ==
    Strict(Planned(<<Patch(OrgOsLoginSettingsArguments.inPlace \ {"organization_id"})>>))
OrgOsLoginSettingsDelete == Forgetful
OrgOsLoginSettings ==
    Resource(OrgOsLoginSettingsArguments, OrgOsLoginSettingsCreate, OrgOsLoginSettingsRead,
             OrgOsLoginSettingsUpdate, OrgOsLoginSettingsDelete)

(* The table of the mask has no path for labels.                           *)
OrgSamlFederationArguments ==
    Arguments(
        {"organization_id"},
        {"name", "description", "labels", "issuer", "sso_binding", "sso_url",
         "cookie_max_age", "auto_create_account_on_login", "case_insensitive_name_ids",
         "security_settings"})
OrgSamlFederationCreate == Accepted(All(OrgSamlFederationArguments))
OrgSamlFederationRead == Reads(All(OrgSamlFederationArguments))
OrgSamlFederationUpdate ==
    Strict(
        Planned(
            <<PatchOn(
                  OrgSamlFederationArguments.inPlace \ {"labels"},
                  OrgSamlFederationArguments.inPlace \ {"labels"})>>))
OrgSamlFederationDelete == Tolerant
OrgSamlFederation ==
    Resource(OrgSamlFederationArguments, OrgSamlFederationCreate, OrgSamlFederationRead,
             OrgSamlFederationUpdate, OrgSamlFederationDelete)

(* The id is set by Read.                                                  *)
OrgSamlFederationUserAccountArguments == Arguments({"federation_id", "name_id"}, {})
OrgSamlFederationUserAccountCreate ==
    Creates("saved", <<All(OrgSamlFederationUserAccountArguments)>>)
OrgSamlFederationUserAccountRead == ReadsExisting({})
OrgSamlFederationUserAccountDelete == Exacting
OrgSamlFederationUserAccount ==
    Resource(OrgSamlFederationUserAccountArguments, OrgSamlFederationUserAccountCreate,
             OrgSamlFederationUserAccountRead, NoUpdate, OrgSamlFederationUserAccountDelete)

OrgUserSshKeyArguments ==
    Arguments({"subject_id", "data", "organization_id"}, {"name", "expires_at"})
OrgUserSshKeyCreate == Done(All(OrgUserSshKeyArguments))
OrgUserSshKeyRead == Reads(All(OrgUserSshKeyArguments))
OrgUserSshKeyUpdate == Strict(Planned(<<Patch(OrgUserSshKeyArguments.inPlace)>>))
OrgUserSshKeyDelete == Exacting
OrgUserSshKey ==
    Resource(OrgUserSshKeyArguments, OrgUserSshKeyCreate, OrgUserSshKeyRead,
             OrgUserSshKeyUpdate, OrgUserSshKeyDelete)

ResourceCloudArguments == Arguments({"organization_id"}, {"name", "description", "labels"})
ResourceCloudCreate == Accepted(All(ResourceCloudArguments))
ResourceCloudRead == Reads(All(ResourceCloudArguments))
ResourceCloudUpdate == Strict(Planned(<<Patch(ResourceCloudArguments.inPlace)>>))
ResourceCloudDelete == Tolerant
ResourceCloud ==
    Resource(ResourceCloudArguments, ResourceCloudCreate, ResourceCloudRead,
             ResourceCloudUpdate, ResourceCloudDelete)

ResourceFolderArguments == Arguments({"cloud_id"}, {"name", "description", "labels"})
ResourceFolderCreate == Accepted(All(ResourceFolderArguments))
ResourceFolderRead == Reads(All(ResourceFolderArguments))
ResourceFolderUpdate == Strict(Planned(<<Patch(ResourceFolderArguments.inPlace)>>))
ResourceFolderDelete == Tolerant
ResourceFolder ==
    Resource(ResourceFolderArguments, ResourceFolderCreate, ResourceFolderRead,
             ResourceFolderUpdate, ResourceFolderDelete)

IdentityRows ==
    [IamServiceAccount |-> IamServiceAccount,
     IamServiceAccountApiKey |-> IamServiceAccountApiKey,
     IamServiceAccountKey |-> IamServiceAccountKey,
     IamServiceAccountStaticAccessKey |-> IamServiceAccountStaticAccessKey,
     IamFederatedCredential |-> IamFederatedCredential,
     IamOidcFederation |-> IamOidcFederation, KmsSymmetricKey |-> KmsSymmetricKey,
     KmsAsymmetricEncryptionKey |-> KmsAsymmetricEncryptionKey,
     KmsAsymmetricSignatureKey |-> KmsAsymmetricSignatureKey,
     KmsSecretCiphertext |-> KmsSecretCiphertext, LockboxSecret |-> LockboxSecret,
     LockboxSecretVersion |-> LockboxSecretVersion,
     LockboxSecretVersionHashed |-> LockboxSecretVersionHashed, LoggingGroup |-> LoggingGroup,
     CmCertificate |-> CmCertificate, OrgGroup |-> OrgGroup,
     OrgGroupMapping |-> OrgGroupMapping, OrgGroupMappingItem |-> OrgGroupMappingItem,
     OrgOsLoginSettings |-> OrgOsLoginSettings, OrgSamlFederation |-> OrgSamlFederation,
     OrgSamlFederationUserAccount |-> OrgSamlFederationUserAccount,
     OrgUserSshKey |-> OrgUserSshKey, ResourceCloud |-> ResourceCloud,
     ResourceFolder |-> ResourceFolder]
=============================================================================
