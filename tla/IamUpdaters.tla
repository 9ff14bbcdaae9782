---------------------------- MODULE IamUpdaters ----------------------------
(***************************************************************************)
(* The cloud resources whose access bindings Terraform manages: the types  *)
(* that implement ResourceIamUpdater (yandex/iam_folder.go and its         *)
(* siblings, yandex-framework/services/*_iam_binding).  Module IamAccess   *)
(* models what runs on one cloud resource; this is what it relies on: how  *)
(* an updater talks to the API, under which key it is locked, and which    *)
(* kinds of resources may meet under that key.                             *)
(***************************************************************************)
EXTENDS Naturals

(* An updater reads all pages of ListAccessBindings, replaces the policy   *)
(* by one operation that it waits for, and sends deltas in batches of 1000 *)
(* with an operation each, one after the other.                            *)
BatchSize == 1000
CountBatches(n) == (n + BatchSize - 1) \div BatchSize

(* key: the mutex key without the id; id: the attribute that names the     *)
(* cloud resource; serves: the kinds of resources the provider registers;  *)
(* waits: whose context, cut to a minute, ends the wait for a replacement. *)
Updater(key, id, serves, waits, part) ==
    [key |-> key, id |-> id, serves |-> serves, waits |-> waits, part |-> part]

SdkUpdater(key, id, serves) == Updater(key, id, serves, "handler", "sdk")

(* These wait under the provider's context, so no timeout of the resource  *)
(* shortens the minute.                                                    *)
DetachedUpdater(key, id, serves) == Updater(key, id, serves, "provider", "sdk")

(* pkg/accessbinding: bindings only, under a key map of its own.           *)
FrameworkUpdater(key, id) ==
    Updater(key, id, {"binding"}, "handler", "framework")

CloudIamUpdater == SdkUpdater("iam-cloud", "cloud_id", {"binding", "member"})
CMCertificateIamUpdater ==
    SdkUpdater("iam-cm-certificate", "certificate_id", {"binding", "member"})
ContainerRegistryIamUpdater ==
    SdkUpdater("iam-container-registry", "registry_id", {"binding"})
ContainerRepositoryIamUpdater ==
    SdkUpdater("iam-container-repository", "repository_id", {"binding"})
DnsZoneIamUpdater == SdkUpdater("dns-zone", "dns_zone_id", {"binding"})
FolderIamUpdater ==
    SdkUpdater("iam-folder", "folder_id", {"binding", "member", "policy"})
FunctionIamUpdater == SdkUpdater("iam-function", "function_id", {"binding"})
GroupIamUpdater == SdkUpdater("iam-group", "group_id", {"member"})
KMSAsymmetricEncryptionKeyIamUpdater ==
    SdkUpdater("iam-kms-asymmetric-encryption-key",
        "asymmetric_encryption_key_id",
        {"binding", "member"})
KMSAsymmetricSignatureKeyIamUpdater ==
    SdkUpdater("iam-kms-asymmetric-signature-key",
        "asymmetric_signature_key_id",
        {"binding", "member"})
KMSSymmetricKeyIamUpdater ==
    SdkUpdater("iam-kms-symmetric-key", "symmetric_key_id",
        {"binding", "member"})
LockboxSecretIamUpdater ==
    SdkUpdater("iam-lockbox-secret", "secret_id", {"binding", "member"})
OrganizationIamUpdater ==
    DetachedUpdater("iam-organization", "organization_id",
        {"binding", "member"})
ServerlessContainerIamUpdater ==
    SdkUpdater("iam-container", "container_id", {"binding"})
ServiceAccountIamUpdater ==
    DetachedUpdater("iam-service-account", "service_account_id",
        {"binding", "member", "policy"})
WorkloadIdentityOidcFederationIamUpdater ==
    DetachedUpdater("iam-workload-identity-oidc-federation", "federation_id",
        {"binding"})
YDBDatabaseIamUpdater ==
    SdkUpdater("iam-ydb-database", "database_id", {"binding"})
ComputeDiskIamUpdater == FrameworkUpdater("iam-compute-disk", "disk_id")
ComputeDiskPlacementGroupIamUpdater ==
    FrameworkUpdater("iam-compute-diskplacements", "disk_placement_group_id")
ComputeFilesystemIamUpdater ==
    FrameworkUpdater("iam-compute-filesystem", "filesystem_id")
ComputeGpuClusterIamUpdater ==
    FrameworkUpdater("iam-compute-gpucluster", "gpu_cluster_id")
ComputeImageIamUpdater ==
    FrameworkUpdater("iam-compute-imageGroup", "image_id")
ComputeInstanceIamUpdater ==
    FrameworkUpdater("iam-compute-instance", "instance_id")
ComputePlacementGroupIamUpdater ==
    FrameworkUpdater("iam-compute-placement", "placement_group_id")
ComputeSnapshotIamUpdater ==
    FrameworkUpdater("iam-compute-snapshots", "snapshot_id")
ComputeSnapshotScheduleIamUpdater ==
    FrameworkUpdater("iam-compute-snapshotschedule", "snapshot_schedule_id")
DatasphereCommunityIamUpdater ==
    FrameworkUpdater("iam-datasphere-community", "community_id")
DatasphereProjectIamUpdater ==
    FrameworkUpdater("iam-datasphere-project", "project_id")

Updaters ==
    {CloudIamUpdater, CMCertificateIamUpdater, ContainerRegistryIamUpdater,
     ContainerRepositoryIamUpdater, DnsZoneIamUpdater, FolderIamUpdater,
     FunctionIamUpdater, GroupIamUpdater,
     KMSAsymmetricEncryptionKeyIamUpdater,
     KMSAsymmetricSignatureKeyIamUpdater, KMSSymmetricKeyIamUpdater,
     LockboxSecretIamUpdater, OrganizationIamUpdater,
     ServerlessContainerIamUpdater, ServiceAccountIamUpdater,
     WorkloadIdentityOidcFederationIamUpdater, YDBDatabaseIamUpdater,
     ComputeDiskIamUpdater, ComputeDiskPlacementGroupIamUpdater,
     ComputeFilesystemIamUpdater, ComputeGpuClusterIamUpdater,
     ComputeImageIamUpdater, ComputeInstanceIamUpdater,
     ComputePlacementGroupIamUpdater, ComputeSnapshotIamUpdater,
     ComputeSnapshotScheduleIamUpdater, DatasphereCommunityIamUpdater,
     DatasphereProjectIamUpdater}

(* One lock a cloud resource: no two updaters share a key, nor do both     *)
(* providers serve a cloud resource, whose key maps know nothing of each   *)
(* other.  The account resource locks the key of the cloud (utils.go:130). *)
LockOfAccounts == CloudIamUpdater.key

ASSUME OneLockEach ==
    /\ \A u, w \in Updaters : u.key = w.key \/ u.id = w.id => u = w
    /\ \A u \in Updaters : u.part = "framework" => u.serves = {"binding"}
    /\ \A u \in Updaters : u.key = LockOfAccounts => "policy" \notin u.serves
=============================================================================
