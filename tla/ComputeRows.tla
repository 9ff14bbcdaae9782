----------------------------- MODULE ComputeRows -----------------------------
(*****************************************************************************)
(* Disks, images, snapshots, instances, and the groups they are placed in    *)
(*****************************************************************************)
EXTENDS ResourceRow

(* A change of zone is in no call, and the only change, an error.          *)
ComputeDiskPlacementGroupArguments ==
    Arguments({"folder_id"}, {"name", "description", "labels", "zone"})
ComputeDiskPlacementGroupCreate == Accepted(All(ComputeDiskPlacementGroupArguments))
ComputeDiskPlacementGroupRead == Reads(All(ComputeDiskPlacementGroupArguments))
ComputeDiskPlacementGroupUpdate ==
    Strict(Planned(<<Patch({"name", "description", "labels"})>>))
ComputeDiskPlacementGroupDelete == Tolerant
ComputeDiskPlacementGroup ==
    Resource(ComputeDiskPlacementGroupArguments, ComputeDiskPlacementGroupCreate,
             ComputeDiskPlacementGroupRead, ComputeDiskPlacementGroupUpdate,
             ComputeDiskPlacementGroupDelete)

ComputeGpuClusterArguments ==
    Arguments({"folder_id", "interconnect_type", "zone"}, {"name", "description", "labels"})
ComputeGpuClusterCreate == Accepted(All(ComputeGpuClusterArguments))
ComputeGpuClusterRead == Reads(All(ComputeGpuClusterArguments))
ComputeGpuClusterUpdate == Partial(<<Patch(ComputeGpuClusterArguments.inPlace)>>)
ComputeGpuClusterDelete == Tolerant
ComputeGpuCluster ==
    Resource(ComputeGpuClusterArguments, ComputeGpuClusterCreate, ComputeGpuClusterRead,
             ComputeGpuClusterUpdate, ComputeGpuClusterDelete)

(* The strategies are in no call of Update and are not read back: the      *)
(* state takes a change that was never made.                               *)
ComputePlacementGroupArguments ==
    Arguments(
        {"folder_id"},
        {"name", "description", "labels", "placement_strategy_spread",
         "placement_strategy_partitions"})
ComputePlacementGroupCreate == Accepted(All(ComputePlacementGroupArguments))
ComputePlacementGroupRead ==
    Reads(
        All(ComputePlacementGroupArguments)
            \ {"placement_strategy_spread", "placement_strategy_partitions"})
ComputePlacementGroupUpdate == Strict(Planned(<<Patch({"name", "description", "labels"})>>))
ComputePlacementGroupDelete == Tolerant
ComputePlacementGroup ==
    Resource(ComputePlacementGroupArguments, ComputePlacementGroupCreate,
             ComputePlacementGroupRead, ComputePlacementGroupUpdate,
             ComputePlacementGroupDelete)

ComputeFilesystemArguments ==
    Arguments(
        {"folder_id", "type", "zone", "block_size"},
        {"name", "description", "labels", "size"})
ComputeFilesystemCreate == Accepted(All(ComputeFilesystemArguments))
ComputeFilesystemRead == Reads(All(ComputeFilesystemArguments))
ComputeFilesystemUpdate ==
    Partial(<<Patch({"size"}), Patch(ComputeFilesystemArguments.inPlace \ {"size"})>>)
ComputeFilesystemDelete == Tolerant
ComputeFilesystem ==
    Resource(ComputeFilesystemArguments, ComputeFilesystemCreate, ComputeFilesystemRead,
             ComputeFilesystemUpdate, ComputeFilesystemDelete)

ComputeSnapshotArguments ==
    Arguments(
        {"source_disk_id", "folder_id", "hardware_generation"},
        {"name", "description", "labels"})
ComputeSnapshotCreate == Accepted(All(ComputeSnapshotArguments))
ComputeSnapshotRead == Reads(All(ComputeSnapshotArguments))
ComputeSnapshotUpdate ==
    Partial(<<Patch({"labels"}), Patch({"name"}), Patch({"description"})>>)
ComputeSnapshotDelete == Tolerant
ComputeSnapshot ==
    Resource(ComputeSnapshotArguments, ComputeSnapshotCreate, ComputeSnapshotRead,
             ComputeSnapshotUpdate, ComputeSnapshotDelete)

ComputeSnapshotScheduleArguments ==
    Arguments(
        {"folder_id"},
        {"description", "disk_ids", "labels", "name", "retention_period",
         "schedule_policy", "snapshot_count", "snapshot_spec"})
ComputeSnapshotScheduleCreate == Accepted(All(ComputeSnapshotScheduleArguments))
ComputeSnapshotScheduleRead == ReadsExisting(All(ComputeSnapshotScheduleArguments))
ComputeSnapshotScheduleUpdate ==
    Planned(
        <<Patch(ComputeSnapshotScheduleArguments.inPlace \ {"disk_ids"}),
          Patch({"disk_ids"})>>)
ComputeSnapshotScheduleDelete == Exacting
ComputeSnapshotSchedule ==
    Resource(ComputeSnapshotScheduleArguments, ComputeSnapshotScheduleCreate,
             ComputeSnapshotScheduleRead, ComputeSnapshotScheduleUpdate,
             ComputeSnapshotScheduleDelete)

ComputeImageArguments ==
    Arguments(
        {"folder_id", "family", "os_type", "pooled", "source_family", "source_image",
         "source_snapshot", "source_disk", "source_url", "product_ids",
         "hardware_generation"},
        {"name", "description", "labels", "min_disk_size"})
ComputeImageCreate == Accepted(All(ComputeImageArguments))
ComputeImageRead ==
    Reads(
        All(ComputeImageArguments)
            \ {"os_type", "source_family", "source_image", "source_snapshot",
               "source_disk", "source_url"})
ComputeImageUpdate ==
    Partial(
        <<Patch({"labels"}),
          Patch({"name"}),
          Patch({"description"}),
          Patch({"min_disk_size"})>>)
ComputeImageDelete == Tolerant
ComputeImage ==
    Resource(ComputeImageArguments, ComputeImageCreate, ComputeImageRead,
             ComputeImageUpdate, ComputeImageDelete)

(* The folder is changed by moving the disk. A smaller size replaces the   *)
(* disk (CustomizeDiff). Left out: with allow_recreate a new folder means  *)
(* that Update deletes the disk and creates another one.                   *)
ComputeDiskArguments ==
    Arguments(
        {"zone", "block_size", "image_id", "snapshot_id", "type", "hardware_generation",
         "kms_key_id"},
        {"name", "description", "folder_id", "labels", "size", "disk_placement_policy"})
ComputeDiskCreate == Accepted(All(ComputeDiskArguments))
ComputeDiskRead == Reads(All(ComputeDiskArguments))
ComputeDiskUpdate ==
    Partial(
        <<Patch({"folder_id"}),
          Patch({"labels"}),
          Patch({"name"}),
          Patch({"description"}),
          Patch({"disk_placement_policy"}),
          Patch({"size"})>>)
ComputeDiskDelete == Tolerant
ComputeDisk ==
    Resource(ComputeDiskArguments, ComputeDiskCreate, ComputeDiskRead, ComputeDiskUpdate,
             ComputeDiskDelete)

(* The id is taken from the response, after the group is up.               *)
ComputeInstanceGroupArguments ==
    Arguments(
        {"folder_id", "load_balancer", "application_load_balancer"},
        {"service_account_id", "instance_template", "variables", "scale_policy",
         "deploy_policy", "allocation_policy", "name", "description", "labels",
         "health_check", "max_checking_health_duration", "deletion_protection"})
ComputeInstanceGroupCreate == Done(All(ComputeInstanceGroupArguments))
ComputeInstanceGroupRead == Reads(All(ComputeInstanceGroupArguments))
ComputeInstanceGroupUpdate == Planned(<<Put(ComputeInstanceGroupArguments.inPlace)>>)
ComputeInstanceGroupDelete == Tolerant
ComputeInstanceGroup ==
    Resource(ComputeInstanceGroupArguments, ComputeInstanceGroupCreate,
             ComputeInstanceGroupRead, ComputeInstanceGroupUpdate,
             ComputeInstanceGroupDelete)

(* Disks, file systems and interfaces are compared with those of the       *)
(* instance, detached and attached; the last call is made while the        *)
(* instance is stopped.                                                    *)
ComputeInstanceArguments ==
    Arguments(
        {"boot_disk", "zone", "hostname", "gpu_cluster_id", "local_disk"},
        {"resources", "platform_id", "network_acceleration_type", "network_interface",
         "name", "description", "folder_id", "labels", "metadata", "secondary_disk",
         "scheduling_policy", "service_account_id", "placement_policy",
         "metadata_options", "filesystem", "maintenance_policy",
         "maintenance_grace_period"})
ComputeInstanceCreate == Accepted(All(ComputeInstanceArguments))
ComputeInstanceRead == Reads(All(ComputeInstanceArguments))
ComputeInstanceUpdate ==
    Partial(
        <<Patch({"folder_id"}),
          Patch({"labels"}),
          Patch({"metadata"}),
          Patch({"metadata_options"}),
          Patch({"name"}),
          Patch({"description"}),
          Patch({"service_account_id"}),
          Patch({"maintenance_policy", "maintenance_grace_period"}),
          Patch({"network_interface"}),
          Patch({"secondary_disk"}),
          Patch({"filesystem"}),
          Patch(
              {"resources", "platform_id", "network_acceleration_type",
               "scheduling_policy", "placement_policy"})>>)
ComputeInstanceDelete == Tolerant
ComputeInstance ==
    Resource(ComputeInstanceArguments, ComputeInstanceCreate, ComputeInstanceRead,
             ComputeInstanceUpdate, ComputeInstanceDelete)

ComputeRows ==
    [ComputeDiskPlacementGroup |-> ComputeDiskPlacementGroup,
     ComputeGpuCluster |-> ComputeGpuCluster, ComputePlacementGroup |-> ComputePlacementGroup,
     ComputeFilesystem |-> ComputeFilesystem, ComputeSnapshot |-> ComputeSnapshot,
     ComputeSnapshotSchedule |-> ComputeSnapshotSchedule, ComputeImage |-> ComputeImage,
     ComputeDisk |-> ComputeDisk, ComputeInstanceGroup |-> ComputeInstanceGroup,
     ComputeInstance |-> ComputeInstance]
=============================================================================
