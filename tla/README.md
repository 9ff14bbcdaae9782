# Verification of the Yandex Cloud provider

TLA+ modules, TLC configurations and TLAPS proofs about the Terraform provider
for Yandex Cloud: the parts of it that run concurrently, and what the handlers of
each resource make of a change that takes several API calls, any of which may
fail. Paths are relative to the repository.

    tlc -workers 2 -config IamAccess_safety.cfg MCIamAccess    # a run
    tlapm IamAccess_proof.tla                                  # a proof

`PROJECT.json` lists the components, the runs, the theorems, the hazards in the
code, and for every definition the source lines it stands for.

## 1. The system

Terraform core talks to one provider process, which multiplexes two providers:
the older one on the plugin SDK (`yandex/`) and the newer one on the plugin
framework (`yandex-framework/`). Core builds a graph of resources and calls
their create, read, update and delete handlers, by default ten at a time;
handlers of different resources run in parallel, those of one resource one
after the other. A handler turns planned attributes into API requests. Most
answers are *operations* that the handler polls (`op.Wait`) until they are done,
fail, or the handler's deadline passes - the operation itself then goes on.
At the end the handler reads the object back, and core saves what the handler
leaves as the resource's state.

| part | state | operations | what makes it hard |
|---|---|---|---|
| keyed mutex (`common/mutexkv`) | a map of mutexes, a mutex for the map | Lock, Unlock | two locks, taken one inside the other; created on first use |
| IAM bindings, members, policies (`yandex/iam*.go`) | grants of a cloud resource at the server, Terraform state | create, read, update, delete, import | read-modify-write of one policy by many resources; timeouts; filters in the read |
| framework IAM bindings (`pkg/accessbinding`) | as above, second mutex map | create, read, update, delete, import | role and cloud resource change in place; diagnostics that get lost, second lock domain |
| service accounts | the account, and a grant the server makes on the cloud | create, read, delete | changes a cloud's grants behind the bindings |
| cluster hosts (`pkg/mdbcommon/hosts.go`; redis, mysql, postgresql v2) | hosts at the server under fqdns, in the state under labels | create, update, delete hosts and shards; read | identifying hosts; a change of many calls that may break off anywhere |
| security group rules (`vpc_security_group_rule`) | rules of a group | add, replace, relabel, delete, read | rule ids change on replacement; lock of the group; waits that are given up |
| conflicting operations (`pkg/retry`) | operations at the server | call again until free | unbounded retry under a lock |
| Lockbox versions and outputs | versions of a secret, secrets of IAM keys | add, destroy; move a key's value in and out | base version read before it is used; the only copy of a value on the way |
| all other resources (113 kinds) | one object each, its arguments in the state | create, read, update, delete | several calls for one change; what stays in the state when one fails |
| temporary access keys (`yandex/utils.go`) | a temporary account, its grant and key | create, clean up | grant outside the lock |
| credentials (`yandex/config.go`) | cached token | get | unsynchronised cache |

Interactions: the mutex serialises the IAM resources and, in the framework, the
rules of a group; IAM resources, service accounts and temporary keys meet in
the grants of a folder or a cloud; version resources and keys meet in a Lockbox
secret, only the first under a mutex; updates wait for conflicting operations;
all handlers meet their own past in the state that Terraform keeps.

What makes the parts correct:

* mutex: one holder a key, `Unlock` finds the mutex of its `Lock`, no deadlock;
* IAM: no change undoes another resource's, success means applied and recorded,
  every handler returns and gives the lock back;
* hosts: no host that stays is ever deleted, the cluster is never short of hosts,
  success means the cluster is as written, a broken-off change can be repeated;
* rules: a resource has one rule and its state names it, no handler of the
  provider is in the way of another, every handler returns;
* versions: a version contains exactly the entries asked for, a key's value is
  always somewhere, no version is left behind;
* a resource: a plan that shows nothing to do is right, success means done, no
  object is lost, and applying again gets there - whatever failed before.

## 2. Modules

| module | stands for |
|---|---|
| `KeyedLock` | abstract: one lock a key |
| `MutexKV`, `MCMutexKV`, `MutexKV_proof` | `common/mutexkv/mutexkv.go`; implements `KeyedLock` |
| `AccessPolicy` | abstract: grants changed atomically |
| `IamAccess`, `MCIamAccess`, `IamAccess_proof` | IAM resources of both providers and service accounts on one cloud resource; implements `AccessPolicy` |
| `IamUpdaters` | the cloud resources that have access bindings: their keys, what they serve, how they wait |
| `ClusterHosts`, `MCClusterHosts`, `ClusterHosts_proof`, `ClusterHostsOutcome_proof` | hosts of a database cluster over several applies |
| `SecurityGroupRules`, `MCSecurityGroupRules`, `SecurityGroupRules_proof` | the rules of one security group, with `pkg/retry` |
| `LockboxVersions`, `MCLockboxVersions`, `LockboxVersions_proof` | version resources and IAM keys with output_to_lockbox on some secrets |
| `ResourceApply`, `ResourceApply_proof`, `MCResourceApply` | one resource, applied again and again: Terraform core, SDK, framework |
| `ResourceRow` | the form in which a resource's handlers are written down |
| `NetworkRows`, `ComputeRows`, `DatabaseRows`, `FrameworkRows`, `IdentityRows`, `ServerlessRows` | the handlers of 113 resources |
| `EndpointSettings`, `RequestLimits`, `SecurityProfiles` | deeply nested arguments of three services, leaf by leaf |

### MutexKV

A process is a goroutine that locks and unlocks keys. `pc` follows it through
`get()`: `GetEnter` takes the map's lock, `GetLookup` reads the map, `GetCreate`
makes and stores a mutex, `GetLeave` gives the map's lock back; then `MutexLock`
or `MutexUnlock` works on the mutex that was returned. The two maps of the model
are the Go map (`store`) and the owners of mutexes. `KeyedLock` has a holder and
a set of waiters a key; the refinement reads the holder of a key off its mutex.

### IamAccess

One cloud resource, any number of bindings, members, policies and service
accounts. A handler is cut at the lock and at every API call: *cloud* (look the
cloud of a folder up), *lock*, *get*, *submit*, *wait*, *read*. `Submit` puts an
operation at the server, which `Apply` or `OperationFails` ends at some later
time, and `WaitDone`, `WaitFails`, `WaitTimesOut` are the three ways out of
`op.Wait`. Each call may also fail or answer NotFound, because the resource may
be deleted by somebody else (`Vanish`). `Return` is the deferred unlock together
with what core saves; `SdkState` is the SDK's rule for a handler that returns
an error: a create without an id leaves nothing, with an id or in an update the
*planned* attributes are saved. `Found` is the read's filter: only members that
the data of the resource already name.

A policy is a set of grants (role, principal). The order of bindings and their
duplicates mean nothing to the server, and `mergeBindings` rebuilds the list
from Go maps in any order. `UpdateAccessBindings` is only ever given one delta,
so its batches are one call. The key is the same for all resources here: the
mutex is replaced by the variable `lock`, which `MutexKV` justifies.

`Framework` are the bindings of the framework (`pkg/accessbinding`): another key
map, so they meet those of the SDK provider only by mistake; they read the policy
in their delete and keep the state that the framework leaves (`FrameworkState`).
In the SDK's bindings the role is ForceNew; in the framework's neither the role
(iam_binding.go:192-195) nor the id of the cloud resource requires replacement, so
`CallUpdate` may change the role. `Update` (iam_binding.go:116-137) then takes the
role of the *state* out (`OldRole`) and adds the plan's members to the new one. If the
id changes, it does the same at the new cloud resource (`MoveHere`, with the role of a
state that is about another one) and nothing at the old one (`MoveAway`).
`RolesOf` are the roles a binding may be written with, one for the SDK's.
`PolicyGrants` bounds what a policy resource may say, `Together` which resources
are used side by side: `MCTogetherServed` checks with `IamUpdaters` that some kind
of cloud resource really serves each such mix under one key, and `MCTogetherAllowed`
that without timeouts the mix is one the documentation allows (`Isolated`,
`OnePolicy`, `RolesApart`: the hypotheses of the theorems).

`AccessPolicy` says what all this promises: a resource declares a change (which
grants it keeps, which it adds), and it happens in one step on the grants of that
moment, or not at all. The refinement (`Todo`) takes a change to be under way
until the server has applied or refused its operation.

### ClusterHosts

A user edits a map from labels to wishes, applies it, and applies it again.
`Refresh` reads hosts into the state (`ReadHosts`), `StartUpdate` matches the
hosts of the state to the labels of the plan (`modifyStateDependsPlan`) and
computes the calls (`hostsDiff`, `shardsDiff`, `deleteHostsDependsOnShards`),
which `CreateShard`, `CreateHost`, `UpdateHost`, `DeleteShard`, `DeleteHost` then
make one by one in the code's order; `ReadBack`, `ReadBackWrong`,
`ReadBackFails` are the outcomes of reading the plan back. A call may be refused,
or take effect and be reported failed; either ends the update with the old
state. Go visits maps in random order, so the greedy matching in the code is any
matching that cannot be extended (`MaximalMatchings`), both times.

`service` says which resource it is. Redis uses `UpdateClusterHostsWithShards`,
the others `UpdateClusterHosts` (`Sharded`); mysql and postgresql save the plan
after a failed read-back (`SavesOnError`), and their update mask names
`assign_public_ip` and `replica_priority` while they compare `assign_public_ip`
and `replication_source` (`Mask`). A subnet that the configuration does not name is
taken from the state or unknown for redis, and null for the other two, where
`subnet_id` is Optional but not Computed (`SubnetComputed`, `PlanOf`). All hosts are
in one zone; a subnet stands for the attributes that cannot change.

### SecurityGroupRules

A handler of `yandex_vpc_security_group_rule` takes the group's key (`Lock`), asks
the service (`Accepted`), meets another operation (`Conflict`, `ConflictOver`:
`retry.ConflictingOperation`), waits, and reads the rule back. `Request` is
`UpdateSecurityGroupRules`: another body is a rule added and one deleted in one
call; the same body is an update of the metadata, with the labels of the *state*
(resource.go:365-369), so it changes nothing. The id of an added rule comes from
the operation's metadata; once the wait for the operation is over it is put in the
state, whatever the read-back does. A wait that is given up (`WaitTimesOut`)
records nothing; it is also the failed call that took effect: a lost answer, or an
error in the operation's metadata after a good wait (api.go:135-159), leaves what an
accepted call that is given up leaves. Others run operations on the group and may
delete rules (`OthersStart`). Not here: import, and the rules inside a group, which are a row.

### LockboxVersions

A payload is a set of entries, each a key and a value; a value is a text of the
configuration or that of an IAM key. A version resource looks the current version
up (`LookUp`) and adds one based on it that removes all entries but its own
(`AddConfigured`), under one mutex for all secrets. An IAM key whose
`output_to_lockbox` is set or changed moves its value without that mutex
(`ManageOutputToLockbox`): read the old version (`Restore`), destroy it
(`DestroyVersion`), add the new one (`MoveValue`), whose change is to whatever
version is current then (`MoveEntry`). Which secret and entry a key names is part of
the model because of what follows a failed update: the SDK saves the planned
`output_to_lockbox`, so that the state names an entry that the value is not under,
or none. The next update then restores the value of another entry, or moves an
empty text, which removes the entry, and reports no error (`dropped`). The static
access key stands for the three kinds of keys, which share that code. Every call may
fail, without an effect (`KeyFails`, `VersionFails`) or after it
(`DestroyWaitFails`, `MoveFails`; for a version `AddConfigured` with `Fail` when the
wait fails, its id being known by then, and `AddedUnnamed` when the answer or its
metadata is lost and no id is).

### ResourceApply and the rows

Most resources are one object with arguments, and differ in few things: which
argument each call of Create and Update sends, in which order, under which
condition; what Read takes over, and whether it survives that the object is
gone; what the state holds when Update fails (the planned arguments, or the prior
ones after `d.Partial(true)`, or in the framework the prior ones); when Create
knows the id of its object; whether Delete minds that there is none. A *row*
(`ResourceRow`) says this for one resource, read off its handlers: a schema
(`...Arguments`, those with ForceNew first), `...Create`, `...Read`, `...Update`,
`...Delete`. `ResourceApply` is the rest, the same for all: refresh, plan,
create, replace, update, delete and what core and the two plugin libraries save.
A nested block is one argument where its conversion has no gap of its own; the
settings of transfer endpoints and the rules of Smart Web Security, whose
conversions are long, are given leaf by leaf. Where a handler makes an unbounded
number of alike calls, one for each element of an argument, a row has one for all of
them (the certificates and passwords of an IoT device or registry, the Untag and Tag
of a message queue); the tags of a scaling policy, each an object of its own, are two
calls that stand for any number. The branch of a disk's update that deletes and
creates it anew (`allow_recreate`, compute_disk.go:387-394) is left out.

`Patch` is a call for the arguments that changed (a mask from `HasChange`), `Put` one
that sends all. A failed call may have taken effect (`took`): the wait for its
operation ran out. `unsure` remembers what a failed Update may have written: if the
API does not return such an argument and the user takes the change back, nothing
can tell, and no promise is made until it is sent again.

## 3. Runs

| run | instance | shows |
|---|---|---|
| mutexkv | 3 callers, 2 keys, 3 mutexes | one caller a key, also when two create its mutex at once; refinement; every Lock returns |
| iam | side by side: two bindings; a framework binding; a binding and a member; a binding and an account; a member and a policy. 2 principals, a foreign grant | changes are atomic (refinement), replacements never overlap, success means that what was planned is there and that of the old role nothing else is |
| iam_live | a binding and an account, with timeouts | every handler returns |
| iam_timeout | 2 bindings, with timeouts | **violation**: a late replacement removes the other role's members |
| iam_create | a binding and a member | **violation**: no diff after a create that found members |
| hosts_safety | redis: 2 labels in 2 shards, or 2 values of a changeable attribute, or a label without subnet; mysql: 2 values of its attribute, or a label without subnet; 5 fqdns, 1 failure | kept hosts survive, hosts go last (also after a wrong read-back), success realises the plan |
| hosts_live | redis: 2 of 3 labels in 2 shards; mysql: 2 labels; 4 fqdns, 1 failure | applying again converges; the read-back finds every host |
| hosts_mask | mysql/postgresql mask | **violation**: replication_source never changes |
| hosts_subnets | a label without a subnet | **violation**: the read-back fails after a good update |
| lockbox | 2 version resources of a secret; one of them and a key whose value goes to an entry of that secret; a key that may name either of 2 entries, one of them taken, or another secret; 3 versions | a version is as configured, the value of a key is never lost, its version not left behind, an output is where the state says |
| sgroups | a rule with 2 bodies and 2 labels and one that comes and goes, others on the group; 5 ids | a resource has one rule and its state names it; the lock keeps handlers out of each other's way; every handler returns |
| resources | each of the 113 rows, pairs of its arguments with 2 values each, 2 failures | a plan without a difference is right, no object is lost, success means done, applying again gets there |

*Bounds.* Two bindings with two principals are enough for one to read before and
replace after the other; a third would only repeat it, and the theorems cover any
number. Handlers may be called any number of times: only the state space is
finite, no counter cuts it. For hosts, two labels allow a rename, a swap, a
creation next to a rename, and the loss of one of two shards; four or five fqdns
leave names for the hosts of broken-off updates; `MaxFailures` bounds the calls
that fail. `Permutations(Fqdn)` is used
as symmetry where no liveness is checked: the model compares fqdns for equality.
For Lockbox, `MaxVersions` is 3: one from elsewhere, the one a resource makes, and
the one a key's move makes around it, or the two that a key's value is moved between; `Together`
says which resources meet. For
rules, `Impatient` and `Exposed` give one resource a wait that is given up and the
other a rule that others delete, the two things after which the code makes no
promise; the resource that neither happens to is the one the properties are about,
whichever that is. `MaxIds` leaves ids for a rule, the one that replaces it and
one that was added late, as ids that the state still knows are not used
again. Of a resource, arguments that all its handlers treat alike are
interchangeable, so one stands for all of its role, and every role is checked
together with one that some call of Update is made for (`MCFocus`); the theorems
cover all arguments at once. Two failures let one hit the repair of the other.

*Fairness.* `MutexKV`: a goroutine that is not in a section or outside keeps
running, `sync.Mutex` serves waiters that wait long (starvation mode), holders
unlock. `IamAccess`: handlers run on (weak), operations end (weak), the lock is
fair to its waiters (strong, from `MutexKV`); nobody has to call anything and no
call has to succeed. `SecurityGroupRules`: the same, and a handler that conflicts
keep from its call is ended by the timeout of its method (strong on `CallFails`);
others may keep the group busy for ever. `ClusterHosts` and `ResourceApply`:
somebody keeps applying (weak on all steps of an apply together); failures are
never owed, and `RetriesConverge` asks nothing while the user goes on editing or
of a plan that is for ever rejected or read back wrong. `LockboxVersions` states
no liveness.

*Deadlock* is checked in every run: a user may always edit or call again.

*Findings*, each a violation run; `PROJECT.json` quotes the text each
contradicts:

* a replacement whose wait times out gives the mutex back and is applied later,
  over what other resources have done since;
* after creating a binding for a role with members, the read filters the other
  members out, so the announced diff is never shown;
* `replication_source` is compared but not in the update mask;
* the greedy read-back fails after a correct update if a label without subnet
  takes the host another label needs.

### What the promises leave out

The properties hold with exceptions, and each exception is something the code
does not do. They are constants or history variables of the models, so that an
exception that is repaired in the code can be struck from the list and the run
repeated.

`MCGap`, arguments for which a plan or a success says nothing:

| why | arguments |
|---|---|
| may change in place, but are in no call of Update | region_id of LbTargetGroup and of LbNetworkLoadBalancer, and its type; route_options of AlbHttpRouter (no path in the mask); placement_strategy_* of ComputePlacementGroup (nor read back, so the state takes a change never made); zone of ComputeDiskPlacementGroup; network_id and folder_id of the PostgreSQL and MySQL v2 clusters; organization_id and billing_account_id of DatasphereCommunity; scope of IamServiceAccountApiKey; sleep_after of YdbDatabaseServerless (in no call at all, and never read); the algorithm of the two asymmetric keys; managed of CmCertificate; federation_id of OrgGroupMapping; organization_id of OrgOsLoginSettings; labels of OrgSamlFederation (missing in the table at resource_yandex_organizationmanager_saml_federation.go:277-288); deletion_protection of EventrouterBus; bus_id of EventrouterConnector and EventrouterRule; jq_filter of EventrouterRule (looked for as "filter"); six arguments of MdbGreenplumCluster; generate_password of the ClickHouse, MySQL and PostgreSQL users; cluster_id of MdbPostgresqlDatabase |
| identify the object, but a change of them does not replace it | http_router_id and name of AlbVirtualHost; name of MdbMysqlUser, MdbPostgresqlUser, MdbPostgresqlDatabase |
| a change is sent in the wrong place or only with others | max_units_* and balance of DatasphereProject |
| never sent by Create | folder_id of VpcDefaultSecurityGroup |
| not returned by the API, so the planned value that a failed Update leaves in the state hides the difference | password of MdbKafkaUser, MdbMysqlUser, MdbPostgresqlUser, user_password of MdbSqlserverCluster; the secrets of DatatransferEndpoint; acl of StorageBucket; filter of AuditTrailsTrail; targets of EventrouterRule (Read leaves the kinds that the rule lacks) |
| added to the old ones instead of replacing them | passwords of IotCoreRegistry |

`MCOrphans`, resources that lose the object they make when the wait for it fails:
DnsRecordSet, ComputeInstanceGroup, OrgGroupMappingItem, OrgUserSshKey and
MonitoringDashboard take the id from the response; OrgSamlFederationUserAccount and
the framework's clusters, users, databases, communities and projects save the state
at the end of Create.

`MCStuck`, resources whose Read fails for good once somebody else has deleted the
object, because it does not tell NotFound from other errors:
ComputeSnapshotSchedule, IamFederatedCredential, IamOidcFederation, CmCertificate,
OrgSamlFederationUserAccount, MdbKafkaUser (also after a Create that failed: its id
is then the cluster's alone), ContainerRepositoryLifecyclePolicy,
FunctionScalingPolicy (`%s` instead of `%w`,
resource_yandex_function_scaling_policy.go:123), the DataSphere resources, the
OpenSearch cluster and the Redis, PostgreSQL and MySQL v2 clusters.

`IamAccess`: `SuccessMeansApplied` says of an update that nothing but the plan is left
of the role that the *state* had. Of a framework binding whose role changes in place it
does not say so of the new role: that keeps the members it had, the read filters by
the planned ones, and the update reports success, as the comment on Create says of
Create (iam_binding.go:41-44); Update has no such comment. After a change of the
cloud resource the grants at the old one stay for good, and at the new one the
role that the state had elsewhere is emptied, even of grants the provider never made.
Resources are only used side by side if no role passes between them (`RolesApart`,
which is more than the documentation asks: two bindings that exchange their roles
remove each other's grants), and no policy beside a binding or another policy
(`Isolated`, `OnePolicy`), which nothing in the code prevents.

`ClusterHosts`: `ReadBackFindsAll` and `RetriesConverge` leave out mysql and
postgresql configurations that do not name the subnet of every host. There the read
compares null with the subnet of the API (hosts.go:521), finds no host, and the
update ends in "This is a problem with the provider"; the state is then empty of
hosts, and the next apply creates new ones and deletes those. What is promised in
that case is what `hosts_safety` checks: no kept host is lost and the hosts go last.

`LockboxVersions`: `dropped` are keys whose value is lost because it is cleared from
the attributes before the version is added (lockbox_outputs.go:137), or because after
a failed update the state names no output or another one, so that an empty value or
that of another entry is restored and moved (lockbox_outputs.go:127-146, 161-183);
`failed` are
resources that may leave a version behind: a key after a failed destruction or when
somebody deleted it, a version resource whose answer was lost (`AddedUnnamed`).
`NoVersionLeft` exempts them, so it says nothing of what these failures leave. `VersionAsConfigured` allows a *first* version to come with an
entry that a key has put there since the lookup.

`SecurityGroupRules`: `gaveUp` are resources whose wait for an operation was given
up, so that a rule may be there without an id in the state (resource.go:295);
`disturbed` those whose rule others deleted, which every later Read reports as an
error (resource.go:485-490). Labels are left out: an update never sends them.

## 4. Proofs

`MutexKV_proof`, for any processes, keys and mutexes: `MapInv` is inductive -
types; the map's lock is held exactly inside `get` (`LockInv`); a key that was
looked up and absent is still absent when its mutex is stored, and a returned
mutex is still the key's (`PtrInv`); no two keys share a mutex (`StoreInv`);
owners are exactly those inside (`OwnerInv`). Mutual exclusion alone is not
inductive: nothing in it keeps two callers from creating two mutexes. From
`MapInv`: `TypeCorrect`, `KeyedMutualExclusion`, `UnlockSafe`, `KeyedLockImplemented`, and
`KeysKeepMutexes`, that the mutex of a key is never replaced.

`IamAccess_proof`, for any sets of resources, roles, principals:

* `TypeCorrect`: types, no returning handler holds the lock, and a handler waits
  exactly while it has an operation. Inductive as it stands.
* `AccessInvariant`: `AccessInv` holds if `Isolated`: no timeouts, and no policy is
  used side by side with a binding, which the documentation forbids. The resources in
  use are some that `Together` allows (`UsedTogether`), and for each: which methods
  are where (`Control`), the lock is held from *get* to the end of the operation
  (`Holds`), the operation is the one its data describe (`Requested`), and what a
  binding has read is what is still there (`Fresh`). `Fresh` is what atomicity
  needs, `Holds` is what makes `Fresh` inductive: any other change would have to
  hold the lock, and those that do not (policies) meet no binding that has read,
  by `UsedTogether`.
* `AtomicChanges`: `Isolated => (Spec => ImplementsAccessPolicy)`: every step is a
  step of `AccessPolicy` or leaves its variables alone, by `AccessInv`.
* `OneReplacement`: if moreover a policy meets no other one (`OnePolicy`), no two
  replacements are under way together. Both assumptions are needed:
  `setIamPolicyData` and the delete of a policy take no lock (iam_policy.go:126, 137),
  and a wait that times out leaves its operation behind (iam_timeout).
* `SuccessIsApplied`: a success of a binding means that the planned grants are there
  and recorded; after an update, that nothing but them is left of the role in the
  state, whether the framework changed the role or not; after a delete, that nothing
  is left of it. What a new role had besides is not denied. The
  read that reports success runs without the key, so it has to be shown that nobody
  changes these roles before it: `Stays`, from the end of the operation to the read.
  That needs `RolesApart`, the documentation's "should not be assigned using
  yandex_resourcemanager_folder_iam_member" and a little more, and `Written`, that a
  handler works with grants of the role in its data, one of the resource's.
* `RolesPreserved`: with `Isolated`, `OtherRolesPreserved` holds: an operation of a
  binding leaves alone every role that the binding is never written with. So the given-up
  wait of iam_timeout is what violates it and nothing else in the code does.

`ClusterHosts_proof`, for any configurations, labels, fqdns, shards and subnets:
`KeptInv` (`KeptInvariant`) gives `HostsTypeCorrect` and `KeptHostsAreSafe`: an
update never deletes a host that the plan keeps, whichever of the greedy matchings
Go's map order picks and wherever the update breaks off. That a kept host is there
is not inductive, the calls still to be made must spare it (`Spared`), and they do
because a refreshed state is what the API says (`Refreshed`), because no two labels
name one host (`DistinctNames`, so a host without a label of the plan is no labelled
one), and because `PartialMatch` never moves a matched host to another shard, so
that its shard is one of the plan's and is not deleted (`DiffSpares`). `DistinctNames`
is what `ReadHosts` has to establish (`ReadResultType`). `KeptStep` proves at once
that every step keeps `KeptInv` and the hosts.

`ClusterHostsOutcome_proof` is about what an update makes of the cluster.
`HousedInvariant`: every label of the plan, but those whose hosts are still to be
created, has a host of its own (`Lodging`), which stays (`Leaves`) and is as planned
but for the updates still to come (`Fits`), and every other host will be deleted. That
is kept call by call, `UpdateHost` and failed calls that took effect included; it
holds at the start because the matching is injective and a label in state and plan is
matched with itself (`Orderly`), and because the state covers every host of the API
(`Covers`) under its own name (`OwnNames`). From it:

* `HostsGoLast` (`DeletesLast`), without a hypothesis: the homes of the labels are an
  injection into the hosts that stay, so there are enough of them whenever one is
  deleted;
* `SuccessIsReal` (`SuccessRealises`), if `MaskCovers`: configurations do not differ in
  what the update mask leaves out. Then that attribute never has to change
  (`TuneKept`), and when no call is left the homes are what was written;
* `ReadBackIsComplete` (`ReadBackFindsAll`), if also `NamedAlike`: a configuration names the
  shard of all its hosts or of none, and the subnet of all or, where the schema has it
  Computed (redis), of none. The labels left over by a greedy
  matching and the hosts left over would then fit each other, so there are none.

Neither hypothesis can be dropped: hosts_mask violates the one property where
`MaskCovers` fails, hosts_subnets the other where `NamedAlike` does, and
`ConfigsCovered` has TLC evaluate which run has which.

`SecurityGroupRules_proof`, for any rules, bodies, others on the group and ids:
`RulesInv` (`RulesInvariant`) is inductive. An operation that a handler waits for is
what its method asked for (`Waited`, `Requested`); ids are not shared, and an id that
a state or a plan knows is of a rule of that resource (`Owned`); the group's rules of
a resource are those its state names until its operation is done, and those planned
from then on (`Real`, where `Due` says which). `OneRuleEach`
alone is not inductive: nothing in it keeps an update from deleting another
resource's rule, or a rule's replacement from staying beside it. `EnoughIds` says
that the bound `MaxIds` never keeps a method from its call. From it
`GroupLockedCorrectly`, `LockSeparatesHandlers`, `OneRulePerResource`, `StateIsTrue`.

`LockboxVersions_proof`, for any keys, secrets, entries, configurations and numbers of
versions: `LockboxInv` (`LockboxInvariant`) is inductive. For a version resource: what
its methods work with, that its one active version is the one its state names
(`VersionPrepared`), and that a secret in which it found no version under the mutex has
since got one from a key at most (`LookedUp`), which is all that the mutex gives,
as keys do not take it. For a key: its data at each call (`KeyPrepared`); where its value
is - in the state, in the active version that the state names, or between the two in the
memory of an update (`KeyKept`); and, until a call fails, that it has no other version
(`KeyTidy`). From it `VersionMutexHeld`, `SecretSurvives`, `NoVersionForgotten`,
`ConfiguredIsStored`, `OutputIsStored`.

`ResourceApply_proof`, for any rows, with all their arguments at once, any values and
any number of failures. What a row must do is in two criteria of `ResourceApply`:
`Faithful` (every argument that the promises cover is sent by Create; it replaces
the object, or is refused, or is in an Update call made for it; and where a failed
Update leaves the plan in the state, Read takes it over) and `Careful` (Create knows
its object before it waits, Delete insists). `MCResourceApply` has TLC evaluate
that all 113 rows are Faithful and all but `MCOrphans` Careful (`RowsFaithful`,
`RowsCareful`): together with the theorems that is more than the run, which looks
at two arguments at a time and two failures. What the rows are about is the code;
the theorems say which pattern in it suffices. `ApplyInvariant`:

* `Presence`: where the object is, by what the handlers do; `Lawful`: an Update
  makes only calls that are due, and replaces and refuses nothing;
* `Settled`: what no Read corrects is in the state as it is at the object, and
  everything is once refreshed. This is what `NoDiffMeansApplied` needs; it is not
  inductive, because in the middle of an Update the state lags behind;
* `Moving`, `Arrived`, `Made`: during an Update an argument is what it was or has been
  sent, and what has been sent, by Update or by Create, has arrived.

`NoDiffHidden` and `SuccessTrue` follow. `NothingLost` needs `Presence` only.
`RowsTypeCorrect` is the type invariant for any rows.

The assumptions on constants (`IamAccessAssumption`, `MutexKVAssumption`,
`ClusterHostsAssumption`, `SecurityGroupAssumption`, `LockboxAssumption`,
`RowsAssumption`, `MaxFailuresAssumption`) say that kinds of resources are disjoint,
that roles, principals, entries and bodies are given for those that have them, that a
configuration names at least one host, with labels that are no fqdns, and an entry key
once, that there are finitely many fqdns and rules, that the null and unknown values
are no other values, and that rows have the form of `RowType` with at least one call
in Create. TLC evaluates them in the runs.

Every invariant and every safety property of a passing run is stated by a theorem.
Only model-checked are the liveness properties (`LockReturns`, `HandlersReturn` of IAM
and of the rules, `RetriesConverge` of the hosts and of the rows): fairness and
ENABLED are out of the prover's reach.

## 5. Not modelled

* Wording, logging, pagination, validation of values.
* Two provider processes at once: the mutex is local to a process, and Terraform
  locks its state instead.
* The mutex keys: all resources of a run share one cloud resource and so one key.
* Functions and serverless containers: two objects each, the second a version that
  is only ever added; a version that fails in Create is a warning.
* A compute instance that is stopped and started for an update, and the single disks
  and interfaces of one; node groups of OpenSearch; hosts of the SDK provider's
  clusters: each is one argument here.
* The membership of groups and the IP permissions of a registry, which are changed
  by deltas; storage objects; certificates that poll for their challenges.
* YDB tables, indexes, change feeds and topics: their handlers are in another
  repository.
* Import of security group rules, and the framework's group resource, which the
  provider does not register.
* Temporary static access keys, the configuration of the provider, data sources,
  conversions, validators, state upgraders, tools: see the notes in `PROJECT.json`.

## 6. Plan

1. Group membership and registry IP permissions as deltas on one set.
2. The stopping and starting of a compute instance, and its disks.
3. Functions and containers with their versions.
4. Temporary accounts as a further kind of resource in `IamAccess`.
