--------------------------- MODULE LockboxVersions ---------------------------
(***************************************************************************)
(* Versions of Lockbox secrets: those of yandex_lockbox_secret_version     *)
(* (resource_yandex_lockbox_secret_version.go and its _hashed twin, which  *)
(* calls the same functions), and those into which the IAM key resources   *)
(* move their sensitive value (lockbox_outputs.go, here with the static    *)
(* access key).  The first kind works under one mutex of the process, the  *)
(* second without it.                                                      *)
(*                                                                         *)
(* An entry of a payload is a pair of its key and its value.  A handler is *)
(* cut at the mutex and at every API call; every call may fail.            *)
(***************************************************************************)
EXTENDS Naturals, FiniteSets

CONSTANTS
    Version,        \* secret_version resources, all of one secret
    Key,            \* IAM keys with output_to_lockbox; each is its value too
    Secret,         \* Lockbox secrets
    EntryKey, Text, \* keys of entries, and values other than those of keys
    SecretOf,       \* the secret of a version resource
    EntriesOf,      \* the entries that a version resource configures
    Given,          \* entries that a secret may have from elsewhere
    Output,         \* bound: the <<secret, entry key>> pairs that the
                    \* output_to_lockbox of a key may name
    Together,       \* bound: the sets of resources that are used side by side
    MaxVersions,    \* bound: versions that are ever added
    None            \* no version, no output, no resource

Resource == Version \union Key
Value == Text \union Key
Entry == EntryKey \X Value
VersionId == 1..MaxVersions

ASSUME LockboxAssumption ==
    /\ Version \intersect Key = {}
    /\ SecretOf \in [Version -> Secret]
    /\ EntriesOf \in [Version -> SUBSET (EntryKey \X Text)]
    /\ \A v \in Version : \A e, f \in EntriesOf[v] : e[1] = f[1] => e = f
    /\ Given \subseteq EntryKey \X Text
    /\ Output \in [Key -> SUBSET (Secret \X EntryKey)]
    /\ Together \subseteq SUBSET Resource
    /\ MaxVersions \in Nat \ {0}
    /\ None \notin Resource /\ None \notin VersionId
    /\ None \notin Secret \X EntryKey /\ None \notin Text

VARIABLES
    versions,   \* server: the versions so far, by number
    keys,       \* server: the IAM keys that exist
    lock,       \* resourceYandexLockboxSecretVersionMutex
    pc, op,     \* handler: the call it makes next, the method that runs
    base,       \* handler: the version that a new one is based on
    d,          \* handler: its ResourceData
    tf,         \* Terraform: the state of each resource
    failed,     \* history: keys of which some call has failed, and versions
                \* of which some answer was lost
    dropped     \* history: keys whose value was lost when it was moved

vars == <<versions, keys, lock, pc, op, base, d, tf, failed, dropped>>

(* A version is active until its destruction is scheduled.                 *)
StoredVersion == [secret : Secret, entries : SUBSET Entry, active : BOOLEAN,
                  by : Resource \union {None}]

(* ver: d.Id() of a version resource, output_to_lockbox_version_id of a    *)
(* key; value: what its attribute for the secret holds.                    *)
Data == [id : BOOLEAN, tainted : BOOLEAN, value : Value \union {None},
         out : (Secret \X EntryKey) \union {None}, ver : VersionId \union {None}]
Absent == [id |-> FALSE, tainted |-> FALSE, value |-> None, out |-> None,
           ver |-> None]

Location == {"idle", "lock", "look", "add", "create", "get", "restore",
             "destroy", "delete"}

(* Types; and the mutex is given back on every way out.                    *)
TypeOK ==
    /\ DOMAIN versions \subseteq VersionId
    /\ \A n \in DOMAIN versions : versions[n] \in StoredVersion
    /\ keys \subseteq Key
    /\ lock \in Version \union {None}
    /\ pc \in [Resource -> Location]
    /\ op \in [Resource -> {"none", "create", "read", "update", "delete"}]
    /\ base \in [Version -> VersionId \union {None}]
    /\ d \in [Resource -> Data]
    /\ tf \in [Resource -> Data]
    /\ failed \subseteq Resource
    /\ dropped \subseteq Key
    /\ \A v \in Version : lock = v <=> pc[v] \notin {"idle", "lock"}

-----------------------------------------------------------------------------
(* The Lockbox service (external).                                         *)

Numbers(s) == {n \in DOMAIN versions : versions[n].secret = s}

(* secret.CurrentVersion if it is active: the newest one.                  *)
Current(s) ==
    LET newest == {n \in Numbers(s) : \A k \in Numbers(s) : k <= n} IN
    IF \E n \in newest : versions[n].active
    THEN CHOOSE n \in newest : TRUE ELSE None

Payload(n) == IF n = None THEN {} ELSE versions[n].entries

(* A change with an empty value removes the entry.                         *)
Changed(entries, changes, removed) ==
    {e \in entries : e[1] \notin removed /\ \A c \in changes : c[1] # e[1]}
        \union changes

CanAdd == Cardinality(DOMAIN versions) < MaxVersions
NextId == Cardinality(DOMAIN versions) + 1

(* AddVersion: changes to the base version, or else to the current one.    *)
AddVersion(r, s, from, changes, removed) ==
    LET b == IF from = None THEN Current(s) ELSE from
        new == [secret |-> s, active |-> TRUE, by |-> r,
                entries |-> Changed(Payload(b), changes, removed)] IN
    /\ CanAdd
    /\ from # None => versions[from].active
    /\ versions' = [n \in DOMAIN versions \union {NextId} |->
                        IF n = NextId THEN new ELSE versions[n]]

Destroyable(s, n) ==
    n \in DOMAIN versions /\ versions[n].secret = s /\ versions[n].active

ScheduleDestruction(n) == versions' = [versions EXCEPT ![n].active = FALSE]

-----------------------------------------------------------------------------
Init ==
    /\ versions \in {<< >>} \union
            {<<[secret |-> SecretOf[v], entries |-> Given, active |-> TRUE,
                by |-> None]>> : v \in Version}
    /\ keys = {}
    /\ lock = None
    /\ pc = [r \in Resource |-> "idle"]
    /\ op = [r \in Resource |-> "none"]
    /\ base = [v \in Version |-> None]
    /\ d = [r \in Resource |-> Absent]
    /\ tf = [r \in Resource |-> Absent]
    /\ failed = {}
    /\ dropped = {}

(* Terraform calls method m of resource r with the data x.                 *)
Call(r, m, x, first) ==
    /\ pc[r] = "idle"
    /\ pc' = [pc EXCEPT ![r] = first]
    /\ op' = [op EXCEPT ![r] = m]
    /\ d' = [d EXCEPT ![r] = x]
    /\ UNCHANGED <<versions, keys, lock, base, tf, failed, dropped>>

Go(r, l) == pc' = [pc EXCEPT ![r] = l] /\ UNCHANGED <<op, lock, base, tf>>

(* Variant: the mutex is not released by defer.                            *)
ReturnLocked(r, x) ==
    /\ pc' = [pc EXCEPT ![r] = "idle"]
    /\ op' = [op EXCEPT ![r] = "none"]
    /\ d' = [d EXCEPT ![r] = Absent]
    /\ tf' = [tf EXCEPT ![r] = IF x.id THEN x ELSE Absent]
    /\ base' = [v \in Version |-> IF v = r THEN None ELSE base[v]]
    /\ UNCHANGED lock

(* A handler returns; without an id Terraform forgets the resource.        *)
Return(r, x) ==
    /\ pc' = [pc EXCEPT ![r] = "idle"]
    /\ op' = [op EXCEPT ![r] = "none"]
    /\ d' = [d EXCEPT ![r] = Absent]
    /\ tf' = [tf EXCEPT ![r] = IF x.id THEN x ELSE Absent]
    /\ base' = [v \in Version |-> IF v = r THEN None ELSE base[v]]
    /\ lock' = IF lock = r THEN None ELSE lock

(* With an error: what a create has made so far is tainted, an update      *)
(* keeps the planned attributes (no d.Partial), a failed delete or refresh *)
(* leaves the state as it was.                                             *)
Fail(r, x) ==
    Return(r, CASE op[r] = "create" -> [x EXCEPT !.tainted = TRUE]
                [] op[r] = "update" -> x
                [] OTHER -> tf[r])

-----------------------------------------------------------------------------
(* yandex_lockbox_secret_version.                                          *)

VersionCreate(v) ==
    ~tf[v].id /\ Call(v, "create", Absent, "lock")

VersionDelete(v) == tf[v].id /\ Call(v, "delete", tf[v], "lock")

(* Variant: no mutex.                                                      *)
LockNothing(v) ==
    /\ pc[v] = "lock"
    /\ lock' = v
    /\ pc' = [pc EXCEPT ![v] = IF op[v] = "delete" THEN "destroy" ELSE "look"]
    /\ UNCHANGED <<versions, keys, op, base, d, tf, failed, dropped>>

Lock(v) ==
    /\ pc[v] = "lock"
    /\ lock = None
    /\ lock' = v
    /\ pc' = [pc EXCEPT ![v] = IF op[v] = "delete" THEN "destroy" ELSE "look"]
    /\ UNCHANGED <<versions, keys, op, base, d, tf, failed, dropped>>

(* Secret.Get: the current version, if it is active.  Its payload, which   *)
(* is read next, never changes.                                            *)
LookUp(v) ==
    /\ pc[v] = "look"
    /\ base' = [base EXCEPT ![v] = Current(SecretOf[v])]
    /\ pc' = [pc EXCEPT ![v] = "add"]
    /\ UNCHANGED <<versions, keys, lock, op, d, tf, failed, dropped>>

(* addEntryChangesForRemovedKeys                                           *)
RemovedKeys(v) ==
    {e[1] : e \in Payload(base[v])} \ {e[1] : e \in EntriesOf[v]}

(* Variant: BaseVersionId is not set.                                      *)
BaseVersionIdUnset(v) == None

BaseVersionId(v) == base[v]

(* AddVersion, whose id is set at once, so that a failing wait or read     *)
(* leaves a tainted resource.  The read only looks whether it is there.    *)
(* An operation that fails after it was accepted adds nothing, and the     *)
(* next refresh takes the resource out again: that is VersionFails.        *)
AddConfigured(v) ==
    LET x == [d[v] EXCEPT !.id = TRUE, !.ver = NextId] IN
    /\ pc[v] = "add"
    /\ AddVersion(v, SecretOf[v], BaseVersionId(v), EntriesOf[v], RemovedKeys(v))
    /\ Return(v, x) \/ Fail(v, x)
    /\ UNCHANGED <<keys, failed, dropped>>

(* The version is added, but the answer or the metadata that name it are   *)
(* lost: nothing is recorded.                                              *)
AddedUnnamed(v) ==
    /\ pc[v] = "add"
    /\ AddVersion(v, SecretOf[v], BaseVersionId(v), EntriesOf[v], RemovedKeys(v))
    /\ failed' = failed \union {v}
    /\ Fail(v, d[v])
    /\ UNCHANGED <<keys, dropped>>

VersionDestroyed(v) ==
    /\ pc[v] = "destroy"
    /\ Destroyable(SecretOf[v], tf[v].ver)
    /\ ScheduleDestruction(tf[v].ver)
    /\ Return(v, Absent) \/ Fail(v, d[v])
    /\ UNCHANGED <<keys, failed, dropped>>

(* A call fails, without an effect.                                        *)
VersionFails(v) ==
    /\ pc[v] \in {"look", "add", "destroy"}
    /\ Fail(v, d[v])
    /\ UNCHANGED <<versions, keys, failed, dropped>>

-----------------------------------------------------------------------------
(* An IAM key with output_to_lockbox.                                      *)

KeyCreate(k) ==
    /\ ~tf[k].id
    /\ \E o \in Output[k] \union {None} :
          Call(k, "create", [Absent EXCEPT !.out = o], "create")

KeyUpdate(k) ==
    /\ tf[k].id /\ ~tf[k].tainted
    /\ \E o \in (Output[k] \union {None}) \ {tf[k].out} :
          Call(k, "update", [tf[k] EXCEPT !.out = o], "get")

KeyRefresh(k) == tf[k].id /\ Call(k, "read", tf[k], "get")

KeyDelete(k) == tf[k].id /\ Call(k, "delete", tf[k], "delete")

KeyError(k, x) == failed' = failed \union {k} /\ Fail(k, x)

(* AccessKey.Create returns the secret, this one time.                     *)
KeyCreated(k) ==
    /\ pc[k] = "create"
    /\ keys' = keys \union {k}
    /\ d' = [d EXCEPT ![k].id = TRUE, ![k].value = k]
    /\ Go(k, "get")
    /\ dropped' = dropped \ {k}
    /\ UNCHANGED <<versions, failed>>

(* Variant: an output that is changed is only added to.                    *)
ManageAdds(k, x) ==
    IF op[k] = "read" \/ tf[k].out = x.out THEN "done"
    ELSE IF x.out = None THEN "restore" ELSE "add"

(* ManageOutputToLockbox: where it starts, after a read without error.     *)
Manage(k, x) ==
    IF op[k] = "read" \/ tf[k].out = x.out THEN "done"
    ELSE IF tf[k].out # None THEN "restore" ELSE "add"

(* The read; a key that is not found loses its id and the method goes on.  *)
GetKey(k) ==
    LET x == [d[k] EXCEPT !.id = k \in keys] IN
    /\ pc[k] = "get"
    /\ IF Manage(k, x) = "done" THEN Return(k, x)
       ELSE Go(k, Manage(k, x)) /\ d' = [d EXCEPT ![k] = x]
    /\ UNCHANGED <<versions, keys, failed, dropped>>

(* Variant: the value is not put back.                                     *)
RestoreNothing(k) ==
    /\ pc[k] = "restore"
    /\ Destroyable(tf[k].out[1], tf[k].ver)
    /\ \E e \in Payload(tf[k].ver) : e[1] = tf[k].out[2]
    /\ Go(k, "destroy")
    /\ UNCHANGED <<versions, keys, d, failed, dropped>>

(* restoreSensitiveValuesFromLockboxVersion reads the old version, under   *)
(* the entry that the state names: which is another one than the value is  *)
(* stored under if an update to that entry has failed ...                  *)
Restore(k) ==
    /\ pc[k] = "restore"
    /\ Destroyable(tf[k].out[1], tf[k].ver)
    /\ \E e \in Payload(tf[k].ver) :
          /\ e[1] = tf[k].out[2]
          /\ d' = [d EXCEPT ![k].value = e[2]]
          /\ dropped' = IF e[2] = k THEN dropped ELSE dropped \union {k}
    /\ Go(k, "destroy")
    /\ UNCHANGED <<versions, keys, failed>>

(* ... and destroys it, as Delete does after the key.                      *)
DestroyVersion(k) ==
    /\ pc[k] = "destroy"
    /\ Destroyable(tf[k].out[1], tf[k].ver)
    /\ ScheduleDestruction(tf[k].ver)
    /\ CASE op[k] = "delete" -> Return(k, Absent)
         [] op[k] = "update" /\ d[k].out = None -> Return(k, d[k])
         [] OTHER -> Go(k, "add") /\ UNCHANGED d
    /\ UNCHANGED <<keys, failed, dropped>>

(* The destruction is scheduled, but the wait for it fails.                *)
DestroyWaitFails(k) ==
    /\ pc[k] = "destroy"
    /\ Destroyable(tf[k].out[1], tf[k].ver)
    /\ ScheduleDestruction(tf[k].ver)
    /\ KeyError(k, d[k])
    /\ UNCHANGED <<keys, dropped>>

(* Variant: the value stays among the attributes.                          *)
MovedUncleared(x) == [x EXCEPT !.ver = NextId]

(* What the attributes are when the value has been moved.                  *)
Moved(x) == [x EXCEPT !.value = None, !.ver = NextId]

(* What is in the attribute is sent, an empty text too, which removes the  *)
(* entry: the attribute is empty when an update has failed that removed    *)
(* the output, as the state then names none and has no value either.       *)
MoveEntry(k) ==
    AddVersion(k, d[k].out[1], None,
               {<<d[k].out[2], x>> : x \in {d[k].value} \ {None}}, {d[k].out[2]})

(* moveSensitiveAttrsToNewLockboxVersion                                   *)
MoveValue(k) ==
    /\ pc[k] = "add"
    /\ MoveEntry(k)
    /\ Return(k, Moved(d[k]))
    /\ dropped' = IF d[k].value = k THEN dropped ELSE dropped \union {k}
    /\ UNCHANGED <<keys, failed>>

(* The value is cleared before the version is asked for, which may come    *)
(* into being although the wait for it fails.                              *)
MoveFails(k) ==
    /\ pc[k] = "add"
    /\ KeyError(k, [d[k] EXCEPT !.value = None])
    /\ dropped' = dropped \union {k}
    /\ UNCHANGED versions \/ MoveEntry(k)
    /\ UNCHANGED keys

(* AccessKey.Delete; a key that is not found leaves its version alone, and *)
(* an output without a version is an error.                                *)
KeyDeleted(k) ==
    /\ pc[k] = "delete"
    /\ keys' = keys \ {k}
    /\ CASE k \notin keys \/ tf[k].out = None ->
                Return(k, Absent) /\ UNCHANGED failed
         [] k \in keys /\ tf[k].out # None /\ tf[k].ver = None ->
                KeyError(k, d[k])
         [] OTHER -> Go(k, "destroy") /\ UNCHANGED <<d, failed>>
    /\ UNCHANGED <<versions, dropped>>

(* A call fails, without an effect.                                        *)
KeyFails(k) ==
    /\ pc[k] \in {"create", "get", "restore", "destroy", "delete"}
    /\ KeyError(k, d[k])
    /\ UNCHANGED <<versions, keys, dropped>>

(* Somebody deletes the key.                                               *)
KeyVanishes(k) ==
    /\ k \in keys
    /\ keys' = keys \ {k}
    /\ failed' = failed \union {k}
    /\ UNCHANGED <<versions, lock, pc, op, base, d, tf, dropped>>

-----------------------------------------------------------------------------
(* The resources in use are some that the bound Together allows.           *)
Used(r) == tf[r].id \/ pc[r] # "idle" \/ r \in failed
Allowed(r) == \E T \in Together : r \in T /\ \A q \in Resource \ T : ~Used(q)

VersionNext(v) ==
    \/ Allowed(v) /\ VersionCreate(v)
    \/ VersionDelete(v) \/ Lock(v) \/ LookUp(v)
    \/ AddConfigured(v) \/ AddedUnnamed(v) \/ VersionDestroyed(v) \/ VersionFails(v)

KeyNext(k) ==
    \/ Allowed(k) /\ KeyCreate(k)
    \/ KeyUpdate(k) \/ KeyRefresh(k) \/ KeyDelete(k)
    \/ KeyCreated(k) \/ GetKey(k) \/ Restore(k) \/ DestroyVersion(k)
    \/ DestroyWaitFails(k) \/ MoveValue(k) \/ MoveFails(k) \/ KeyDeleted(k) \/ KeyFails(k)
    \/ KeyVanishes(k)

Next == (\E v \in Version : VersionNext(v)) \/ (\E k \in Key : KeyNext(k))

Spec == Init /\ [][Next]_vars

-----------------------------------------------------------------------------
(* "We're simulating the behavior of PayloadChangeKind.FULL"               *)
(* (resource_yandex_lockbox_secret_version.go:280): a new version has      *)
(* exactly the configured entries, whatever outputs add to the secret      *)
(* meanwhile.  Only a version that is based on none may come with other    *)
(* entries, if the output of a key has added a version since the secret    *)
(* was looked up.                                                          *)
VersionAsConfigured ==
    [][\A v \in Version :
        AddConfigured(v) =>
            LET there == versions'[NextId].entries IN
            there # EntriesOf[v] =>
                /\ EntriesOf[v] \subseteq there
                /\ base[v] = None
                /\ Current(SecretOf[v]) # None /\ versions[Current(SecretOf[v])].by \in Key]_vars

(* ManageOutputToLockbox, lockbox_outputs.go:58-60, restores the value     *)
(* before the old version is destroyed: as long as the key exists its      *)
(* value is in the state or in the active version that the state names,    *)
(* whatever call fails, except that AddVersion failed when it was moved,   *)
(* or that after a failed update the state named no output or another one  *)
(* (dropped).                                                              *)
ValueSurvives ==
    \A k \in (Key \intersect keys) \ dropped :
        tf[k].id /\ pc[k] = "idle" =>
            \/ tf[k].value = k
            \/ /\ tf[k].ver # None /\ versions[tf[k].ver].active
               /\ k \in {e[2] : e \in Payload(tf[k].ver)}

(* lockbox_outputs.go:13, "to avoid leaking those values to the Terraform  *)
(* state": once a method has succeeded, a key with an output has its value *)
(* in that secret, under that entry, in the version it names, and not in   *)
(* the state; a key without one has it in the state.  Exempt is a key that *)
(* has lost its value.                                                     *)
OutputHolds ==
    [][\A k \in Key :
        (GetKey(k) \/ MoveValue(k) \/ DestroyVersion(k))
            /\ op[k] \in {"create", "update"} /\ pc'[k] = "idle"
            /\ tf'[k].id /\ k \notin dropped'
        => \/ tf'[k].out = None /\ tf'[k].value = k
           \/ /\ tf'[k].out # None /\ tf'[k].value = None /\ tf'[k].ver # None
              /\ LET stored == versions'[tf'[k].ver] IN
                 /\ stored.active /\ stored.secret = tf'[k].out[1]
                 /\ <<tf'[k].out[2], k>> \in stored.entries]_vars

(* docs/resources/iam_service_account_static_access_key.md:47: the version *)
(* "will be destroyed when the IAM key is destroyed, or when               *)
(* `output_to_lockbox` is removed".  An active version that a resource has *)
(* added is the one its state names, unless the answer to the call that    *)
(* added it was lost, or, for a key, one of its calls has failed or        *)
(* somebody else deleted it.                                               *)
NoVersionLeft ==
    \A n \in DOMAIN versions :
        LET r == versions[n].by IN
        versions[n].active /\ r # None /\ pc[r] = "idle" /\ r \notin failed
            => tf[r].id /\ tf[r].ver = n
=============================================================================
