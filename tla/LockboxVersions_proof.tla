----------------------- MODULE LockboxVersions_proof -----------------------
(***************************************************************************)
(* The versions of Lockbox secrets are what their resources say, and the   *)
(* secret of an IAM key survives its way between the state and Lockbox,    *)
(* for any number of resources, secrets, entries and versions: LockboxInv  *)
(* is inductive.                                                           *)
(***************************************************************************)
EXTENDS LockboxVersions, FiniteSetTheorems, TLAPS

(* The versions are numbered from 1.                                       *)
Numbered ==
    /\ DOMAIN versions = 1 .. Cardinality(DOMAIN versions)
    /\ Cardinality(DOMAIN versions) \in 0 .. MaxVersions

(* A resource names versions that it has added; those of its versions that *)
(* are active.                                                             *)
Names(r, x) == x.ver # None => x.ver \in DOMAIN versions /\ versions[x.ver].by = r
ActiveOf(r) == {n \in DOMAIN versions : versions[n].by = r /\ versions[n].active}

(* A version resource: what its methods work with, and the one active      *)
(* version that it names.                                                  *)
VersionPrepared(v) ==
    /\ pc[v] \in {"idle", "lock", "look", "add", "destroy"}
    /\ op[v] \in {"none", "create", "delete"}
    /\ pc[v] = "idle" <=> op[v] = "none"
    /\ op[v] = "create" => ~tf[v].id /\ d[v] = Absent /\ pc[v] # "destroy"
    /\ op[v] = "delete" => tf[v].id /\ d[v] = tf[v] /\ pc[v] \in {"lock", "destroy"}
    /\ ~tf[v].id => tf[v] = Absent
    /\ Names(v, tf[v])
    /\ v \notin failed => \A n \in ActiveOf(v) : tf[v].id /\ tf[v].ver = n
    /\ base[v] # None => base[v] \in DOMAIN versions

(* It looked the current version up under the mutex: if it found none,     *)
(* only a key can have added one since.                                    *)
Newest(n) ==
    n \in DOMAIN versions /\ \A m \in Numbers(versions[n].secret) : m <= n
LookedUp(v) ==
    pc[v] = "add" /\ base[v] = None =>
        \A n \in Numbers(SecretOf[v]) :
            Newest(n) /\ versions[n].active => versions[n].by \in Key

(* A key: what its methods work with.                                      *)
KeyPrepared(k) ==
    /\ pc[k] \in {"idle", "create", "get", "restore", "destroy", "add", "delete"}
    /\ pc[k] = "idle" <=> op[k] = "none"
    /\ ~tf[k].id => tf[k] = Absent
    /\ Names(k, tf[k]) /\ Names(k, d[k])
    /\ op[k] = "create" =>
          /\ tf[k] = Absent /\ d[k].ver = None /\ pc[k] \in {"create", "get", "add"}
          /\ IF pc[k] = "create" THEN ~d[k].id ELSE d[k].value = k
    /\ op[k] = "read" => pc[k] = "get" /\ tf[k].id /\ d[k] = tf[k]
    /\ op[k] = "update" =>
          /\ pc[k] \in {"get", "restore", "destroy", "add"} /\ tf[k].id
          /\ d[k].out # tf[k].out /\ d[k].ver = tf[k].ver
          /\ pc[k] = "get" => d[k].id
          /\ CASE pc[k] \in {"get", "restore"} -> d[k].value = tf[k].value
               [] pc[k] = "add" /\ tf[k].out = None -> d[k].value = tf[k].value
               [] OTHER -> k \notin dropped => d[k].value = k
    /\ op[k] = "delete" => tf[k].id /\ d[k] = tf[k] /\ pc[k] \in {"delete", "destroy"}
    /\ op[k] = "delete" /\ pc[k] = "destroy" => k \notin keys
    /\ pc[k] \in {"restore", "destroy"} => tf[k].out # None
    /\ pc[k] = "add" => d[k].out # None
    /\ k \in keys /\ op[k] \in {"create", "update"} /\ pc[k] # "create" => d[k].id

(* Where its value is, as long as it exists and its value was not lost: in *)
(* the state, in the active version that the state names, or on its way    *)
(* from the one to the other.                                              *)
Stored(vs, k, n) ==
    n \in DOMAIN vs /\ vs[n].active /\ \E e \in vs[n].entries : e[2] = k
KeyKept(k) ==
    k \in keys \ dropped /\ tf[k].id =>
        \/ tf[k].value = k
        \/ Stored(versions, k, tf[k].ver)
        \/ op[k] = "update" /\ pc[k] = "add" /\ tf[k].out # None

(* What it has in Lockbox, as long as no call has failed.                  *)
KeyTidy(k) ==
    k \notin failed =>
        /\ tf[k].id /\ ~(op[k] = "delete" /\ pc[k] = "destroy") => k \in keys
        /\ op[k] = "create" /\ pc[k] # "create" => k \in keys
        /\ \A n \in ActiveOf(k) :
              tf[k].id /\ tf[k].ver = n /\ tf[k].out # None /\ pc[k] # "add"

VersionOk(v) == VersionPrepared(v) /\ LookedUp(v)
KeyOk(k) == KeyPrepared(k) /\ KeyKept(k) /\ KeyTidy(k)
LockboxInv ==
    /\ TypeOK
    /\ Numbered
    /\ \A v \in Version : VersionOk(v)
    /\ \A k \in Key : KeyOk(k)

-----------------------------------------------------------------------------
(* What happens to the versions: those of others stay as they are, and a   *)
(* new one is added at the end.                                            *)
VersionStep(r) ==
    /\ DOMAIN versions \subseteq DOMAIN versions'
    /\ \A n \in DOMAIN versions :
          /\ versions'[n].by = versions[n].by
          /\ versions'[n].secret = versions[n].secret
          /\ versions'[n].entries = versions[n].entries
          /\ versions'[n].active => versions[n].active
          /\ versions[n].by # r => versions'[n].active = versions[n].active
    /\ \A n \in DOMAIN versions' \ DOMAIN versions :
          versions'[n].by = r /\ \A m \in DOMAIN versions : m < n
VersionTypes ==
    /\ DOMAIN versions \subseteq VersionId
    /\ \A n \in DOMAIN versions : versions[n] \in StoredVersion

LEMMA SameVersions ==
  ASSUME LockboxInv, NEW r \in Resource, UNCHANGED versions
  PROVE  VersionStep(r) /\ VersionTypes' /\ Numbered'
  BY DEF VersionStep, VersionTypes, LockboxInv, TypeOK, Numbered

(* The number of the next version is the first free one.                   *)
LEMMA NextIsNew ==
  ASSUME LockboxInv, CanAdd
  PROVE  /\ NextId \in VersionId \ DOMAIN versions
         /\ \A m \in DOMAIN versions : m < NextId
         /\ DOMAIN versions \union {NextId} = 1 .. NextId
         /\ Cardinality(1 .. NextId) = NextId
<1> DEFINE c == Cardinality(DOMAIN versions)
<1>1. DOMAIN versions = 1 .. c /\ c \in 0 .. MaxVersions /\ c < MaxVersions /\ MaxVersions \in Nat
  BY LockboxAssumption DEF LockboxInv, Numbered, CanAdd
<1>2. NextId = c + 1
  BY DEF NextId
<1> HIDE DEF c
<1>3. Cardinality(1 .. NextId) = NextId
  BY <1>1, <1>2, FS_Interval
<1> QED BY <1>1, <1>2, <1>3 DEF VersionId

LEMMA VersionAdded ==
  ASSUME LockboxInv, NEW r \in Resource, NEW s \in Secret, NEW from \in VersionId \union {None},
         from = None \/ from \in DOMAIN versions,
         NEW changes \in SUBSET Entry, NEW removed, AddVersion(r, s, from, changes, removed)
  PROVE  /\ VersionStep(r) /\ VersionTypes' /\ Numbered'
         /\ DOMAIN versions' = DOMAIN versions \union {NextId}
         /\ NextId \in VersionId \ DOMAIN versions
         /\ \A n \in DOMAIN versions : versions'[n] = versions[n]
         /\ versions'[NextId] =
              [secret |-> s, active |-> TRUE, by |-> r,
               entries |-> Changed(Payload(IF from = None THEN Current(s) ELSE from),
                                   changes, removed)]
<1> DEFINE b == IF from = None THEN Current(s) ELSE from
           new == [secret |-> s, active |-> TRUE, by |-> r,
                   entries |-> Changed(Payload(b), changes, removed)]
<1>1. /\ versions' = [n \in DOMAIN versions \union {NextId} |->
                         IF n = NextId THEN new ELSE versions[n]]
      /\ CanAdd
  BY DEF AddVersion
<1>2. b = None \/ b \in DOMAIN versions
  BY DEF Current, Numbers
<1>3. Payload(b) \subseteq Entry
  BY <1>2 DEF Payload, LockboxInv, TypeOK, StoredVersion
<1>4. new \in StoredVersion
  BY <1>3 DEF StoredVersion, Changed
<1> HIDE DEF new
<1>5. /\ DOMAIN versions' = DOMAIN versions \union {NextId}
      /\ versions'[NextId] = new
      /\ \A n \in DOMAIN versions : versions'[n] = versions[n]
  BY <1>1, NextIsNew
<1>6. Numbered'
  <2>1. DOMAIN versions' = 1 .. NextId
    BY <1>1, <1>5, NextIsNew
  <2>2. Cardinality(DOMAIN versions') = NextId
    BY <1>1, <2>1, NextIsNew
  <2>3. NextId \in 1 .. MaxVersions
    BY <1>1, NextIsNew DEF VersionId
  <2>4. NextId \in 0 .. MaxVersions
    BY <2>3, LockboxAssumption
  <2> QED BY <2>1, <2>2, <2>4 DEF Numbered
<1>7. VersionTypes'
  BY <1>1, <1>4, <1>5, NextIsNew DEF VersionTypes, LockboxInv, TypeOK
<1>8. VersionStep(r)
  <2>1. new.by = r
    BY DEF new
  <2> QED BY <1>1, <1>5, <2>1, NextIsNew DEF VersionStep
<1> QED BY <1>1, <1>5, <1>6, <1>7, <1>8, NextIsNew DEF new

LEMMA VersionGone ==
  ASSUME LockboxInv, NEW r \in Resource, NEW n \in DOMAIN versions, versions[n].by = r,
         ScheduleDestruction(n)
  PROVE  /\ VersionStep(r) /\ VersionTypes' /\ Numbered'
         /\ DOMAIN versions' = DOMAIN versions
         /\ ~versions'[n].active
         /\ \A m \in DOMAIN versions : m # n => versions'[m] = versions[m]
<1>1. /\ DOMAIN versions' = DOMAIN versions
      /\ versions'[n] = [versions[n] EXCEPT !.active = FALSE]
      /\ \A m \in DOMAIN versions : m # n => versions'[m] = versions[m]
  BY DEF ScheduleDestruction
<1>2. \A m \in DOMAIN versions : versions[m] \in StoredVersion
  BY DEF LockboxInv, TypeOK
<1>3. versions'[n] \in StoredVersion /\ ~versions'[n].active
      /\ versions'[n].by = r /\ versions'[n].secret = versions[n].secret
      /\ versions'[n].entries = versions[n].entries
  BY <1>1, <1>2 DEF StoredVersion
<1>4. VersionTypes' /\ Numbered'
  BY <1>1, <1>2, <1>3 DEF VersionTypes, LockboxInv, TypeOK, Numbered
<1>5. VersionStep(r)
  BY <1>1, <1>3 DEF VersionStep
<1> QED BY <1>1, <1>3, <1>4, <1>5

(* A version that becomes current is new, or was current before.           *)
LEMMA CurrentIs ==
  ASSUME LockboxInv, NEW s
  PROVE  /\ Current(s) # None =>
               /\ Current(s) \in Numbers(s) /\ Newest(Current(s))
               /\ versions[Current(s)].active
         /\ Current(s) = None => \A n \in Numbers(s) : Newest(n) => ~versions[n].active
<1> DEFINE newest == {n \in Numbers(s) : \A k \in Numbers(s) : k <= n}
<1>1. \A n \in Numbers(s) : n \in newest <=> Newest(n)
  BY DEF Newest, Numbers
<1>2. \A n, m \in newest : n = m
  <2>1. Numbers(s) \subseteq Nat
    BY DEF Numbers, LockboxInv, TypeOK, VersionId
  <2> QED BY <2>1
<1>3. None \notin DOMAIN versions
  BY LockboxAssumption DEF LockboxInv, TypeOK
<1>4. Current(s) = IF \E n \in newest : versions[n].active
                   THEN CHOOSE n \in newest : TRUE ELSE None
  BY DEF Current
<1>5. newest \subseteq Numbers(s) /\ Numbers(s) \subseteq DOMAIN versions
  BY DEF Numbers
<1> HIDE DEF newest
<1> QED BY <1>1, <1>2, <1>3, <1>4, <1>5

-----------------------------------------------------------------------------
(* A step of one resource keeps what is said of the others; one of a       *)
(* version resource that changes versions is made under the mutex.         *)
Untouched(q) ==
    /\ pc'[q] = pc[q] /\ op'[q] = op[q] /\ d'[q] = d[q] /\ tf'[q] = tf[q]
    /\ q \in Version => base'[q] = base[q]
    /\ q \in keys' <=> q \in keys
    /\ q \in failed' <=> q \in failed
    /\ q \in dropped' <=> q \in dropped

LEMMA OthersKeep ==
  ASSUME LockboxInv, NEW r \in Resource, VersionStep(r),
         r \in Key \/ lock = r \/ UNCHANGED versions,
         NEW q \in Resource \ {r}, Untouched(q)
  PROVE  /\ q \in Version => VersionOk(q)'
         /\ q \in Key => KeyOk(q)'
<1> USE DEF Untouched
<1>1. ActiveOf(q)' = ActiveOf(q)
  BY DEF ActiveOf, VersionStep
<1>2. ASSUME NEW x, Names(q, x) PROVE x.ver # None => x.ver \in DOMAIN versions' /\ versions'[x.ver].by = q
  BY <1>2 DEF Names, VersionStep
<1>3. CASE q \in Version
  <2>1. VersionPrepared(q)'
    BY <1>1, <1>2, <1>3 DEF LockboxInv, VersionOk, VersionPrepared, VersionStep, Names
  <2>2. LookedUp(q)'
    <3> SUFFICES ASSUME pc'[q] = "add", base'[q] = None, NEW n \in Numbers(SecretOf[q])',
                        Newest(n)', versions'[n].active
                 PROVE  versions'[n].by \in Key
      BY DEF LookedUp
    <3>1. lock = q
      BY <1>3 DEF LockboxInv, TypeOK
    <3>2. CASE n \in DOMAIN versions
      <4>1. n \in Numbers(SecretOf[q]) /\ Newest(n) /\ versions[n].active
        BY <3>2 DEF VersionStep, Numbers, Newest
      <4> QED BY <1>3, <3>2, <4>1 DEF LockboxInv, VersionOk, LookedUp, VersionStep
    <3>3. CASE n \notin DOMAIN versions
      BY <3>1, <3>3 DEF VersionStep, Numbers
    <3> QED BY <3>2, <3>3
  <2> QED BY <1>3, <2>1, <2>2, LockboxAssumption DEF VersionOk
<1>4. CASE q \in Key
  <2>1. KeyPrepared(q)'
    BY <1>2, <1>4 DEF LockboxInv, KeyOk, KeyPrepared, Names
  <2>2. \A n : Stored(versions, q, n) /\ versions[n].by = q => Stored(versions', q, n)
    BY DEF VersionStep, Stored
  <2>3. KeyKept(q)'
    BY <1>4, <2>2, LockboxAssumption DEF LockboxInv, KeyOk, KeyKept, KeyPrepared, Names, Stored, TypeOK
  <2>4. KeyTidy(q)'
    BY <1>1, <1>4 DEF LockboxInv, KeyOk, KeyTidy
  <2> QED BY <1>4, <2>1, <2>3, <2>4, LockboxAssumption DEF KeyOk
<1> QED BY <1>3, <1>4, LockboxAssumption

(* The types after a handler has returned.                                 *)
LEMMA ReturnTypes ==
  ASSUME TypeOK, NEW r \in Resource, NEW x \in Data, Return(r, x)
  PROVE  /\ lock' \in Version \union {None}
         /\ pc' \in [Resource -> Location]
         /\ op' \in [Resource -> {"none", "create", "read", "update", "delete"}]
         /\ base' \in [Version -> VersionId \union {None}]
         /\ d' \in [Resource -> Data]
         /\ tf' \in [Resource -> Data]
         /\ \A v \in Version : lock' = v <=> pc'[v] \notin {"idle", "lock"}
         /\ pc'[r] = "idle" /\ op'[r] = "none" /\ d'[r] = Absent
         /\ tf'[r] = IF x.id THEN x ELSE Absent
         /\ r \in Version => base'[r] = None
         /\ \A q \in Resource \ {r} :
               /\ pc'[q] = pc[q] /\ op'[q] = op[q] /\ d'[q] = d[q] /\ tf'[q] = tf[q]
               /\ q \in Version => base'[q] = base[q]
<1> USE LockboxAssumption DEF Return, TypeOK
<1>1. Absent \in Data
  BY DEF Absent, Data
<1>2. base' \in [Version -> VersionId \union {None}]
  OBVIOUS
<1>3. /\ lock' \in Version \union {None}
      /\ pc' \in [Resource -> Location]
      /\ op' \in [Resource -> {"none", "create", "read", "update", "delete"}]
  BY DEF Location
<1>4. d' \in [Resource -> Data] /\ tf' \in [Resource -> Data]
  BY <1>1
<1>5. \A v \in Version : lock' = v <=> pc'[v] \notin {"idle", "lock"}
  BY DEF Resource
<1>6. r \in Version => base'[r] = None
  OBVIOUS
<1>7. \A q \in Resource \ {r} :
         /\ pc'[q] = pc[q] /\ op'[q] = op[q] /\ d'[q] = d[q] /\ tf'[q] = tf[q]
         /\ q \in Version => base'[q] = base[q]
  OBVIOUS
<1>8. pc'[r] = "idle" /\ op'[r] = "none" /\ d'[r] = Absent /\ tf'[r] = IF x.id THEN x ELSE Absent
  OBVIOUS
<1> QED BY <1>2, <1>3, <1>4, <1>5, <1>6, <1>7, <1>8

(* What a failing method leaves.                                           *)
FailState(r, x) ==
    CASE op[r] = "create" -> [x EXCEPT !.tainted = TRUE]
      [] op[r] = "update" -> x
      [] OTHER -> tf[r]

LEMMA FailReturns ==
  ASSUME TypeOK, NEW r \in Resource, NEW x \in Data, Fail(r, x)
  PROVE  Return(r, FailState(r, x)) /\ FailState(r, x) \in Data
<1>1. Return(r, FailState(r, x))
  BY DEF Fail, FailState
<1>2. [x EXCEPT !.tainted = TRUE] \in Data /\ tf[r] \in Data
  BY DEF TypeOK, Data
<1>3. FailState(r, x) \in Data
  BY <1>2 DEF FailState
<1> QED BY <1>1, <1>3

(* What is left to show of a handler that returns.                         *)
LEMMA ReturnInv ==
  ASSUME LockboxInv, NEW r \in Resource, NEW x \in Data, Return(r, x),
         VersionStep(r), VersionTypes', Numbered',
         r \in Key \/ lock = r \/ UNCHANGED versions,
         keys' \subseteq Key, failed' \subseteq Resource, dropped' \subseteq Key,
         \A q \in Resource \ {r} : q \in failed' <=> q \in failed,
         \A q \in Key \ {r} :
            /\ q \in keys' <=> q \in keys
            /\ q \in dropped' <=> q \in dropped,
         r \in Version => VersionPrepared(r)', r \in Key => KeyOk(r)'
  PROVE  LockboxInv'
<1>1. TypeOK'
  BY ReturnTypes DEF TypeOK, LockboxInv, VersionTypes
<1>2. ASSUME NEW q \in Resource \ {r} PROVE Untouched(q)
  <2>1. q \in Version => q \notin keys /\ q \notin keys'
                          /\ q \notin dropped /\ q \notin dropped'
    BY LockboxAssumption DEF LockboxInv, TypeOK
  <2>2. /\ pc'[q] = pc[q] /\ op'[q] = op[q] /\ d'[q] = d[q] /\ tf'[q] = tf[q]
        /\ q \in Version => base'[q] = base[q]
    BY ReturnTypes DEF LockboxInv
  <2>3. CASE q \in Version
    BY <2>1, <2>2, <2>3 DEF Untouched
  <2>4. CASE q \in Key \ {r}
    BY <2>2, <2>4 DEF Untouched
  <2> QED BY <2>3, <2>4 DEF Resource
<1>3. ASSUME NEW q \in Resource \ {r}
      PROVE  (q \in Version => VersionOk(q)') /\ (q \in Key => KeyOk(q)')
  BY <1>2, OthersKeep
<1>4. r \in Version => LookedUp(r)'
  BY ReturnTypes DEF LookedUp, LockboxInv
<1>5. \A q \in Resource : (q \in Version => VersionOk(q)') /\ (q \in Key => KeyOk(q)')
  BY <1>3, <1>4 DEF VersionOk
<1> QED BY <1>1, <1>5 DEF LockboxInv, Resource

(* What is left to show of a handler that goes on.                         *)
LEMMA StepInv ==
  ASSUME LockboxInv, NEW r \in Resource, TypeOK', VersionStep(r), Numbered',
         r \in Key \/ UNCHANGED versions,
         \A q \in Resource \ {r} : Untouched(q),
         r \in Version => VersionOk(r)', r \in Key => KeyOk(r)'
  PROVE  LockboxInv'
<1>1. \A q \in Resource : (q \in Version => VersionOk(q)') /\ (q \in Key => KeyOk(q)')
  BY OthersKeep
<1> QED BY <1>1 DEF LockboxInv, Resource

LEMMA GoOnInv ==
  ASSUME LockboxInv, NEW r \in Resource, TypeOK', UNCHANGED versions,
         \A q \in Resource \ {r} : Untouched(q),
         r \in Version => VersionOk(r)', r \in Key => KeyOk(r)'
  PROVE  LockboxInv'
  BY SameVersions, StepInv

-----------------------------------------------------------------------------
LEMMA InitLockboxInv == Init => LockboxInv
<1> SUFFICES ASSUME Init PROVE LockboxInv OBVIOUS
<1> USE LockboxAssumption DEF Init
<1>1. Absent \in Data /\ Absent.ver = None /\ ~Absent.id
  BY DEF Absent, Data
<1>2. /\ VersionTypes /\ (DOMAIN versions = 1 .. 0 \/ DOMAIN versions = 1 .. 1)
      /\ \A n \in DOMAIN versions : versions[n].by = None
  <2>1. CASE versions = << >>
    BY <2>1 DEF VersionTypes
  <2>2. ASSUME NEW v \in Version,
               versions = <<[secret |-> SecretOf[v], entries |-> Given, active |-> TRUE, by |-> None]>>
        PROVE  /\ VersionTypes /\ DOMAIN versions = 1 .. 1
               /\ \A n \in DOMAIN versions : versions[n].by = None
    <3> DEFINE first == [secret |-> SecretOf[v], entries |-> Given, active |-> TRUE, by |-> None]
    <3>1. first \in StoredVersion /\ first.by = None
      BY DEF StoredVersion, Entry, Value
    <3>2. DOMAIN versions = 1 .. 1 /\ versions[1] = first /\ 1 .. 1 = {1}
      BY <2>2
    <3>3. 1 \in VersionId
      BY DEF VersionId
    <3> HIDE DEF first
    <3> QED BY <3>1, <3>2, <3>3 DEF VersionTypes
  <2> QED BY <2>1, <2>2
<1>3. Numbered
  <2>1. CASE DOMAIN versions = 1 .. 0
    <3>1. Cardinality(1 .. 0) = 0
      BY FS_Interval
    <3>2. Cardinality(DOMAIN versions) = 0
      BY <2>1, <3>1
    <3> QED BY <2>1, <3>2 DEF Numbered
  <2>2. CASE DOMAIN versions = 1 .. 1
    <3>1. Cardinality({1}) = 1
      BY FS_Singleton
    <3>2. DOMAIN versions = {1}
      BY <2>2
    <3>3. Cardinality(DOMAIN versions) = 1
      BY <3>1, <3>2
    <3> QED BY <2>2, <3>3 DEF Numbered
  <2> QED BY <1>2, <2>1, <2>2
<1>4. TypeOK
  BY <1>1, <1>2 DEF TypeOK, VersionTypes, Location, Resource
<1>5. ASSUME NEW r \in Resource
      PROVE  /\ ActiveOf(r) = {} /\ pc[r] = "idle" /\ op[r] = "none"
             /\ d[r] = Absent /\ tf[r] = Absent /\ r \notin keys
  BY <1>2 DEF ActiveOf
<1>6. ASSUME NEW v \in Version PROVE VersionOk(v)
  <2>1. v \in Resource /\ base[v] = None
    BY DEF Resource
  <2> QED BY <1>1, <1>5, <2>1 DEF VersionOk, VersionPrepared, LookedUp, Names
<1>7. ASSUME NEW k \in Key PROVE KeyOk(k)
  <2>1. k \in Resource
    BY DEF Resource
  <2> QED BY <1>1, <1>5, <2>1 DEF KeyOk, KeyPrepared, KeyKept, KeyTidy, Names
<1> QED BY <1>3, <1>4, <1>6, <1>7 DEF LockboxInv

-----------------------------------------------------------------------------
(* The handlers of a version resource.                                     *)

LEMMA VersionBeginsInv ==
  ASSUME LockboxInv, NEW v \in Version, VersionCreate(v) \/ VersionDelete(v)
  PROVE  LockboxInv'
<1> USE LockboxAssumption DEF VersionCreate, VersionDelete, Call
<1>1. v \in Resource /\ Absent \in Data
  BY DEF Resource, Absent, Data
<1>2. TypeOK'
  BY <1>1 DEF LockboxInv, TypeOK, Location, Resource
<1>3. \A q \in Resource \ {v} : Untouched(q)
  BY DEF Untouched, LockboxInv, TypeOK
<1>4. VersionOk(v)'
  BY <1>1 DEF LockboxInv, TypeOK, VersionOk, VersionPrepared, LookedUp, Names, ActiveOf
<1> QED BY <1>1, <1>2, <1>3, <1>4, GoOnInv

LEMMA LockInv ==
  ASSUME LockboxInv, NEW v \in Version, Lock(v)
  PROVE  LockboxInv'
<1> USE LockboxAssumption DEF Lock
<1>1. v \in Resource
  BY DEF Resource
<1>2. TypeOK'
  BY <1>1 DEF LockboxInv, TypeOK, Location, Resource
<1>3. \A q \in Resource \ {v} : Untouched(q)
  BY DEF Untouched, LockboxInv, TypeOK
<1>4. VersionOk(v)'
  BY <1>1 DEF LockboxInv, TypeOK, VersionOk, VersionPrepared, LookedUp, Names, ActiveOf
<1> QED BY <1>1, <1>2, <1>3, <1>4, GoOnInv

LEMMA LookUpInv ==
  ASSUME LockboxInv, NEW v \in Version, LookUp(v)
  PROVE  LockboxInv'
<1> USE LockboxAssumption DEF LookUp
<1>1. v \in Resource
  BY DEF Resource
<1>2. Current(SecretOf[v]) = None \/ Current(SecretOf[v]) \in DOMAIN versions
  BY CurrentIs DEF Numbers
<1>3. TypeOK'
  BY <1>1, <1>2 DEF LockboxInv, TypeOK, Location, Resource
<1>4. \A q \in Resource \ {v} : Untouched(q)
  BY DEF Untouched, LockboxInv, TypeOK
<1>5. VersionPrepared(v)'
  BY <1>1, <1>2 DEF LockboxInv, TypeOK, VersionOk, VersionPrepared, Names, ActiveOf
<1>6. LookedUp(v)'
  BY <1>1, CurrentIs DEF LockboxInv, TypeOK, LookedUp, Newest, Numbers
<1> QED BY <1>1, <1>3, <1>4, <1>5, <1>6, GoOnInv DEF VersionOk

(* A version resource that has returned.                                   *)
LEMMA AddConfiguredInv ==
  ASSUME LockboxInv, NEW v \in Version, AddConfigured(v)
  PROVE  LockboxInv'
<1> DEFINE x == [d[v] EXCEPT !.id = TRUE, !.ver = NextId]
<1>1. /\ v \in Resource /\ pc[v] = "add" /\ op[v] = "create" /\ lock = v /\ ~tf[v].id
      /\ d[v] \in Data /\ SecretOf[v] \in Secret /\ EntriesOf[v] \in SUBSET Entry
      /\ base[v] \in VersionId \union {None} /\ (base[v] = None \/ base[v] \in DOMAIN versions)
  BY LockboxAssumption
  DEF AddConfigured, LockboxInv, TypeOK, VersionOk, VersionPrepared, Resource, Entry, Value
<1>2. AddVersion(v, SecretOf[v], base[v], EntriesOf[v], RemovedKeys(v))
  BY DEF AddConfigured, BaseVersionId
<1>3. /\ VersionStep(v) /\ VersionTypes' /\ Numbered'
      /\ DOMAIN versions' = DOMAIN versions \union {NextId}
      /\ NextId \in VersionId \ DOMAIN versions
      /\ \A n \in DOMAIN versions : versions'[n] = versions[n]
      /\ versions'[NextId] =
           [secret |-> SecretOf[v], active |-> TRUE, by |-> v,
            entries |-> Changed(Payload(IF base[v] = None THEN Current(SecretOf[v]) ELSE base[v]),
                                EntriesOf[v], RemovedKeys(v))]
  BY <1>1, <1>2, VersionAdded
<1>4. x \in Data /\ x.id /\ x.ver = NextId
  BY <1>1, <1>3 DEF Data
<1>5. [x EXCEPT !.tainted = TRUE] \in Data /\ [x EXCEPT !.tainted = TRUE].id
      /\ [x EXCEPT !.tainted = TRUE].ver = NextId
  BY <1>4 DEF Data
<1>6. PICK y \in {x, [x EXCEPT !.tainted = TRUE]} : Return(v, y)
  BY <1>1 DEF AddConfigured, Fail
<1>7. y \in Data /\ y.id /\ y.ver = NextId
  BY <1>4, <1>5, <1>6
<1> HIDE DEF x
<1>8. VersionPrepared(v)'
  <2>1. tf'[v] = y /\ pc'[v] = "idle" /\ op'[v] = "none" /\ base'[v] = None
    BY <1>1, <1>6, <1>7, ReturnTypes DEF LockboxInv
  <2>2. v \notin failed' => \A n \in ActiveOf(v)' : n = NextId
    <3>1. versions'[NextId].by = v /\ failed' = failed
      BY <1>3 DEF AddConfigured
    <3> QED BY <1>1, <1>3, <3>1 DEF ActiveOf, LockboxInv, VersionOk, VersionPrepared
  <2>3. versions'[NextId].by = v /\ NextId \in DOMAIN versions'
    BY <1>3
  <2> QED BY <1>7, <2>1, <2>2, <2>3 DEF VersionPrepared, Names
<1>9. /\ keys' = keys /\ failed' = failed /\ dropped' = dropped /\ v \notin Key
      /\ keys \subseteq Key /\ failed \subseteq Resource /\ dropped \subseteq Key
  BY LockboxAssumption DEF AddConfigured, LockboxInv, TypeOK
<1> QED BY <1>1, <1>3, <1>6, <1>7, <1>8, <1>9, ReturnInv

LEMMA AddedUnnamedInv ==
  ASSUME LockboxInv, NEW v \in Version, AddedUnnamed(v)
  PROVE  LockboxInv'
<1>1. /\ v \in Resource /\ op[v] = "create" /\ lock = v /\ tf[v] = Absent /\ d[v] = Absent
      /\ SecretOf[v] \in Secret /\ EntriesOf[v] \in SUBSET Entry /\ v \notin Key
      /\ base[v] \in VersionId \union {None} /\ (base[v] = None \/ base[v] \in DOMAIN versions)
  BY LockboxAssumption
  DEF AddedUnnamed, LockboxInv, TypeOK, VersionOk, VersionPrepared, Resource, Entry, Value
<1>2. /\ AddVersion(v, SecretOf[v], base[v], EntriesOf[v], RemovedKeys(v))
      /\ failed' = failed \union {v} /\ UNCHANGED <<keys, dropped>>
      /\ keys \subseteq Key /\ failed \subseteq Resource /\ dropped \subseteq Key
  BY DEF AddedUnnamed, BaseVersionId, LockboxInv, TypeOK
<1>3. VersionStep(v) /\ VersionTypes' /\ Numbered'
  BY <1>1, <1>2, VersionAdded
<1> DEFINE y == [Absent EXCEPT !.tainted = TRUE]
<1>4. Return(v, y) /\ y \in Data /\ ~y.id
  BY <1>1 DEF AddedUnnamed, Fail, Absent, Data
<1> HIDE DEF y
<1>5. VersionPrepared(v)'
  <2>1. tf'[v] = Absent /\ pc'[v] = "idle" /\ op'[v] = "none" /\ base'[v] = None
    BY <1>1, <1>4, ReturnTypes DEF LockboxInv
  <2>2. v \in failed' /\ Absent.ver = None
    BY <1>2 DEF Absent
  <2> QED BY <2>1, <2>2 DEF VersionPrepared, Names
<1> QED BY <1>1, <1>2, <1>3, <1>4, <1>5, ReturnInv

LEMMA VersionDestroyedInv ==
  ASSUME LockboxInv, NEW v \in Version, VersionDestroyed(v)
  PROVE  LockboxInv'
<1>1. /\ v \in Resource /\ pc[v] = "destroy" /\ op[v] = "delete" /\ lock = v
      /\ tf[v] \in Data /\ Absent \in Data /\ ~Absent.id /\ Absent.ver = None
      /\ v \notin Key
  BY LockboxAssumption
  DEF VersionDestroyed, LockboxInv, TypeOK, VersionOk, VersionPrepared, Resource, Absent, Data
<1>2. /\ tf[v].ver \in DOMAIN versions /\ ScheduleDestruction(tf[v].ver)
      /\ keys' = keys /\ failed' = failed /\ dropped' = dropped
      /\ keys \subseteq Key /\ failed \subseteq Resource /\ dropped \subseteq Key
  BY DEF VersionDestroyed, Destroyable, LockboxInv, TypeOK
<1>3. versions[tf[v].ver].by = v
  BY <1>2, LockboxAssumption DEF LockboxInv, VersionOk, VersionPrepared, Names, TypeOK
<1>4. /\ VersionStep(v) /\ VersionTypes' /\ Numbered'
      /\ DOMAIN versions' = DOMAIN versions
      /\ ~versions'[tf[v].ver].active
      /\ \A m \in DOMAIN versions : m # tf[v].ver => versions'[m] = versions[m]
  BY <1>1, <1>2, <1>3, VersionGone
<1>5. PICK y \in {Absent, tf[v]} : Return(v, y)
  BY <1>1 DEF VersionDestroyed, Fail
<1>6. VersionPrepared(v)'
  <2>1. /\ tf'[v] = (IF y.id THEN y ELSE Absent)
        /\ pc'[v] = "idle" /\ op'[v] = "none" /\ base'[v] = None
    BY <1>1, <1>5, ReturnTypes DEF LockboxInv
  <2>2. v \notin failed' => ActiveOf(v)' = {}
    BY <1>2, <1>4 DEF ActiveOf, LockboxInv, VersionOk, VersionPrepared, VersionStep
  <2>3. tf'[v] = tf[v] \/ tf'[v] = Absent
    BY <1>5, <2>1
  <2> QED BY <1>1, <1>3, <1>4, <2>1, <2>2, <2>3
      DEF VersionPrepared, Names, LockboxInv, VersionOk, VersionStep
<1>7. y \in Data
  BY <1>1, <1>5
<1> QED BY <1>1, <1>2, <1>4, <1>5, <1>6, <1>7, ReturnInv

LEMMA VersionFailsInv ==
  ASSUME LockboxInv, NEW v \in Version, VersionFails(v)
  PROVE  LockboxInv'
<1>1. /\ v \in Resource /\ d[v] \in Data /\ Fail(v, d[v])
      /\ v \notin Key /\ UNCHANGED <<versions, keys, failed, dropped>>
      /\ keys \subseteq Key /\ failed \subseteq Resource /\ dropped \subseteq Key
  BY LockboxAssumption DEF VersionFails, LockboxInv, TypeOK, Resource
<1>2. VersionStep(v) /\ VersionTypes' /\ Numbered'
  BY <1>1, SameVersions
<1>3. Return(v, FailState(v, d[v])) /\ FailState(v, d[v]) \in Data
  BY <1>1, FailReturns DEF LockboxInv
<1>4. VersionPrepared(v)'
  <2>1. /\ tf'[v] = (IF FailState(v, d[v]).id THEN FailState(v, d[v]) ELSE Absent)
        /\ pc'[v] = "idle" /\ op'[v] = "none" /\ base'[v] = None
    BY <1>1, <1>3, ReturnTypes DEF LockboxInv
  <2>2. tf'[v] = tf[v]
    <3>1. /\ VersionPrepared(v) /\ op[v] \in {"create", "delete"}
      BY DEF LockboxInv, VersionOk, VersionPrepared, VersionFails
    <3>2. CASE op[v] = "create"
      <4>1. FailState(v, d[v]) = [Absent EXCEPT !.tainted = TRUE] /\ tf[v] = Absent
        BY <3>1, <3>2 DEF FailState, VersionPrepared
      <4> QED BY <2>1, <4>1 DEF Absent
    <3>3. CASE op[v] = "delete"
      BY <2>1, <3>1, <3>3 DEF FailState, VersionPrepared
    <3> QED BY <3>1, <3>2, <3>3
  <2>3. ActiveOf(v)' = ActiveOf(v)
    BY <1>1 DEF ActiveOf
  <2> QED BY <1>1, <2>1, <2>2, <2>3 DEF VersionPrepared, Names, LockboxInv, VersionOk
<1> QED BY <1>1, <1>2, <1>3, <1>4, ReturnInv

-----------------------------------------------------------------------------
(* The handlers of a key.                                                  *)

LEMMA KeyFacts ==
  ASSUME LockboxInv, NEW k \in Key
  PROVE  /\ k \in Resource /\ k \notin Version
         /\ d[k] \in Data /\ tf[k] \in Data
         /\ KeyPrepared(k) /\ KeyKept(k) /\ KeyTidy(k)
         /\ keys \subseteq Key /\ failed \subseteq Resource /\ dropped \subseteq Key
         /\ Absent \in Data /\ ~Absent.id /\ Absent.ver = None /\ Absent.out = None
         /\ Absent.value = None
  BY LockboxAssumption DEF LockboxInv, TypeOK, KeyOk, Resource, Absent, Data

LEMMA KeyBeginsInv ==
  ASSUME LockboxInv, NEW k \in Key,
         KeyCreate(k) \/ KeyUpdate(k) \/ KeyRefresh(k) \/ KeyDelete(k)
  PROVE  LockboxInv'
<1>1. PICK m \in {"create", "update", "read", "delete"}, x \in Data,
           first \in {"create", "get", "delete"} :
        /\ Call(k, m, x, first)
        /\ m = "create" => ~tf[k].id /\ first = "create" /\ ~x.id /\ x.ver = None
        /\ m = "update" => /\ tf[k].id /\ first = "get" /\ x.id /\ x.out # tf[k].out
                           /\ x.ver = tf[k].ver /\ x.value = tf[k].value
        /\ m = "read" => tf[k].id /\ first = "get" /\ x = tf[k]
        /\ m = "delete" => tf[k].id /\ first = "delete" /\ x = tf[k]
  <2>1. \A w \in Output[k] \union {None} : w \in (Secret \X EntryKey) \union {None}
    BY LockboxAssumption
  <2>2. CASE KeyCreate(k)
    <3>1. PICK w \in Output[k] \union {None} :
            Call(k, "create", [Absent EXCEPT !.out = w], "create")
      BY <2>2 DEF KeyCreate
    <3>2. [Absent EXCEPT !.out = w] \in Data /\ ~[Absent EXCEPT !.out = w].id
          /\ [Absent EXCEPT !.out = w].ver = None
      BY <2>1 DEF Absent, Data
    <3> QED BY <2>2, <3>1, <3>2 DEF KeyCreate
  <2>3. CASE KeyUpdate(k)
    <3>1. PICK w \in (Output[k] \union {None}) \ {tf[k].out} :
            Call(k, "update", [tf[k] EXCEPT !.out = w], "get")
      BY <2>3 DEF KeyUpdate
    <3> DEFINE x == [tf[k] EXCEPT !.out = w]
    <3>2. x \in Data /\ x.id = tf[k].id /\ x.out = w /\ x.ver = tf[k].ver /\ x.value = tf[k].value
      BY <2>1, KeyFacts DEF Data
    <3> QED BY <2>3, <3>1, <3>2 DEF KeyUpdate
  <2>4. CASE KeyRefresh(k)
    BY <2>4, KeyFacts DEF KeyRefresh
  <2>5. CASE KeyDelete(k)
    BY <2>5, KeyFacts DEF KeyDelete
  <2> QED BY <2>2, <2>3, <2>4, <2>5
<1> USE DEF Call
<1>2. TypeOK'
  BY <1>1, LockboxAssumption DEF LockboxInv, TypeOK, Location, Resource
<1>3. \A q \in Resource \ {k} : Untouched(q)
  BY <1>1, KeyFacts DEF Untouched, LockboxInv, TypeOK
<1>4. /\ pc'[k] = first /\ op'[k] = m /\ d'[k] = x /\ tf'[k] = tf[k] /\ pc[k] = "idle"
      /\ UNCHANGED <<versions, keys, failed, dropped>>
  BY <1>1, KeyFacts DEF LockboxInv, TypeOK
<1>5. KeyPrepared(k)'
  BY <1>1, <1>4, KeyFacts DEF KeyPrepared, Names
<1>6. KeyKept(k)'
  BY <1>1, <1>4, KeyFacts DEF KeyKept, Stored
<1>7. KeyTidy(k)'
  BY <1>1, <1>4, KeyFacts DEF KeyTidy, ActiveOf, KeyPrepared
<1> QED BY <1>1, <1>2, <1>3, <1>5, <1>6, <1>7, GoOnInv, KeyFacts DEF KeyOk

LEMMA KeyCreatedInv ==
  ASSUME LockboxInv, NEW k \in Key, KeyCreated(k)
  PROVE  LockboxInv'
<1> DEFINE x == [d[k] EXCEPT !.id = TRUE, !.value = k]
<1>1. /\ pc[k] = "create" /\ op[k] = "create" /\ d' = [d EXCEPT ![k] = x]
      /\ pc' = [pc EXCEPT ![k] = "get"]
      /\ keys' = keys \union {k} /\ dropped' = dropped \ {k}
      /\ UNCHANGED <<versions, lock, op, base, tf, failed>>
  BY KeyFacts DEF KeyCreated, Go, KeyPrepared, LockboxInv, TypeOK
<1>2. x \in Data /\ x.id /\ x.value = k /\ x.ver = d[k].ver
  BY KeyFacts DEF Data, Value
<1> HIDE DEF x
<1>3. TypeOK'
  BY <1>1, <1>2, KeyFacts, LockboxAssumption DEF LockboxInv, TypeOK, Location, Resource
<1>4. \A q \in Resource \ {k} : Untouched(q)
  BY <1>1 DEF Untouched, LockboxInv, TypeOK
<1>5. pc'[k] = "get" /\ op'[k] = "create" /\ d'[k] = x /\ tf'[k] = tf[k]
  BY <1>1, KeyFacts DEF LockboxInv, TypeOK
<1>6. KeyPrepared(k)'
  BY <1>1, <1>2, <1>5, KeyFacts DEF KeyPrepared, Names
<1>7. KeyKept(k)' /\ KeyTidy(k)'
  BY <1>1, <1>2, <1>5, KeyFacts DEF KeyPrepared, KeyKept, KeyTidy, ActiveOf
<1> QED BY <1>1, <1>3, <1>4, <1>6, <1>7, GoOnInv, KeyFacts DEF KeyOk

LEMMA GetKeyInv ==
  ASSUME LockboxInv, NEW k \in Key, GetKey(k)
  PROVE  LockboxInv'
<1> DEFINE x == [d[k] EXCEPT !.id = k \in keys]
<1>1. /\ pc[k] = "get" /\ op[k] \in {"create", "read", "update"}
      /\ UNCHANGED <<versions, keys, failed, dropped>>
      /\ IF Manage(k, x) = "done" THEN Return(k, x)
         ELSE /\ pc' = [pc EXCEPT ![k] = Manage(k, x)] /\ d' = [d EXCEPT ![k] = x]
              /\ UNCHANGED <<lock, op, base, tf>>
  BY KeyFacts DEF GetKey, Go, KeyPrepared, LockboxInv, TypeOK
<1>2. /\ x \in Data /\ x.value = d[k].value /\ x.ver = d[k].ver /\ x.out = d[k].out
      /\ x.id <=> k \in keys
      /\ d[k].id /\ k \in keys => x = d[k]
  <2>1. CASE k \in keys
    <3>1. x = [d[k] EXCEPT !.id = TRUE]
      BY <2>1
    <3> QED BY <2>1, <3>1, KeyFacts DEF Data
  <2>2. CASE k \notin keys
    <3>0. (k \in keys) = FALSE
      BY <2>2
    <3>1. x = [d[k] EXCEPT !.id = FALSE]
      BY ONLY <3>0, Zenon
    <3> QED BY <2>2, <3>1, KeyFacts DEF Data
  <2> QED BY <2>1, <2>2
<1> HIDE DEF x
<1>3. /\ op[k] = "read" => Manage(k, x) = "done"
      /\ op[k] = "create" => Manage(k, x) = IF x.out = None THEN "done" ELSE "add"
      /\ op[k] = "update" => Manage(k, x) = IF tf[k].out = None THEN "add" ELSE "restore"
  <2>1. op[k] = "create" => tf[k].out = None
    BY KeyFacts DEF KeyPrepared
  <2>2. op[k] = "update" => x.out # tf[k].out
    BY <1>2, KeyFacts DEF KeyPrepared
  <2> QED BY <2>1, <2>2 DEF Manage
<1>4. CASE Manage(k, x) = "done"
  <2>1. op[k] = "read" \/ (op[k] = "create" /\ x.out = None)
    BY <1>1, <1>3, <1>4
  <2>2. Return(k, x)
    BY <1>1, <1>4
  <2>3. /\ pc'[k] = "idle" /\ op'[k] = "none" /\ d'[k] = Absent
        /\ tf'[k] = IF x.id THEN x ELSE Absent
    BY <1>2, <2>2, KeyFacts, ReturnTypes DEF LockboxInv
  <2>4. KeyPrepared(k)'
    BY <1>1, <1>2, <2>1, <2>3, KeyFacts DEF KeyPrepared, Names
  <2>5. CASE op[k] = "read"
    <3>1. tf'[k] = tf[k] \/ (k \notin keys /\ tf'[k] = Absent)
      BY <1>2, <2>3, <2>5, KeyFacts DEF KeyPrepared
    <3>2. KeyKept(k)'
      BY <1>1, <2>3, <2>5, <3>1, KeyFacts DEF KeyKept, Stored
    <3>3. KeyTidy(k)'
      BY <1>1, <2>3, <2>5, <3>1, KeyFacts DEF KeyTidy, ActiveOf, KeyPrepared
    <3> QED BY <1>1, <1>2, <2>2, <2>4, <3>2, <3>3, KeyFacts, SameVersions, ReturnInv DEF KeyOk
  <2>6. CASE op[k] = "create"
    <3>1. KeyKept(k)'
      BY <1>1, <1>2, <2>3, <2>6, KeyFacts DEF KeyKept, KeyPrepared
    <3>2. KeyTidy(k)'
      BY <1>1, <1>2, <2>3, <2>6, KeyFacts DEF KeyTidy, ActiveOf, KeyPrepared
    <3> QED BY <1>1, <1>2, <2>2, <2>4, <3>1, <3>2, KeyFacts, SameVersions, ReturnInv DEF KeyOk
  <2> QED BY <2>1, <2>5, <2>6
<1>5. CASE Manage(k, x) # "done"
  <2>1. /\ pc' = [pc EXCEPT ![k] = Manage(k, x)] /\ d' = [d EXCEPT ![k] = x]
        /\ UNCHANGED <<versions, keys, lock, op, base, tf, failed, dropped>>
        /\ op[k] \in {"create", "update"} /\ Manage(k, x) \in {"add", "restore"}
    BY <1>1, <1>3, <1>5
  <2>2. TypeOK'
    BY <1>2, <2>1, KeyFacts, LockboxAssumption DEF LockboxInv, TypeOK, Location, Resource
  <2>3. \A q \in Resource \ {k} : Untouched(q)
    BY <2>1 DEF Untouched, LockboxInv, TypeOK
  <2>4. pc'[k] = Manage(k, x) /\ op'[k] = op[k] /\ d'[k] = x /\ tf'[k] = tf[k]
    BY <2>1, KeyFacts DEF LockboxInv, TypeOK
  <2>5. KeyPrepared(k)'
    BY <1>1, <1>2, <1>3, <1>5, <2>1, <2>4, KeyFacts DEF KeyPrepared, Names
  <2>6. KeyKept(k)'
    BY <1>1, <2>1, <2>4, KeyFacts DEF KeyKept, Stored, KeyPrepared
  <2>7. KeyTidy(k)'
    BY <1>1, <1>3, <2>1, <2>4, KeyFacts DEF KeyTidy, ActiveOf, KeyPrepared
  <2> QED BY <2>1, <2>2, <2>3, <2>5, <2>6, <2>7, GoOnInv, KeyFacts DEF KeyOk
<1> QED BY <1>4, <1>5

LEMMA RestoreInv ==
  ASSUME LockboxInv, NEW k \in Key, Restore(k)
  PROVE  LockboxInv'
<1>1. PICK e \in Payload(tf[k].ver) :
        /\ d' = [d EXCEPT ![k] = [d[k] EXCEPT !.value = e[2]]]
        /\ dropped' = IF e[2] = k THEN dropped ELSE dropped \union {k}
  BY KeyFacts DEF Restore, LockboxInv, TypeOK
<1>2. /\ pc[k] = "restore" /\ op[k] = "update" /\ pc' = [pc EXCEPT ![k] = "destroy"]
      /\ UNCHANGED <<versions, keys, lock, op, base, tf, failed>>
  BY KeyFacts DEF Restore, Go, KeyPrepared, LockboxInv, TypeOK
<1> DEFINE x == [d[k] EXCEPT !.value = e[2]]
<1>3. e[2] \in Value
  BY DEF Restore, Destroyable, Payload, LockboxInv, TypeOK, StoredVersion, Entry
<1>4. x \in Data /\ x.id = d[k].id /\ x.value = e[2] /\ x.ver = d[k].ver /\ x.out = d[k].out
  BY <1>3, KeyFacts DEF Data
<1>5. d' = [d EXCEPT ![k] = x]
  BY <1>1
<1> HIDE DEF x
<1>6. TypeOK'
  BY <1>1, <1>2, <1>4, <1>5, KeyFacts, LockboxAssumption DEF LockboxInv, TypeOK, Location, Resource
<1>7. \A q \in Resource \ {k} : Untouched(q)
  BY <1>1, <1>2, <1>5 DEF Untouched, LockboxInv, TypeOK
<1>8. pc'[k] = "destroy" /\ op'[k] = "update" /\ d'[k] = x /\ tf'[k] = tf[k]
  BY <1>2, <1>5, KeyFacts DEF LockboxInv, TypeOK
<1>9. KeyPrepared(k)'
  BY <1>1, <1>2, <1>4, <1>8, KeyFacts DEF KeyPrepared, Names
<1>10. KeyKept(k)' /\ KeyTidy(k)'
  BY <1>1, <1>2, <1>8, KeyFacts DEF KeyKept, KeyTidy, Stored, ActiveOf
<1> QED BY <1>2, <1>6, <1>7, <1>9, <1>10, GoOnInv, KeyFacts DEF KeyOk

(* A key method that has returned: what its state says must hold.          *)
LEMMA KeyReturnInv ==
  ASSUME LockboxInv, NEW k \in Key, NEW y \in Data, Return(k, y),
         VersionStep(k), VersionTypes', Numbered',
         keys' \subseteq Key, failed' \subseteq Resource, dropped' \subseteq Key,
         \A q \in Resource \ {k} : q \in failed' <=> q \in failed,
         \A q \in Key \ {k} :
            /\ q \in keys' <=> q \in keys
            /\ q \in dropped' <=> q \in dropped,
         y.id /\ y.ver # None => y.ver \in DOMAIN versions' /\ versions'[y.ver].by = k,
         k \in keys' \ dropped' /\ y.id => y.value = k \/ Stored(versions', k, y.ver),
         k \notin failed' =>
             /\ y.id => k \in keys'
             /\ \A n \in ActiveOf(k)' : y.id /\ y.ver = n /\ y.out # None
  PROVE  LockboxInv'
<1>1. /\ pc'[k] = "idle" /\ op'[k] = "none" /\ d'[k] = Absent
      /\ tf'[k] = IF y.id THEN y ELSE Absent
  BY KeyFacts, ReturnTypes DEF LockboxInv
<1>2. KeyPrepared(k)'
  BY <1>1, KeyFacts DEF KeyPrepared, Names
<1>3. KeyKept(k)'
  BY <1>1, KeyFacts DEF KeyKept, Stored
<1>4. KeyTidy(k)'
  BY <1>1, KeyFacts DEF KeyTidy
<1> QED BY <1>2, <1>3, <1>4, KeyFacts, ReturnInv DEF KeyOk

(* A key method that fails.                                                *)
LEMMA KeyErrorInv ==
  ASSUME LockboxInv, NEW k \in Key, NEW x \in Data, KeyError(k, x), op[k] # "none",
         VersionStep(k), VersionTypes', Numbered',
         keys' \in {keys, keys \ {k}}, dropped' \in {dropped, dropped \union {k}},
         x.ver = d[k].ver, op[k] = "create" => x.id = d[k].id,
         k \in keys' \ dropped' =>
             IF op[k] \in {"create", "update"}
             THEN x.id => x.value = k \/ Stored(versions', k, x.ver)
             ELSE tf[k].value = k \/ Stored(versions', k, tf[k].ver)
  PROVE  LockboxInv'
<1> DEFINE y == FailState(k, x)
<1>1. /\ Return(k, y) /\ y \in Data
      /\ failed' = failed \union {k}
  BY KeyFacts, FailReturns DEF KeyError, LockboxInv
<1>2. y.ver = x.ver \/ y.ver = tf[k].ver
  BY DEF FailState, Data
<1>3. y.ver # None => y.ver \in DOMAIN versions' /\ versions'[y.ver].by = k
  BY <1>2, KeyFacts DEF KeyPrepared, Names, VersionStep
<1>4. CASE op[k] = "create"
  <2>1. y = [x EXCEPT !.tainted = TRUE]
    BY <1>4 DEF FailState
  <2>2. y.id = x.id /\ y.value = x.value /\ y.ver = x.ver
    BY <2>1 DEF Data
  <2> HIDE DEF y
  <2> QED BY <1>1, <1>3, <1>4, <2>2, KeyFacts, KeyReturnInv
<1>5. CASE op[k] = "update"
  <2>1. y = x
    BY <1>5 DEF FailState
  <2> QED BY <1>1, <1>3, <1>5, <2>1, KeyFacts, KeyReturnInv
<1>6. CASE op[k] \notin {"create", "update"}
  <2>1. y = tf[k]
    BY <1>6 DEF FailState
  <2> QED BY <1>1, <1>3, <1>6, <2>1, KeyFacts, KeyReturnInv
<1> QED BY <1>4, <1>5, <1>6

(* The old version is destroyed: what is left of it and of its key.        *)
LEMMA OldVersionGone ==
  ASSUME LockboxInv, NEW k \in Key, pc[k] = "destroy",
         Destroyable(tf[k].out[1], tf[k].ver), ScheduleDestruction(tf[k].ver)
  PROVE  /\ VersionStep(k) /\ VersionTypes' /\ Numbered'
         /\ op[k] \in {"update", "delete"} /\ tf[k].id /\ tf[k].out # None
         /\ k \notin failed => ActiveOf(k)' = {}
<1>1. /\ op[k] \in {"update", "delete"} /\ tf[k].id /\ tf[k].out # None
      /\ tf[k].ver \in DOMAIN versions
  BY KeyFacts DEF KeyPrepared, Destroyable, LockboxInv, TypeOK
<1>2. versions[tf[k].ver].by = k
  BY <1>1, KeyFacts, LockboxAssumption DEF KeyPrepared, Names, LockboxInv, TypeOK
<1>3. /\ VersionStep(k) /\ VersionTypes' /\ Numbered'
      /\ DOMAIN versions' = DOMAIN versions /\ ~versions'[tf[k].ver].active
  BY <1>1, <1>2, KeyFacts, VersionGone
<1>4. k \notin failed => ActiveOf(k)' = {}
  BY <1>3, KeyFacts DEF ActiveOf, VersionStep, KeyTidy
<1> QED BY <1>1, <1>3, <1>4

LEMMA DestroyVersionInv ==
  ASSUME LockboxInv, NEW k \in Key, DestroyVersion(k)
  PROVE  LockboxInv'
<1>1. /\ pc[k] = "destroy" /\ Destroyable(tf[k].out[1], tf[k].ver)
      /\ ScheduleDestruction(tf[k].ver) /\ UNCHANGED <<keys, failed, dropped>>
  BY DEF DestroyVersion
<1>2. /\ VersionStep(k) /\ VersionTypes' /\ Numbered'
      /\ op[k] \in {"update", "delete"} /\ tf[k].id /\ tf[k].out # None
      /\ k \notin failed => ActiveOf(k)' = {}
  BY <1>1, OldVersionGone
<1>3. CASE op[k] = "delete"
  <2>1. Return(k, Absent)
    BY <1>3 DEF DestroyVersion
  <2> QED BY <1>1, <1>2, <2>1, KeyFacts, KeyReturnInv
<1>4. CASE op[k] = "update" /\ d[k].out = None
  <2>1. Return(k, d[k])
    BY <1>4 DEF DestroyVersion
  <2>2. d[k].ver # None => d[k].ver \in DOMAIN versions' /\ versions'[d[k].ver].by = k
    BY <1>2, KeyFacts DEF KeyPrepared, Names, VersionStep
  <2>3. k \in keys \ dropped => d[k].value = k
    BY <1>1, <1>4, KeyFacts DEF KeyPrepared
  <2>4. k \notin failed => k \in keys
    BY <1>2, <1>4, KeyFacts DEF KeyTidy
  <2> QED BY <1>1, <1>2, <2>1, <2>2, <2>3, <2>4, KeyFacts, KeyReturnInv
<1>5. CASE op[k] = "update" /\ d[k].out # None
  <2>1. pc' = [pc EXCEPT ![k] = "add"] /\ UNCHANGED <<op, lock, base, tf, d>>
    BY <1>5 DEF DestroyVersion, Go
  <2>2. TypeOK'
    BY <1>1, <1>2, <2>1, KeyFacts, LockboxAssumption
    DEF LockboxInv, TypeOK, Location, Resource, VersionTypes
  <2>3. \A q \in Resource \ {k} : Untouched(q)
    BY <1>1, <2>1 DEF Untouched, LockboxInv, TypeOK
  <2>4. pc'[k] = "add"
    BY <2>1, KeyFacts DEF LockboxInv, TypeOK
  <2>5. KeyPrepared(k)'
    <3>1. Names(k, tf[k])' /\ Names(k, d[k])'
      BY <1>2, <2>1, KeyFacts DEF KeyPrepared, Names, VersionStep
    <3> QED BY <1>1, <1>2, <1>5, <2>1, <2>4, <3>1, KeyFacts DEF KeyPrepared
  <2>6. KeyKept(k)'
    BY <1>2, <1>5, <2>1, <2>4 DEF KeyKept
  <2>7. KeyTidy(k)'
    BY <1>1, <1>2, <1>5, <2>1, KeyFacts DEF KeyTidy
  <2> QED BY <1>2, <2>2, <2>3, <2>5, <2>6, <2>7, StepInv, KeyFacts DEF KeyOk
<1> QED BY <1>2, <1>3, <1>4, <1>5

LEMMA DestroyWaitFailsInv ==
  ASSUME LockboxInv, NEW k \in Key, DestroyWaitFails(k)
  PROVE  LockboxInv'
<1>1. /\ pc[k] = "destroy" /\ KeyError(k, d[k]) /\ keys' = keys /\ dropped' = dropped
      /\ VersionStep(k) /\ VersionTypes' /\ Numbered' /\ op[k] \in {"update", "delete"}
  BY OldVersionGone DEF DestroyWaitFails
<1>2. k \in keys \ dropped => op[k] = "update" /\ d[k].value = k
  BY <1>1, KeyFacts DEF KeyPrepared
<1> QED BY <1>1, <1>2, KeyFacts, KeyErrorInv

(* The version to which a value is moved.                                  *)
LEMMA EntryMoved ==
  ASSUME LockboxInv, NEW k \in Key, pc[k] = "add", MoveEntry(k)
  PROVE  /\ VersionStep(k) /\ VersionTypes' /\ Numbered'
         /\ NextId \in VersionId \ DOMAIN versions
         /\ DOMAIN versions' = DOMAIN versions \union {NextId}
         /\ \A n \in DOMAIN versions : versions'[n] = versions[n]
         /\ versions'[NextId].by = k /\ versions'[NextId].active
         /\ versions'[NextId].secret = d[k].out[1]
         /\ d[k].value = k => <<d[k].out[2], k>> \in versions'[NextId].entries
<1> DEFINE changes == {<<d[k].out[2], x>> : x \in {d[k].value} \ {None}}
           s == d[k].out[1]
<1>1. d[k].out \in Secret \X EntryKey /\ d[k].value \in Value \union {None}
  BY KeyFacts DEF KeyPrepared, Data
<1>2. changes \in SUBSET Entry /\ s \in Secret
  BY <1>1 DEF Entry
<1>3. AddVersion(k, s, None, changes, {d[k].out[2]})
  BY DEF MoveEntry
<1>4. d[k].value = k => <<d[k].out[2], k>> \in changes
  BY KeyFacts, LockboxAssumption
<1> HIDE DEF changes, s
<1>5. /\ VersionStep(k) /\ VersionTypes' /\ Numbered'
      /\ NextId \in VersionId \ DOMAIN versions
      /\ DOMAIN versions' = DOMAIN versions \union {NextId}
      /\ \A n \in DOMAIN versions : versions'[n] = versions[n]
      /\ versions'[NextId] =
           [secret |-> s, active |-> TRUE, by |-> k,
            entries |-> Changed(Payload(IF None = None THEN Current(s) ELSE None),
                                changes, {d[k].out[2]})]
  <2>1. None \in VersionId \union {None} /\ k \in Resource
    BY KeyFacts
  <2>2. \A from \in VersionId \union {None}, r \in Resource, t \in Secret, c \in SUBSET Entry : \A o :
           (from = None \/ from \in DOMAIN versions) /\ AddVersion(r, t, from, c, o) =>
               /\ VersionStep(r) /\ VersionTypes' /\ Numbered'
               /\ NextId \in VersionId \ DOMAIN versions
               /\ DOMAIN versions' = DOMAIN versions \union {NextId}
               /\ \A n \in DOMAIN versions : versions'[n] = versions[n]
               /\ versions'[NextId] =
                    [secret |-> t, active |-> TRUE, by |-> r,
                     entries |-> Changed(Payload(IF from = None THEN Current(t) ELSE from), c, o)]
    <3> TAKE from \in VersionId \union {None}, r \in Resource, t \in Secret, c \in SUBSET Entry
    <3> TAKE o
    <3> HAVE (from = None \/ from \in DOMAIN versions) /\ AddVersion(r, t, from, c, o)
    <3> QED BY VersionAdded
  <2> QED BY ONLY <1>2, <1>3, <2>1, <2>2
<1>6. /\ versions'[NextId].by = k /\ versions'[NextId].active
      /\ versions'[NextId].secret = s
      /\ changes \subseteq versions'[NextId].entries
  BY <1>5 DEF Changed
<1> QED BY <1>4, <1>5, <1>6 DEF s

LEMMA MoveValueInv ==
  ASSUME LockboxInv, NEW k \in Key, MoveValue(k)
  PROVE  LockboxInv'
<1> DEFINE y == Moved(d[k])
<1>1. /\ pc[k] = "add" /\ MoveEntry(k) /\ Return(k, y) /\ UNCHANGED <<keys, failed>>
      /\ dropped' = IF d[k].value = k THEN dropped ELSE dropped \union {k}
  BY DEF MoveValue
<1>2. /\ VersionStep(k) /\ VersionTypes' /\ Numbered'
      /\ NextId \in VersionId \ DOMAIN versions
      /\ DOMAIN versions' = DOMAIN versions \union {NextId}
      /\ \A n \in DOMAIN versions : versions'[n] = versions[n]
      /\ versions'[NextId].by = k /\ versions'[NextId].active
      /\ versions'[NextId].secret = d[k].out[1]
      /\ d[k].value = k => <<d[k].out[2], k>> \in versions'[NextId].entries
  BY <1>1, EntryMoved
<1>3. /\ y \in Data /\ y.id = d[k].id /\ y.ver = NextId /\ y.out = d[k].out
  BY <1>2, KeyFacts DEF Moved, Data
<1> HIDE DEF y
<1>4. op[k] \in {"create", "update"} /\ d[k].out # None /\ (k \in keys => d[k].id)
  BY <1>1, KeyFacts DEF KeyPrepared, LockboxInv, TypeOK
<1>5. k \in keys' \ dropped' => Stored(versions', k, NextId)
  <2> SUFFICES ASSUME k \notin dropped' PROVE Stored(versions', k, NextId)
    OBVIOUS
  <2>1. d[k].value = k
    BY <1>1
  <2>2. NextId \in DOMAIN versions' /\ <<d[k].out[2], k>>[2] = k
    BY <1>2
  <2>3. <<d[k].out[2], k>> \in versions'[NextId].entries /\ versions'[NextId].active
    BY <1>2, <2>1
  <2> QED BY <2>2, <2>3 DEF Stored
<1>6. k \notin failed => k \in keys
  BY <1>1, <1>4, KeyFacts DEF KeyTidy, KeyPrepared
<1>7. k \notin failed => \A n \in ActiveOf(k)' : n = NextId
  BY <1>1, <1>2, KeyFacts DEF KeyTidy, ActiveOf
<1>8. dropped' \subseteq Key
  BY <1>1, KeyFacts
<1>9. y.ver \in DOMAIN versions' /\ versions'[y.ver].by = k
  BY <1>2, <1>3
<1> QED BY <1>1, <1>2, <1>3, <1>4, <1>5, <1>6, <1>7, <1>8, <1>9, KeyFacts, KeyReturnInv

LEMMA MoveFailsInv ==
  ASSUME LockboxInv, NEW k \in Key, MoveFails(k)
  PROVE  LockboxInv'
<1> DEFINE x == [d[k] EXCEPT !.value = None]
<1>1. /\ pc[k] = "add" /\ KeyError(k, x) /\ keys' = keys /\ dropped' = dropped \union {k}
      /\ op[k] # "none"
  BY KeyFacts DEF MoveFails, KeyPrepared
<1>2. VersionStep(k) /\ VersionTypes' /\ Numbered'
  BY <1>1, KeyFacts, SameVersions, EntryMoved DEF MoveFails
<1>3. x \in Data /\ x.id = d[k].id /\ x.ver = d[k].ver
  BY KeyFacts DEF Data
<1> HIDE DEF x
<1> QED BY <1>1, <1>2, <1>3, KeyFacts, KeyErrorInv

LEMMA KeyDeletedInv ==
  ASSUME LockboxInv, NEW k \in Key, KeyDeleted(k)
  PROVE  LockboxInv'
<1>1. /\ pc[k] = "delete" /\ op[k] = "delete" /\ tf[k].id /\ d[k] = tf[k]
      /\ keys' = keys \ {k} /\ UNCHANGED <<versions, dropped>>
  BY KeyFacts DEF KeyDeleted, KeyPrepared, LockboxInv, TypeOK
<1>2. VersionStep(k) /\ VersionTypes' /\ Numbered'
  BY <1>1, KeyFacts, SameVersions
<1>3. CASE k \notin keys \/ tf[k].out = None
  <2>1. Return(k, Absent) /\ failed' = failed
    BY <1>3 DEF KeyDeleted
  <2>2. k \notin failed => ActiveOf(k)' = {}
    BY <1>1, <1>3, KeyFacts DEF ActiveOf, KeyTidy
  <2> QED BY <1>1, <1>2, <2>1, <2>2, KeyFacts, KeyReturnInv
<1>4. CASE k \in keys /\ tf[k].out # None /\ tf[k].ver = None
  <2>1. KeyError(k, d[k])
    BY <1>4 DEF KeyDeleted
  <2> QED BY <1>1, <1>2, <2>1, KeyFacts, KeyErrorInv
<1>5. CASE k \in keys /\ tf[k].out # None /\ tf[k].ver # None
  <2>1. pc' = [pc EXCEPT ![k] = "destroy"] /\ UNCHANGED <<op, lock, base, tf, d, failed>>
    BY <1>5 DEF KeyDeleted, Go
  <2>2. TypeOK'
    BY <1>1, <2>1, KeyFacts, LockboxAssumption DEF LockboxInv, TypeOK, Location, Resource
  <2>3. \A q \in Resource \ {k} : Untouched(q)
    BY <1>1, <2>1 DEF Untouched, LockboxInv, TypeOK
  <2>4. pc'[k] = "destroy"
    BY <2>1, KeyFacts DEF LockboxInv, TypeOK
  <2>5. KeyPrepared(k)'
    BY <1>1, <1>5, <2>1, <2>4, KeyFacts DEF KeyPrepared, Names
  <2>6. KeyKept(k)' /\ KeyTidy(k)'
    BY <1>1, <2>1, <2>4, KeyFacts DEF KeyKept, KeyTidy, ActiveOf
  <2> QED BY <1>1, <2>2, <2>3, <2>5, <2>6, GoOnInv, KeyFacts DEF KeyOk
<1> QED BY <1>3, <1>4, <1>5

LEMMA KeyFailsInv ==
  ASSUME LockboxInv, NEW k \in Key, KeyFails(k)
  PROVE  LockboxInv'
<1>1. /\ pc[k] \in {"create", "get", "restore", "destroy", "delete"}
      /\ KeyError(k, d[k]) /\ UNCHANGED <<versions, keys, dropped>> /\ op[k] # "none"
  BY KeyFacts DEF KeyFails, KeyPrepared
<1>2. VersionStep(k) /\ VersionTypes' /\ Numbered'
  BY <1>1, KeyFacts, SameVersions
<1>3. CASE op[k] = "create"
  BY <1>1, <1>2, <1>3, KeyFacts, KeyErrorInv DEF KeyPrepared
<1>4. CASE op[k] = "update"
  <2>1. k \in keys \ dropped => d[k].value = k \/ Stored(versions', k, d[k].ver)
    BY <1>1, <1>4, KeyFacts DEF KeyPrepared, KeyKept, Stored
  <2> QED BY <1>1, <1>2, <1>4, <2>1, KeyFacts, KeyErrorInv
<1>5. CASE op[k] \in {"read", "delete"}
  <2>1. k \in keys \ dropped => tf[k].value = k \/ Stored(versions', k, tf[k].ver)
    BY <1>1, <1>5, KeyFacts DEF KeyPrepared, KeyKept, Stored
  <2> QED BY <1>1, <1>2, <1>5, <2>1, KeyFacts, KeyErrorInv
<1> QED BY <1>1, <1>3, <1>4, <1>5, KeyFacts DEF LockboxInv, TypeOK

LEMMA KeyVanishesInv ==
  ASSUME LockboxInv, NEW k \in Key, KeyVanishes(k)
  PROVE  LockboxInv'
<1> USE DEF KeyVanishes
<1>1. TypeOK'
  BY KeyFacts DEF LockboxInv, TypeOK
<1>2. \A q \in Resource \ {k} : Untouched(q)
  BY DEF Untouched
<1>3. KeyPrepared(k)'
  BY KeyFacts DEF KeyPrepared, Names
<1>4. KeyKept(k)' /\ KeyTidy(k)'
  BY DEF KeyKept, KeyTidy
<1> QED BY <1>1, <1>2, <1>3, <1>4, GoOnInv, KeyFacts DEF KeyOk

-----------------------------------------------------------------------------
LEMMA NextLockboxInv ==
  ASSUME LockboxInv, [Next]_vars
  PROVE  LockboxInv'
<1>1. CASE UNCHANGED vars
  <2>1. TypeOK' /\ Numbered'
    BY <1>1 DEF vars, LockboxInv, TypeOK, Numbered
  <2>2. ASSUME NEW v \in Version PROVE VersionOk(v)'
    BY <1>1 DEF vars, LockboxInv, VersionOk, VersionPrepared, LookedUp, Names, ActiveOf, Newest, Numbers
  <2>3. ASSUME NEW k \in Key PROVE KeyOk(k)'
    BY <1>1 DEF vars, LockboxInv, KeyOk, KeyPrepared, KeyKept, KeyTidy, Names, ActiveOf, Stored
  <2> QED BY <2>1, <2>2, <2>3 DEF LockboxInv
<1>2. ASSUME NEW v \in Version, VersionNext(v) PROVE LockboxInv'
  <2>1. CASE VersionCreate(v) \/ VersionDelete(v)
    BY <2>1, VersionBeginsInv
  <2>2. CASE Lock(v)
    BY <2>2, LockInv
  <2>3. CASE LookUp(v)
    BY <2>3, LookUpInv
  <2>4. CASE AddConfigured(v)
    BY <2>4, AddConfiguredInv
  <2>5. CASE VersionDestroyed(v)
    BY <2>5, VersionDestroyedInv
  <2>6. CASE VersionFails(v)
    BY <2>6, VersionFailsInv
  <2>7. CASE AddedUnnamed(v)
    BY <2>7, AddedUnnamedInv
  <2> QED BY <1>2, <2>1, <2>2, <2>3, <2>4, <2>5, <2>6, <2>7 DEF VersionNext
<1>3. ASSUME NEW k \in Key, KeyNext(k) PROVE LockboxInv'
  <2>1. CASE KeyCreate(k) \/ KeyUpdate(k) \/ KeyRefresh(k) \/ KeyDelete(k)
    BY <2>1, KeyBeginsInv
  <2>2. CASE KeyCreated(k)
    BY <2>2, KeyCreatedInv
  <2>3. CASE GetKey(k)
    BY <2>3, GetKeyInv
  <2>4. CASE Restore(k)
    BY <2>4, RestoreInv
  <2>5. CASE DestroyVersion(k)
    BY <2>5, DestroyVersionInv
  <2>6. CASE DestroyWaitFails(k)
    BY <2>6, DestroyWaitFailsInv
  <2>7. CASE MoveValue(k)
    BY <2>7, MoveValueInv
  <2>8. CASE MoveFails(k)
    BY <2>8, MoveFailsInv
  <2>9. CASE KeyDeleted(k)
    BY <2>9, KeyDeletedInv
  <2>10. CASE KeyFails(k)
    BY <2>10, KeyFailsInv
  <2>11. CASE KeyVanishes(k)
    BY <2>11, KeyVanishesInv
  <2> QED BY <1>3, <2>1, <2>2, <2>3, <2>4, <2>5, <2>6, <2>7, <2>8, <2>9, <2>10, <2>11 DEF KeyNext
<1> QED BY <1>1, <1>2, <1>3 DEF Next

(* LockboxInv holds in every state of every behaviour.                     *)
THEOREM LockboxInvariant == Spec => []LockboxInv
<1>1. LockboxInv /\ [Next]_vars => LockboxInv'
  BY NextLockboxInv
<1> QED BY InitLockboxInv, <1>1, PTL DEF Spec

(* resourceYandexLockboxSecretVersionMutex is given back on every way out  *)
(* of Create and Delete, and is held by the handler that is at work.       *)
THEOREM VersionMutexHeld == Spec => []TypeOK
<1>1. LockboxInv => TypeOK
  BY DEF LockboxInv
<1> QED BY LockboxInvariant, <1>1, PTL

(* lockbox_outputs.go:58-60: the secret of a key that exists is in the     *)
(* state or in the active version that the state names, whatever call has  *)
(* failed, unless it was dropped when it was moved.                        *)
THEOREM SecretSurvives == Spec => []ValueSurvives
<1>1. LockboxInv => ValueSurvives
  <2> SUFFICES ASSUME LockboxInv, NEW k \in (Key \intersect keys) \ dropped,
                      tf[k].id, pc[k] = "idle", tf[k].value # k
               PROVE  /\ tf[k].ver # None /\ versions[tf[k].ver].active
                      /\ k \in {e[2] : e \in Payload(tf[k].ver)}
    BY DEF ValueSurvives
  <2>1. Stored(versions, k, tf[k].ver)
    BY KeyFacts DEF KeyKept
  <2>2. tf[k].ver # None
    BY <2>1, LockboxAssumption DEF Stored, LockboxInv, TypeOK
  <2> QED BY <2>1, <2>2 DEF Stored, Payload
<1> QED BY LockboxInvariant, <1>1, PTL

(* An active version that a resource has added is the one its state names, *)
(* unless the answer that named it was lost, a call of its key failed or   *)
(* somebody else deleted the key.                                          *)
THEOREM NoVersionForgotten == Spec => []NoVersionLeft
<1>1. LockboxInv => NoVersionLeft
  <2> SUFFICES ASSUME LockboxInv, NEW n \in DOMAIN versions, versions[n].active,
                      versions[n].by # None, pc[versions[n].by] = "idle",
                      versions[n].by \notin failed
               PROVE  tf[versions[n].by].id /\ tf[versions[n].by].ver = n
    BY DEF NoVersionLeft
  <2>1. PICK r \in Version \union Key : r = versions[n].by
    BY DEF LockboxInv, TypeOK, StoredVersion, Resource
  <2>2. n \in ActiveOf(r)
    BY <2>1 DEF ActiveOf
  <2>3. CASE r \in Version
    BY <2>1, <2>2, <2>3 DEF LockboxInv, VersionOk, VersionPrepared
  <2>4. CASE r \in Key
    BY <2>1, <2>2, <2>4 DEF LockboxInv, KeyOk, KeyTidy
  <2> QED BY <2>1, <2>3, <2>4
<1> QED BY LockboxInvariant, <1>1, PTL

(* A version is made by removing what the base has and the configuration   *)
(* has not, and adding what it has.                                        *)
LEMMA FullPayload ==
  ASSUME NEW v \in Version, base[v] # None
  PROVE  Changed(Payload(base[v]), EntriesOf[v], RemovedKeys(v)) = EntriesOf[v]
  BY DEF Changed, RemovedKeys

(* The simulated PayloadChangeKind.FULL                                    *)
(* (resource_yandex_lockbox_secret_version.go:280): the entries of a new   *)
(* version are those configured, except for the version of a key that was  *)
(* added since none was found.                                             *)
THEOREM ConfiguredIsStored == Spec => VersionAsConfigured
<1>1. ASSUME LockboxInv, NEW v \in Version, AddConfigured(v),
             versions'[NextId].entries # EntriesOf[v]
      PROVE  /\ EntriesOf[v] \subseteq versions'[NextId].entries
             /\ base[v] = None
             /\ Current(SecretOf[v]) # None
             /\ versions[Current(SecretOf[v])].by \in Key
  <2> DEFINE s == SecretOf[v]
             b == IF base[v] = None THEN Current(s) ELSE base[v]
  <2>1. /\ v \in Resource /\ pc[v] = "add"
        /\ SecretOf[v] \in Secret /\ EntriesOf[v] \in SUBSET Entry
        /\ base[v] \in VersionId \union {None} /\ (base[v] = None \/ base[v] \in DOMAIN versions)
    BY <1>1, LockboxAssumption
    DEF AddConfigured, LockboxInv, TypeOK, VersionOk, VersionPrepared, Resource, Entry, Value
  <2>2. AddVersion(v, s, base[v], EntriesOf[v], RemovedKeys(v))
    BY <1>1 DEF AddConfigured, BaseVersionId
  <2>3. versions'[NextId] =
           [secret |-> s, active |-> TRUE, by |-> v,
            entries |-> Changed(Payload(b), EntriesOf[v], RemovedKeys(v))]
    BY <1>1, <2>1, <2>2, VersionAdded
  <2>4. versions'[NextId].entries = Changed(Payload(b), EntriesOf[v], RemovedKeys(v))
    BY <2>3
  <2>5. EntriesOf[v] \subseteq versions'[NextId].entries
    BY <2>4 DEF Changed
  <2>6. base[v] = None
    BY <1>1, <2>4, FullPayload
  <2>7. Current(s) # None
    BY <1>1, <2>4, <2>6 DEF Changed, Payload
  <2>8. versions[Current(s)].by \in Key
    BY <1>1, <2>1, <2>6, <2>7, CurrentIs DEF LockboxInv, VersionOk, LookedUp
  <2> QED BY <2>5, <2>6, <2>7, <2>8
<1>2. LockboxInv /\ [Next]_vars =>
        [\A v \in Version :
            AddConfigured(v) =>
                LET there == versions'[NextId].entries IN
                there # EntriesOf[v] =>
                    /\ EntriesOf[v] \subseteq there
                    /\ base[v] = None
                    /\ Current(SecretOf[v]) # None /\ versions[Current(SecretOf[v])].by \in Key]_vars
  BY <1>1
<1> QED BY LockboxInvariant, <1>2, PTL DEF Spec, VersionAsConfigured

(* lockbox_outputs.go:13: after a method without error, the secret of a    *)
(* key with an output is in the version, secret and entry that its state   *)
(* names and not in the state, and that of a key without one is in the     *)
(* state.                                                                  *)
THEOREM OutputIsStored == Spec => OutputHolds
<1> DEFINE Held(k) ==
      \/ tf'[k].out = None /\ tf'[k].value = k
      \/ /\ tf'[k].out # None /\ tf'[k].value = None /\ tf'[k].ver # None
         /\ LET stored == versions'[tf'[k].ver] IN
            /\ stored.active /\ stored.secret = tf'[k].out[1]
            /\ <<tf'[k].out[2], k>> \in stored.entries
<1>1. ASSUME LockboxInv, NEW k \in Key, GetKey(k), op[k] \in {"create", "update"},
             pc'[k] = "idle", tf'[k].id
      PROVE  Held(k)
  <2> DEFINE x == [d[k] EXCEPT !.id = k \in keys]
  <2>1. x.out = d[k].out /\ x.value = d[k].value
    BY KeyFacts, <1>1 DEF Data
  <2>2. op[k] = "create" => tf[k].out = None /\ d[k].value = k
    BY KeyFacts, <1>1 DEF KeyPrepared, GetKey
  <2>3. op[k] = "update" => d[k].out # tf[k].out
    BY KeyFacts, <1>1 DEF KeyPrepared
  <2>4. IF Manage(k, x) = "done" THEN Return(k, x)
        ELSE pc' = [pc EXCEPT ![k] = Manage(k, x)]
    BY <1>1 DEF GetKey, Go
  <2> HIDE DEF x
  <2>5. Manage(k, x) = "done"
    BY <1>1, <2>4, KeyFacts DEF Manage, LockboxInv, TypeOK
  <2>6. op[k] = "create" /\ x.out = None
    BY <1>1, <2>1, <2>2, <2>3, <2>5 DEF Manage
  <2>7. tf' = [tf EXCEPT ![k] = IF x.id THEN x ELSE Absent]
    BY <2>4, <2>5 DEF Return
  <2>8. tf'[k] = x
    BY <1>1, <2>7, KeyFacts DEF LockboxInv, TypeOK
  <2> QED BY <2>1, <2>2, <2>6, <2>8
<1>2. ASSUME LockboxInv, NEW k \in Key, MoveValue(k), tf'[k].id, k \notin dropped'
      PROVE  Held(k)
  <2> DEFINE y == Moved(d[k])
  <2>1. pc[k] = "add" /\ MoveEntry(k) /\ Return(k, y) /\ d[k].value = k
    BY <1>2 DEF MoveValue
  <2>2. /\ NextId \in VersionId
        /\ versions'[NextId].active /\ versions'[NextId].secret = d[k].out[1]
        /\ <<d[k].out[2], k>> \in versions'[NextId].entries
    BY <1>2, <2>1, EntryMoved
  <2>3. y.value = None /\ y.ver = NextId /\ y.out = d[k].out
    BY <1>2, KeyFacts DEF Moved, Data
  <2>4. d[k].out # None
    BY <1>2, <2>1, KeyFacts DEF KeyPrepared
  <2> HIDE DEF y
  <2>5. tf' = [tf EXCEPT ![k] = IF y.id THEN y ELSE Absent]
    BY <2>1 DEF Return
  <2>6. tf'[k] = y
    BY <1>2, <2>5, KeyFacts DEF LockboxInv, TypeOK
  <2>7. NextId # None
    BY <2>2, LockboxAssumption
  <2> QED BY <2>2, <2>3, <2>4, <2>6, <2>7
<1>3. ASSUME LockboxInv, NEW k \in Key, DestroyVersion(k), op[k] \in {"create", "update"},
             pc'[k] = "idle", tf'[k].id, k \notin dropped'
      PROVE  Held(k)
  <2>1. pc[k] = "destroy" /\ op[k] = "update" /\ d[k].value = k
    <3>1. pc[k] = "destroy" /\ op[k] = "update"
      BY <1>3, KeyFacts DEF DestroyVersion, KeyPrepared
    <3>2. dropped' = dropped
      BY <1>3 DEF DestroyVersion
    <3> QED BY <1>3, <3>1, <3>2, KeyFacts DEF KeyPrepared
  <2>2. d[k].out = None /\ Return(k, d[k])
    BY <1>3, <2>1, KeyFacts DEF DestroyVersion, Go, LockboxInv, TypeOK
  <2>3. tf' = [tf EXCEPT ![k] = IF d[k].id THEN d[k] ELSE Absent]
    BY <2>2 DEF Return
  <2>4. tf'[k] = d[k]
    BY <1>3, <2>1, <2>3, KeyFacts DEF LockboxInv, TypeOK
  <2> QED BY <2>1, <2>2, <2>4
<1> HIDE DEF Held
<1>4. LockboxInv /\ [Next]_vars =>
        [\A k \in Key :
            (GetKey(k) \/ MoveValue(k) \/ DestroyVersion(k))
                /\ op[k] \in {"create", "update"} /\ pc'[k] = "idle"
                /\ tf'[k].id /\ k \notin dropped'
            => Held(k)]_vars
  BY <1>1, <1>2, <1>3
<1> QED BY LockboxInvariant, <1>4, PTL DEF Spec, OutputHolds, Held
=============================================================================
