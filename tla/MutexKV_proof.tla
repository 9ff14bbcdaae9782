---------------------------- MODULE MutexKV_proof ----------------------------
(***************************************************************************)
(* MutexKV keeps its promises for any number of goroutines and keys: MapInv*)
(* is inductive, gives mutual exclusion and the safety of Unlock, and the  *)
(* map implements KeyedLock.                                               *)
(***************************************************************************)
EXTENDS MutexKV, TLAPS

(* The map of an empty provider satisfies the invariant.                   *)
LEMMA InitMapInv == Init => MapInv
  BY MutexKVAssumption
  DEF Init, MapInv, TypeOK, LockInv, PtrInv, StoreInv, OwnerInv, Inside, Location

(* Calling Lock or Unlock touches no shared memory.                        *)
LEMMA CallInv ==
  ASSUME MapInv, NEW p \in Proc, CallLock(p) \/ CallUnlock(p)
  PROVE  MapInv'
<1> USE MutexKVAssumption DEF MapInv, TypeOK, LockInv, PtrInv, StoreInv, OwnerInv, Inside, Location
<1>1. CASE CallLock(p)
  BY <1>1 DEF CallLock
<1>2. CASE CallUnlock(p)
  BY <1>2 DEF CallUnlock
<1> QED BY <1>1, <1>2

(* The steps of get().                                                     *)
LEMMA GetInv ==
  ASSUME MapInv, NEW p \in Proc, Get(p)
  PROVE  MapInv'
<1> USE MutexKVAssumption DEF MapInv, TypeOK, LockInv, PtrInv, StoreInv, OwnerInv, Inside, Location
<1>1. CASE GetEnter(p)
  BY <1>1 DEF GetEnter
<1>2. CASE GetLookup(p)
  BY <1>2 DEF GetLookup
<1>3. CASE GetCreate(p)
  BY <1>3 DEF GetCreate, Allocated
<1>4. CASE GetLeave(p)
  BY <1>4 DEF GetLeave
<1> QED BY <1>1, <1>2, <1>3, <1>4 DEF Get

(* Taking and giving back the mutex of a key.                              *)
LEMMA MutexInv ==
  ASSUME MapInv, NEW p \in Proc, MutexLock(p) \/ MutexUnlock(p)
  PROVE  MapInv'
<1> USE MutexKVAssumption DEF MapInv, TypeOK, LockInv, PtrInv, StoreInv, OwnerInv, Inside, Location
<1>1. CASE MutexLock(p)
  BY <1>1 DEF MutexLock
<1>2. CASE MutexUnlock(p)
  BY <1>2 DEF MutexUnlock
<1> QED BY <1>1, <1>2

(* MapInv holds in every reachable state.                                  *)
THEOREM MapInvariant == Spec => []MapInv
<1>1. MapInv /\ [Next]_vars => MapInv'
  <2> SUFFICES ASSUME MapInv, [Next]_vars PROVE MapInv' OBVIOUS
  <2>1. CASE UNCHANGED vars
    BY <2>1 DEF vars, MapInv, TypeOK, LockInv, PtrInv, StoreInv, OwnerInv, Inside
  <2>2. CASE Next
    BY <2>2, CallInv, GetInv, MutexInv DEF Next, Step
  <2> QED BY <2>1, <2>2
<1> QED BY InitMapInv, <1>1, PTL DEF Spec

(* Types, and no nil mutex is locked (mutexkv.go:20, 28).                  *)
THEOREM TypeCorrect == Spec => []TypeOK
<1>1. MapInv => TypeOK
  BY DEF MapInv
<1> QED BY MapInvariant, <1>1, PTL

(* One goroutine at a time inside the section of a key, for any number of  *)
(* goroutines and keys (mutexkv.go:8-10).                                  *)
THEOREM KeyedMutualExclusion == Spec => []MutualExclusion
<1>1. MapInv => MutualExclusion
  BY DEF MapInv, OwnerInv, MutualExclusion
<1> QED BY MapInvariant, <1>1, PTL

(* Unlock never meets an unlocked or a foreign mutex (mutexkv.go:26-29).   *)
THEOREM UnlockSafe == Spec => []UnlockFindsOwnMutex
<1>1. MapInv => UnlockFindsOwnMutex
  BY DEF MapInv, PtrInv, OwnerInv, Inside, UnlockFindsOwnMutex
<1> QED BY MapInvariant, <1>1, PTL

(* A key keeps the mutex that it got first, for whoever asks later waits   *)
(* for the same one (mutexkv.go:35-39).                                    *)
THEOREM KeysKeepMutexes == Spec => StoreOnlyGrows
<1>1. MapInv /\ [Next]_vars
         => [\A k \in Key : store[k] # NoMutex => store'[k] = store[k]]_vars
  <2> SUFFICES ASSUME MapInv, NEW p \in Proc, Step(p), NEW k \in Key, store[k] # NoMutex
               PROVE  store'[k] = store[k]
    BY DEF Next
  <2>1. CASE GetCreate(p)
    BY <2>1 DEF GetCreate, MapInv, PtrInv, TypeOK
  <2>2. CASE ~GetCreate(p)
    BY <2>2 DEF Step, Get, CallLock, CallUnlock, GetEnter, GetLookup, GetLeave,
                MutexLock, MutexUnlock
  <2> QED BY <2>1, <2>2
<1> QED BY <1>1, MapInvariant, PTL DEF Spec, StoreOnlyGrows

-----------------------------------------------------------------------------
(* Each step of the map is a step of the keyed lock, or none: asking for a *)
(* key is CallLock, getting it is MutexLock and giving it back MutexUnlock.*)
LEMMA StepRefines ==
  ASSUME MapInv, [Next]_vars
  PROVE  [Keyed!Next]_(Keyed!vars)
<1> USE MutexKVAssumption DEF Keyed!vars, Holder, Waiting
<1> USE DEF MapInv, TypeOK, PtrInv, StoreInv, OwnerInv, Inside, Location
<1>1. CASE UNCHANGED vars
  BY <1>1 DEF vars
<1>2. ASSUME NEW p \in Proc, CallLock(p) PROVE Keyed!Request(p, key'[p])
  <2>1. key'[p] \in Key /\ key' = [key EXCEPT ![p] = key'[p]]
    BY <1>2 DEF CallLock
  <2>2. \A j \in Key : <<p, j>> \notin Waiting /\ Holder[j] # p
    BY <1>2 DEF CallLock
  <2>3. Waiting' = Waiting \union {<<p, key'[p]>>}
    BY <1>2, <2>1 DEF CallLock
  <2>4. Holder' = Holder
    BY <1>2 DEF CallLock
  <2> QED BY <2>2, <2>3, <2>4 DEF Keyed!Request
<1>3. ASSUME NEW p \in Proc, CallUnlock(p) PROVE UNCHANGED Keyed!vars
  BY <1>3 DEF CallUnlock
<1>4. ASSUME NEW p \in Proc, GetEnter(p) \/ GetLookup(p) \/ GetLeave(p)
      PROVE  UNCHANGED Keyed!vars
  BY <1>4 DEF GetEnter, GetLookup, GetLeave
<1>5. ASSUME NEW p \in Proc, GetCreate(p) PROVE UNCHANGED Keyed!vars
  <2>1. Holder' = Holder
    BY <1>5 DEF GetCreate, Allocated
  <2>2. Waiting' = Waiting
    BY <1>5 DEF GetCreate
  <2> QED BY <2>1, <2>2
<1>6. ASSUME NEW p \in Proc, MutexLock(p) PROVE Keyed!Acquire(p, key[p])
  <2>1. <<p, key[p]>> \in Waiting
    BY <1>6 DEF MutexLock
  <2>2. Holder[key[p]] = NoProc
    BY <1>6 DEF MutexLock
  <2>3. Holder' = [Holder EXCEPT ![key[p]] = p]
    <3>1. ptr[p] = store[key[p]] /\ store[key[p]] \in Mutex /\ key[p] \in Key
      BY <1>6 DEF MutexLock
    <3>2. owner' = [owner EXCEPT ![ptr[p]] = p] /\ store' = store
      BY <1>6 DEF MutexLock
    <3>3. ASSUME NEW k \in Key, k # key[p] PROVE Holder'[k] = Holder[k]
      <4>1. store[k] # ptr[p]
        BY <3>1, <3>3
      <4> QED BY <3>2, <4>1
    <3>4. Holder'[key[p]] = p
      BY <3>1, <3>2
    <3>5. /\ Holder = [k \in Key |-> Holder[k]]
          /\ Holder' = [k \in Key |-> Holder'[k]]
      OBVIOUS
    <3> HIDE DEF Holder
    <3> QED BY <3>1, <3>3, <3>4, <3>5
  <2>4. Waiting' = Waiting \ {<<p, key[p]>>}
    BY <1>6 DEF MutexLock
  <2> QED BY <2>1, <2>2, <2>3, <2>4 DEF Keyed!Acquire
<1>7. ASSUME NEW p \in Proc, MutexUnlock(p) PROVE Keyed!Release(p, key[p])
  <2>1. Holder[key[p]] = p
    BY <1>7 DEF MutexUnlock
  <2>2. Holder' = [Holder EXCEPT ![key[p]] = NoProc]
    <3>1. ptr[p] = store[key[p]] /\ store[key[p]] \in Mutex /\ key[p] \in Key
      BY <1>7 DEF MutexUnlock
    <3>2. owner' = [owner EXCEPT ![ptr[p]] = NoProc] /\ store' = store
      BY <1>7 DEF MutexUnlock
    <3>3. ASSUME NEW k \in Key, k # key[p] PROVE Holder'[k] = Holder[k]
      <4>1. store[k] # ptr[p]
        BY <3>1, <3>3
      <4> QED BY <3>2, <4>1
    <3>4. Holder'[key[p]] = NoProc
      BY <3>1, <3>2
    <3>5. /\ Holder = [k \in Key |-> Holder[k]]
          /\ Holder' = [k \in Key |-> Holder'[k]]
      OBVIOUS
    <3> HIDE DEF Holder
    <3> QED BY <3>1, <3>3, <3>4, <3>5
  <2>3. Waiting' = Waiting
    BY <1>7 DEF MutexUnlock
  <2> QED BY <2>1, <2>2, <2>3 DEF Keyed!Release
<1>8. \A p \in Proc : key[p] \in Key /\ (CallLock(p) => key'[p] \in Key)
  BY DEF CallLock
<1> HIDE MutexKVAssumption DEF Keyed!vars, Holder, Waiting, MapInv, TypeOK,
         PtrInv, StoreInv, OwnerInv, Inside, Location
<1>9. CASE Next
  <2>1. PICK p \in Proc : Step(p)
    BY <1>9 DEF Next
  <2>2. CASE CallLock(p)
    BY <1>2, <1>8, <2>2 DEF Keyed!Next
  <2>3. CASE CallUnlock(p)
    BY <1>3, <2>3
  <2>4. CASE Get(p)
    BY <1>4, <1>5, <2>4 DEF Get
  <2>5. CASE MutexLock(p)
    BY <1>6, <1>8, <2>5 DEF Keyed!Next
  <2>6. CASE MutexUnlock(p)
    BY <1>7, <1>8, <2>6 DEF Keyed!Next
  <2> QED BY <2>1, <2>2, <2>3, <2>4, <2>5, <2>6 DEF Step
<1> QED BY <1>1, <1>9

(* The map of mutexes implements the keyed lock (mutexkv.go:8-41).         *)
THEOREM KeyedLockImplemented == Spec => ImplementsKeyedLock
<1>1. Init => Keyed!Init
  BY MutexKVAssumption DEF Init, Keyed!Init, Holder, Waiting
<1> QED
  BY <1>1, StepRefines, MapInvariant, PTL
  DEF Spec, ImplementsKeyedLock, Keyed!Spec
=============================================================================
