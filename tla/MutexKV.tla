------------------------------- MODULE MutexKV -------------------------------
(***************************************************************************)
(* common/mutexkv/mutexkv.go: a map from keys to mutexes.                  *)
(*                                                                         *)
(* Lock(key) and Unlock(key) both go through get(key), which looks the key *)
(* up and creates its mutex on first use, under the map's own mutex        *)
(* (m.lock).  Each memory access and each sync.Mutex call is a step.       *)
(* A process is a goroutine of the provider running one CRUD handler; it   *)
(* takes one key, does its work and gives the key back (every caller in    *)
(* the provider pairs Lock with a deferred Unlock of the same key).        *)
(***************************************************************************)
EXTENDS Naturals, FiniteSets

CONSTANTS
    Proc,       \* goroutines
    Key,        \* lock keys
    Mutex,      \* identities of the per-key mutexes the map may allocate
    NoProc,     \* an unlocked mutex
    NoMutex     \* a key that is absent from the map, or a nil pointer

ASSUME MutexKVAssumption ==
    /\ NoProc \notin Proc
    /\ NoMutex \notin Mutex

VARIABLES
    lock,       \* m.lock: the process inside get(), or NoProc
    store,      \* m.store: Key -> mutex or NoMutex
    owner,      \* Mutex -> the process that locked it, or NoProc
    pc,         \* where each process is
    call,       \* the method each process runs, "Lock" or "Unlock"
    key,        \* its argument
    ptr         \* the mutex get() found for it

vars == <<lock, store, owner, pc, call, key, ptr>>

Location == {"idle", "enter", "lookup", "create", "leave", "mutex", "held"}

(* Types; and a pointer that is about to be locked or unlocked is not nil.  *)
TypeOK ==
    /\ lock \in Proc \union {NoProc}
    /\ store \in [Key -> Mutex \union {NoMutex}]
    /\ owner \in [Mutex -> Proc \union {NoProc}]
    /\ pc \in [Proc -> Location]
    /\ call \in [Proc -> {"Lock", "Unlock"}]
    /\ key \in [Proc -> Key]
    /\ ptr \in [Proc -> Mutex \union {NoMutex}]
    /\ \A p \in Proc : pc[p] \in {"mutex", "held"} => ptr[p] # NoMutex

(* NewMutexKV: an empty map.                                               *)
Init ==
    /\ lock = NoProc
    /\ store = [k \in Key |-> NoMutex]
    /\ owner = [m \in Mutex |-> NoProc]
    /\ pc = [p \in Proc |-> "idle"]
    /\ call = [p \in Proc |-> "Lock"]
    /\ key \in [Proc -> Key]
    /\ ptr = [p \in Proc |-> NoMutex]

(* m.Lock(key) is called: on to get().                                     *)
CallLock(p) ==
    /\ pc[p] = "idle"
    /\ pc' = [pc EXCEPT ![p] = "enter"]
    /\ call' = [call EXCEPT ![p] = "Lock"]
    /\ \E k \in Key : key' = [key EXCEPT ![p] = k]
    /\ ptr' = [ptr EXCEPT ![p] = NoMutex]
    /\ UNCHANGED <<lock, store, owner>>

(* m.Unlock(key), deferred by every caller right after Lock.               *)
CallUnlock(p) ==
    /\ pc[p] = "held"
    /\ pc' = [pc EXCEPT ![p] = "enter"]
    /\ call' = [call EXCEPT ![p] = "Unlock"]
    /\ ptr' = [ptr EXCEPT ![p] = NoMutex]
    /\ UNCHANGED <<lock, store, owner, key>>

(* Variant: get() without m.lock, the map read and written unprotected.    *)
GetEnterUnlocked(p) ==
    /\ pc[p] = "enter"
    /\ pc' = [pc EXCEPT ![p] = "lookup"]
    /\ UNCHANGED <<lock, store, owner, call, key, ptr>>

(* get: m.lock.Lock()                                                      *)
GetEnter(p) ==
    /\ pc[p] = "enter"
    /\ lock = NoProc
    /\ lock' = p
    /\ pc' = [pc EXCEPT ![p] = "lookup"]
    /\ UNCHANGED <<store, owner, call, key, ptr>>

(* Variant: "ok" ignored, the looked-up pointer used even when nil.        *)
GetLookupUnchecked(p) ==
    /\ pc[p] = "lookup"
    /\ ptr' = [ptr EXCEPT ![p] = store[key[p]]]
    /\ pc' = [pc EXCEPT ![p] = "leave"]
    /\ UNCHANGED <<lock, store, owner, call, key>>

(* Variant: a mutex created on every call, found or not.                   *)
GetLookupAlwaysNew(p) ==
    /\ pc[p] = "lookup"
    /\ pc' = [pc EXCEPT ![p] = "create"]
    /\ UNCHANGED <<lock, store, owner, call, key, ptr>>

(* get: mutex, ok := m.store[key]                                          *)
GetLookup(p) ==
    /\ pc[p] = "lookup"
    /\ ptr' = [ptr EXCEPT ![p] = store[key[p]]]
    /\ pc' = [pc EXCEPT ![p] =
                IF store[key[p]] = NoMutex THEN "create" ELSE "leave"]
    /\ UNCHANGED <<lock, store, owner, call, key>>

(* Allocated mutexes: those a key or a local variable points to.           *)
Allocated == {store[k] : k \in Key} \union {ptr[p] : p \in Proc}

(* get: mutex = &sync.Mutex{}; m.store[key] = mutex.  The new mutex is one *)
(* nothing refers to, and it is unlocked.                                  *)
GetCreate(p) ==
    /\ pc[p] = "create"
    /\ \E m \in Mutex \ Allocated :
          /\ store' = [store EXCEPT ![key[p]] = m]
          /\ owner' = [owner EXCEPT ![m] = NoProc]
          /\ ptr' = [ptr EXCEPT ![p] = m]
    /\ pc' = [pc EXCEPT ![p] = "leave"]
    /\ UNCHANGED <<lock, call, key>>

(* Variant: the deferred unlock of m.lock forgotten.                       *)
GetLeaveLocked(p) ==
    /\ pc[p] = "leave"
    /\ pc' = [pc EXCEPT ![p] = "mutex"]
    /\ UNCHANGED <<lock, store, owner, call, key, ptr>>

(* get: the deferred m.lock.Unlock()                                       *)
GetLeave(p) ==
    /\ pc[p] = "leave"
    /\ lock' = NoProc
    /\ pc' = [pc EXCEPT ![p] = "mutex"]
    /\ UNCHANGED <<store, owner, call, key, ptr>>

(* Variant: TryLock with its result dropped.                               *)
MutexLockTry(p) ==
    /\ pc[p] = "mutex"
    /\ call[p] = "Lock"
    /\ owner' = IF owner[ptr[p]] = NoProc
                THEN [owner EXCEPT ![ptr[p]] = p] ELSE owner
    /\ pc' = [pc EXCEPT ![p] = "held"]
    /\ UNCHANGED <<lock, store, call, key, ptr>>

(* m.get(key).Lock()                                                       *)
MutexLock(p) ==
    /\ pc[p] = "mutex"
    /\ call[p] = "Lock"
    /\ owner[ptr[p]] = NoProc
    /\ owner' = [owner EXCEPT ![ptr[p]] = p]
    /\ pc' = [pc EXCEPT ![p] = "held"]
    /\ UNCHANGED <<lock, store, call, key, ptr>>

(* m.get(key).Unlock()                                                     *)
MutexUnlock(p) ==
    /\ pc[p] = "mutex"
    /\ call[p] = "Unlock"
    /\ owner' = [owner EXCEPT ![ptr[p]] = NoProc]
    /\ pc' = [pc EXCEPT ![p] = "idle"]
    /\ UNCHANGED <<lock, store, call, key, ptr>>

Get(p) == GetEnter(p) \/ GetLookup(p) \/ GetCreate(p) \/ GetLeave(p)

Step(p) ==
    \/ CallLock(p) \/ CallUnlock(p) \/ Get(p)
    \/ MutexLock(p) \/ MutexUnlock(p)

Next == \E p \in Proc : Step(p)

Spec == Init /\ [][Next]_vars

(* A goroutine that has started Lock keeps running, and the section a key  *)
(* guards ends (API calls carry a deadline).  sync.Mutex hands the lock to *)
(* the longest waiter once it has waited for a millisecond, so a waiter    *)
(* that finds the mutex free again and again gets it: strong fairness.     *)
Fairness ==
    \A p \in Proc :
        /\ WF_vars(CallUnlock(p))
        /\ SF_vars(GetEnter(p))
        /\ WF_vars(GetLookup(p) \/ GetCreate(p) \/ GetLeave(p))
        /\ SF_vars(MutexLock(p))
        /\ WF_vars(MutexUnlock(p))

FairSpec == Spec /\ Fairness

-----------------------------------------------------------------------------
(* A process is inside the section of its key from the return of Lock to   *)
(* the release of the mutex in Unlock.                                     *)
Inside(p) == pc[p] = "held" \/ (call[p] = "Unlock" /\ pc[p] # "idle")

(* Why the map works: what the two mutexes protect.  MapInv is inductive   *)
(* and gives the properties below.                                         *)

(* m.lock is held exactly by the process inside get().                     *)
LockInv == \A p \in Proc : pc[p] \in {"lookup", "create", "leave"} <=> lock = p

(* The key looked up is still absent when its mutex is created, and what   *)
(* get() returned is what the map still holds for the key afterwards.      *)
PtrInv ==
    \A p \in Proc :
        /\ pc[p] = "create" => store[key[p]] = NoMutex
        /\ pc[p] \in {"leave", "mutex", "held"} =>
              store[key[p]] # NoMutex /\ ptr[p] = store[key[p]]

(* No two keys share a mutex.                                              *)
StoreInv ==
    \A j, k \in Key : store[j] # NoMutex /\ store[j] = store[k] => j = k

(* Exactly the processes inside a section own their key's mutex.           *)
OwnerInv ==
    /\ \A p \in Proc : Inside(p) =>
          store[key[p]] # NoMutex /\ owner[store[key[p]]] = p
    /\ \A k \in Key : store[k] # NoMutex /\ owner[store[k]] # NoProc =>
          Inside(owner[store[k]]) /\ key[owner[store[k]]] = k

MapInv == TypeOK /\ LockInv /\ PtrInv /\ StoreInv /\ OwnerInv

(* Two goroutines that lock the same key are never inside together, even   *)
(* when both were the first to ask for the key (mutexkv.go:8-10: the store *)
(* serialises changes across collaborators that share the key).            *)
MutualExclusion ==
    \A p, q \in Proc : Inside(p) /\ Inside(q) /\ key[p] = key[q] => p = q

(* Unlock looks the key up again (mutexkv.go:27): it must find the mutex   *)
(* its own Lock took, or sync.Mutex aborts the program with "unlock of     *)
(* unlocked mutex" or frees somebody else's section.                       *)
UnlockFindsOwnMutex ==
    \A p \in Proc :
        pc[p] = "mutex" /\ call[p] = "Unlock" => owner[ptr[p]] = p

(* A key keeps the mutex it got first: replacing it would let a second     *)
(* process in while the first still holds the old one (mutexkv.go:35-39).  *)
StoreOnlyGrows ==
    [][\A k \in Key : store[k] # NoMutex => store'[k] = store[k]]_vars

(* A caller of Lock eventually gets the key (mutexkv.go:18-22).            *)
LockReturns ==
    \A p \in Proc :
        (pc[p] = "enter" /\ call[p] = "Lock") ~> pc[p] = "held"

(* Who holds a key, and who waits for one, in the terms of KeyedLock.      *)
Holder == [k \in Key |-> IF store[k] = NoMutex THEN NoProc ELSE owner[store[k]]]

Waiting ==
    {w \in Proc \X Key :
        /\ call[w[1]] = "Lock"
        /\ pc[w[1]] \notin {"idle", "held"}
        /\ key[w[1]] = w[2]}

Keyed == INSTANCE KeyedLock WITH holder <- Holder, want <- Waiting

(* The map of mutexes behaves as one lock per key, whatever the order in   *)
(* which the keys' mutexes come into being (mutexkv.go:8-10).              *)
ImplementsKeyedLock == Keyed!Spec
=============================================================================
