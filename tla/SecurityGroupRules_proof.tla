------------------- MODULE SecurityGroupRules_proof -------------------
(***************************************************************************)
(* The rules of a security group keep their promises for any number of     *)
(* rule resources, bodies and ids: RulesInv is inductive and implies that  *)
(* the key of the group does its work, that a resource has one rule at     *)
(* most, and that the state of an idle resource is what the group has.     *)
(***************************************************************************)
EXTENDS SecurityGroupRules, FiniteSetTheorems, TLAPS

(* The methods that will ask for a rule and have not asked yet; there is   *)
(* an id for each of them.                                                 *)
Asking == {"lock", "call", "conflict"}
Pending == {r \in Rule : op[r] \in {"create", "update"} /\ pc[r] \in Asking}
EnoughIds == Cardinality(Pending) <= Cardinality(FreeIds)

(* What a method works with.                                               *)
Recorded(r) == tf[r] # Absent /\ tf[r].id \in RuleId /\ tf[r].is \in Attributes
Prepared(r) ==
    /\ tf[r] = Absent \/ Recorded(r)
    /\ pc[r] = "idle" <=> op[r] = "none"
    /\ pc[r] = "idle" => plan[r] = Absent
    /\ op[r] = "create" => tf[r] = Absent /\ plan[r].is \in Attributes
    /\ op[r] = "update" => Recorded(r) /\ plan[r].is \in Attributes
    /\ op[r] \in {"delete", "read"} => Recorded(r) /\ plan[r] = tf[r]
    /\ op[r] = "create" /\ pc[r] \in Asking => plan[r].id = None
    /\ op[r] = "update" /\ (SameBody(r) \/ pc[r] \in Asking) => plan[r].id = tf[r].id
    /\ pc[r] \in {"wait", "read"} => plan[r].id \in RuleId
    /\ op[r] = "read" => pc[r] = "read"
    /\ op[r] = "delete" => pc[r] # "read"

(* An operation of a handler that has not given up is waited for.          *)
Waited(r) ==
    /\ r \notin gaveUp /\ running.by = r => result[r] = "running"
    /\ result[r] = "running" => pc[r] = "wait" /\ running.by = r
    /\ pc[r] = "wait" => result[r] # "none"
    /\ pc[r] \in {"idle", "lock", "call", "conflict"} => result[r] = "none"

(* The operation that a handler waits for is what its method asked for.    *)
Requested(r) ==
    result[r] = "running" =>
        /\ running.delete = IF op[r] = "create" \/ SameBody(r) THEN {} ELSE {tf[r].id}
        /\ running.add = IF op[r] = "delete" \/ SameBody(r) THEN {}
                         ELSE {[id |-> plan[r].id, is |-> plan[r].is, by |-> r]}

(* No two rules have one id; an id that somebody knows is his, and an      *)
(* operation deletes rules of him who runs it, or of those disturbed.      *)
Known == rules \union running.add
Owned ==
    /\ \A x, y \in Known : x.id = y.id => x = y
    /\ rules \intersect running.add = {}
    /\ \A x \in Known, r \in Rule : x.id = tf[r].id \/ x.id = plan[r].id => x.by = r
    /\ \A x \in running.add : x.by = running.by
    /\ \A x \in Known : x.id \in running.delete =>
          x.by = running.by \/ (running.by = Others /\ x.by \in disturbed)

(* What the rules of r should be: what the state says until the operation  *)
(* is done, and what was planned from then on.                             *)
Done(r) ==
    /\ op[r] \in {"create", "update", "delete"}
    /\ pc[r] = "read" \/ (pc[r] = "wait" /\ result[r] = "done")
Due(r) == IF ~Done(r) THEN tf[r] ELSE IF op[r] = "delete" THEN Absent ELSE plan[r]
Own(r) == {x \in rules : x.by = r}
Real(r) ==
    r \notin gaveUp =>
        /\ \A x \in Own(r) : x.id = Due(r).id /\ x.is.body = Due(r).is.body
        /\ r \notin disturbed /\ Due(r) # Absent => Own(r) # {}

Each(r) == Prepared(r) /\ Waited(r) /\ Requested(r) /\ Real(r)
RulesInv == TypeOK /\ EnoughIds /\ Owned /\ \A r \in Rule : Each(r)

-----------------------------------------------------------------------------
(* Sets of ids and of methods that wait for one.                           *)

LEMMA CardinalityBetween ==
  ASSUME NEW P, NEW F, NEW Q \in SUBSET P, NEW G, F \subseteq G,
         IsFiniteSet(P), IsFiniteSet(G), Cardinality(P) <= Cardinality(F)
  PROVE  Cardinality(Q) <= Cardinality(G)
<1>1. IsFiniteSet(Q) /\ Cardinality(Q) <= Cardinality(P)
  BY FS_Subset
<1>2. IsFiniteSet(F) /\ Cardinality(F) <= Cardinality(G)
  BY FS_Subset
<1>3. /\ Cardinality(P) \in Nat /\ Cardinality(F) \in Nat
      /\ Cardinality(Q) \in Nat /\ Cardinality(G) \in Nat
  BY <1>1, <1>2, FS_CardinalityType
<1> QED BY <1>1, <1>2, <1>3

LEMMA FiniteIds == IsFiniteSet(RuleId) /\ (\A S : IsFiniteSet(RuleId \ S))
<1>1. IsFiniteSet(RuleId)
  BY FS_Interval, SecurityGroupAssumption DEF RuleId
<1> QED BY <1>1, FS_Subset

LEMMA FiniteSets == 
  /\ IsFiniteSet(FreeIds) /\ IsFiniteSet(Pending)
  /\ IsFiniteSet(FreeIds') /\ IsFiniteSet(Pending')
<1>1. IsFiniteSet(FreeIds) /\ IsFiniteSet(FreeIds')
  BY FiniteIds DEF FreeIds
<1>2. Pending \subseteq Rule /\ Pending' \subseteq Rule
  BY DEF Pending
<1> QED BY <1>1, <1>2, FS_Subset, SecurityGroupAssumption

(* A free id is one that no rule and no method has.                        *)
Free(n) ==
    /\ n \in RuleId
    /\ \A x \in Known : x.id # n
    /\ \A r \in Rule : tf[r].id # n /\ plan[r].id # n

LEMMA FreeMeans == \A n : (n \in FreeIds <=> Free(n)) /\ ((n \in FreeIds)' <=> Free(n)')
  BY DEF FreeIds, UsedIds, Known, Free

(* Most steps free ids or leave them, and end methods that ask for one.    *)
LEMMA EnoughStays ==
  ASSUME EnoughIds, FreeIds \subseteq FreeIds', Pending' \subseteq Pending
  PROVE  EnoughIds'
  BY CardinalityBetween, FiniteSets DEF EnoughIds

(* There is an id for a method that asks.                                  *)
LEMMA NextIdFree ==
  ASSUME RulesInv, NEW r \in Pending
  PROVE  NextId \in FreeIds
<1>1. Cardinality(Pending) # 0
  BY FiniteSets, FS_EmptySet
<1>2. Cardinality(FreeIds) # 0
  BY <1>1, FiniteSets, FS_CardinalityType DEF RulesInv, EnoughIds
<1>3. FreeIds # {}
  BY <1>2, FS_EmptySet
<1> QED BY <1>3 DEF NextId

(* A method that has its id asks no more.                                  *)
LEMMA EnoughAfterOne ==
  ASSUME EnoughIds, NEW r \in Pending, Pending' = Pending \ {r},
         NEW n \in FreeIds, FreeIds \ {n} \subseteq FreeIds'
  PROVE  EnoughIds'
<1>1. Cardinality(Pending') = Cardinality(Pending) - 1
  BY FS_RemoveElement, FiniteSets
<1>2. Cardinality(FreeIds \ {n}) = Cardinality(FreeIds) - 1
  BY FS_RemoveElement, FiniteSets
<1>3. Cardinality(FreeIds \ {n}) <= Cardinality(FreeIds')
  BY FS_Subset, FiniteSets
<1>4. /\ Cardinality(Pending) \in Nat /\ Cardinality(FreeIds) \in Nat
      /\ Cardinality(FreeIds') \in Nat
  BY FiniteSets, FS_CardinalityType
<1> QED BY <1>1, <1>2, <1>3, <1>4 DEF EnoughIds

-----------------------------------------------------------------------------
(* A step of one resource that leaves the group and its operation alone    *)
(* keeps what is said of the others.                                       *)
LEMMA OthersKeep ==
  ASSUME NEW q \in Rule, Each(q), UNCHANGED <<rules, running>>,
         tf'[q] = tf[q], plan'[q] = plan[q], pc'[q] = pc[q], op'[q] = op[q],
         result'[q] = result[q], q \in gaveUp' <=> q \in gaveUp,
         q \in disturbed' <=> q \in disturbed
  PROVE  Each(q)'
<1>1. Prepared(q)'
  BY DEF Each, Prepared, Recorded, SameBody
<1>2. Waited(q)'
  BY DEF Each, Waited
<1>3. Requested(q)'
  BY DEF Each, Requested, SameBody
<1>4. Own(q)' = Own(q) /\ Due(q)' = Due(q)
  BY DEF Own, Due, Done
<1>5. Real(q)'
  BY <1>4 DEF Each, Real
<1> QED BY <1>1, <1>2, <1>3, <1>5 DEF Each

LEMMA InitRulesInv == Init => RulesInv
<1> SUFFICES ASSUME Init PROVE RulesInv OBVIOUS
<1> USE DEF Init, Absent, NoOperation
<1>1. TypeOK
  BY SecurityGroupAssumption DEF TypeOK, TfState
<1>2. EnoughIds
  <2>1. Pending = {}
    BY DEF Pending
  <2> QED BY <2>1, FS_EmptySet, FiniteSets, FS_CardinalityType DEF EnoughIds
<1>3. Owned
  BY SecurityGroupAssumption DEF Owned, Known
<1>4. ASSUME NEW r \in Rule PROVE Each(r)
  BY SecurityGroupAssumption
  DEF Each, Prepared, Waited, Requested, Real, Own, Due, Done, SameBody, Asking
<1> QED BY <1>1, <1>2, <1>3, <1>4 DEF RulesInv

(* A method starts with the state it finds.                                *)
LEMMA StartInv ==
  ASSUME RulesInv, NEW r \in Rule, Start(r)
  PROVE  RulesInv'
<1>1. PICK m \in {"create", "read", "update", "delete"},
           x \in TfState, first \in {"lock", "read"} :
        /\ Call(r, m, x, first)
        /\ x.id = tf[r].id /\ (m \in {"read", "delete"} => x = tf[r])
        /\ m \in {"create", "update"} =>
              x.is \in Attributes /\ Cardinality(FreeIds) > Cardinality(Rule)
        /\ m = "create" <=> tf[r] = Absent
        /\ m = "read" <=> first = "read"
  <2>1. /\ tf[r] \in TfState /\ (tf[r] # Absent => tf[r].id \in RuleId)
        /\ Wants[r] \subseteq Attributes /\ Absent.id = None
    BY SecurityGroupAssumption DEF RulesInv, TypeOK, Each, Prepared, Recorded, Absent
  <2>2. CASE Create(r)
    <3>1. PICK a \in Wants[r] : Call(r, "create", [id |-> None, is |-> a], "lock")
      BY <2>2 DEF Create
    <3>2. [id |-> None, is |-> a] \in TfState
      BY <2>1 DEF TfState
    <3> QED BY <2>1, <2>2, <3>1, <3>2 DEF Create
  <2>3. CASE Update(r)
    <3>1. PICK a \in Wants[r] : Call(r, "update", [tf[r] EXCEPT !.is = a], "lock")
      BY <2>3 DEF Update
    <3>2. [tf[r] EXCEPT !.is = a] \in TfState
      BY <2>1 DEF TfState
    <3> QED BY <2>1, <2>3, <3>1, <3>2 DEF Update, TfState
  <2>4. CASE Delete(r)
    BY <2>1, <2>4 DEF Delete
  <2>5. CASE Read(r)
    BY <2>1, <2>5 DEF Read
  <2> QED BY <2>2, <2>3, <2>4, <2>5 DEF Start
<1> USE DEF Call
<1>2. TypeOK'
  BY <1>1, SecurityGroupAssumption DEF RulesInv, TypeOK
<1>3. EnoughIds'
  <2>1. FreeIds \subseteq FreeIds'
    BY <1>1, FreeMeans DEF Free, Known, RulesInv, TypeOK
  <2>2. CASE m \in {"read", "delete"}
    BY <1>1, <2>1, <2>2, EnoughStays DEF Pending, RulesInv, TypeOK
  <2>3. CASE m \in {"create", "update"}
    <3>1. Pending' \subseteq Rule
      BY DEF Pending
    <3>2. Cardinality(Rule) <= Cardinality(FreeIds)
      BY <1>1, <2>3, FiniteSets, FS_CardinalityType, SecurityGroupAssumption
    <3> QED BY <2>1, <3>1, <3>2, CardinalityBetween, FiniteSets, SecurityGroupAssumption DEF EnoughIds
  <2> QED BY <2>2, <2>3
<1>4. Owned'
  BY <1>1 DEF Owned, Known, RulesInv, TypeOK
<1>5. Each(r)'
  <2>1. Prepared(r)'
    BY <1>1 DEF RulesInv, TypeOK, Each, Prepared, Recorded, SameBody, Asking, Absent, TfState
  <2>2. Waited(r)' /\ Requested(r)'
    BY <1>1 DEF RulesInv, TypeOK, Each, Waited, Requested
  <2>3. ~Done(r) /\ ~Done(r)'
    BY <1>1 DEF RulesInv, TypeOK, Each, Prepared, Done
  <2>4. Real(r)'
    BY <1>1, <2>3 DEF RulesInv, Each, Real, Own, Due
  <2> QED BY <2>1, <2>2, <2>4 DEF Each
<1>6. ASSUME NEW q \in Rule, q # r PROVE Each(q)'
  BY <1>1, <1>6, OthersKeep DEF RulesInv, TypeOK
<1> QED BY <1>2, <1>3, <1>4, <1>5, <1>6 DEF RulesInv

(* Taking the key, and waiting for the end of a conflicting operation.     *)
LEMMA QueueInv ==
  ASSUME RulesInv, NEW r \in Rule, Lock(r) \/ Conflict(r) \/ ConflictOver(r)
  PROVE  RulesInv'
<1> USE DEF Lock, Conflict, ConflictOver
<1>1. /\ UNCHANGED <<rules, running, result, op, plan, tf, gaveUp, disturbed>>
      /\ pc[r] \in Asking
      /\ \E x \in {"call", "conflict"} : pc' = [pc EXCEPT ![r] = x]
  BY DEF Asking
<1>2. TypeOK'
  BY SecurityGroupAssumption DEF RulesInv, TypeOK, Each, Prepared
<1>3. EnoughIds'
  <2>1. FreeIds \subseteq FreeIds'
    BY <1>1 DEF FreeIds, UsedIds
  <2>2. Pending' \subseteq Pending
    BY <1>1 DEF Pending, RulesInv, TypeOK, Asking
  <2> QED BY <2>1, <2>2, EnoughStays DEF RulesInv
<1>4. Owned'
  BY <1>1 DEF Owned, Known, RulesInv
<1>5. Each(r)'
  <2>1. Prepared(r)'
    BY <1>1 DEF RulesInv, TypeOK, Each, Prepared, Recorded, SameBody, Asking
  <2>2. result'[r] = "none" /\ pc'[r] # "wait" /\ (r \notin gaveUp => running.by # r)
    BY <1>1 DEF RulesInv, TypeOK, Each, Waited, Asking
  <2>3. Waited(r)' /\ Requested(r)'
    BY <1>1, <2>2 DEF Waited, Requested
  <2>4. ~Done(r) /\ ~Done(r)'
    BY <1>1 DEF RulesInv, TypeOK, Each, Prepared, Done, Asking
  <2>5. Real(r)'
    BY <1>1, <2>4 DEF RulesInv, Each, Real, Own, Due
  <2> QED BY <2>1, <2>3, <2>5 DEF Each
<1>6. ASSUME NEW q \in Rule, q # r PROVE Each(q)'
  BY <1>1, <1>6, OthersKeep DEF RulesInv, TypeOK
<1> QED BY <1>2, <1>3, <1>4, <1>5, <1>6 DEF RulesInv

(* What a handler leaves when it returns: a state x that is nothing or     *)
(* names what it worked with, and that matches the rules of the resource   *)
(* unless it has given up.                                                 *)
LEMMA ReturnInv ==
  ASSUME RulesInv, NEW r \in Rule, NEW x \in TfState, pc[r] # "idle", Return(r, x),
         UNCHANGED <<rules, running, disturbed>>,
         gaveUp' = gaveUp \/ gaveUp' = gaveUp \union {r},
         result[r] = "running" => r \in gaveUp',
         x = Absent \/ (x # Absent /\ x.id \in RuleId /\ x.is \in Attributes),
         x.id \in {None, tf[r].id, plan[r].id},
         r \notin gaveUp' =>
             /\ \A y \in Own(r) : y.id = x.id /\ y.is.body = x.is.body
             /\ r \notin disturbed /\ x # Absent => Own(r) # {}
  PROVE  RulesInv'
<1> USE DEF Return
<1>1. TypeOK'
  BY SecurityGroupAssumption DEF RulesInv, TypeOK, Absent, TfState
<1>2. Absent.id = None /\ None \notin RuleId
  BY SecurityGroupAssumption DEF Absent
<1>3. EnoughIds'
  <2>1. FreeIds \subseteq FreeIds'
    BY <1>2, FreeMeans DEF Free, Known, RulesInv, TypeOK
  <2>2. Pending' \subseteq Pending
    BY DEF Pending, RulesInv, TypeOK, Asking
  <2> QED BY <2>1, <2>2, EnoughStays DEF RulesInv
<1>4. Owned'
  <2>1. \A y \in Known : y.id \in RuleId
    BY DEF Known, RulesInv, TypeOK, StoredRule, Operation, NoOperation
  <2> QED BY <1>2, <2>1 DEF Owned, Known, RulesInv, TypeOK
<1>5. Each(r)'
  <2>1. Prepared(r)'
    BY DEF RulesInv, TypeOK, Prepared, Recorded, SameBody, Asking
  <2>2. result'[r] = "none" /\ pc'[r] = "idle" /\ (r \notin gaveUp' => running.by # r)
    BY DEF RulesInv, TypeOK, Each, Waited
  <2>3. Waited(r)' /\ Requested(r)'
    BY <2>2 DEF Waited, Requested
  <2>4. Due(r)' = x /\ Own(r)' = Own(r)
    BY DEF RulesInv, TypeOK, Due, Done, Own
  <2>5. Real(r)'
    BY <2>4 DEF Real
  <2> QED BY <2>1, <2>3, <2>5 DEF Each
<1>6. ASSUME NEW q \in Rule, q # r PROVE Each(q)'
  BY <1>6, OthersKeep DEF RulesInv, TypeOK
<1> QED BY <1>1, <1>3, <1>4, <1>5, <1>6 DEF RulesInv

(* The handlers that return.                                               *)
LEMMA ReturnsInv ==
  ASSUME RulesInv, NEW r \in Rule,
         \/ CallFails(r) \/ WaitFails(r) \/ WaitTimesOut(r)
         \/ ReadBack(r) \/ ReadFails(r)
  PROVE  RulesInv'
<1>1. /\ tf[r] \in TfState /\ plan[r] \in TfState /\ Prepared(r) /\ Waited(r) /\ Real(r)
      /\ tf[r] = Absent \/ Recorded(r)
  BY DEF RulesInv, TypeOK, Each, Prepared
<1>2. CASE CallFails(r) \/ WaitFails(r)
  <2>1. ~Done(r) /\ result[r] # "running" /\ pc[r] # "idle"
    BY <1>1, <1>2 DEF CallFails, WaitFails, Done, Waited
  <2>2. Return(r, tf[r]) /\ UNCHANGED <<rules, running, gaveUp, disturbed>>
    BY <1>2 DEF CallFails, WaitFails
  <2> QED BY <1>1, <2>1, <2>2, ReturnInv DEF Recorded, Due, Real
<1>3. CASE WaitTimesOut(r)
  BY <1>1, <1>3, ReturnInv DEF WaitTimesOut, Recorded
<1>4. ASSUME pc[r] = "read"
      PROVE  /\ Due(r) = plan[r] /\ result[r] # "running"
             /\ plan[r].id \in RuleId /\ plan[r].is \in Attributes
  BY <1>1, <1>4 DEF RulesInv, TypeOK, Waited, Prepared, Recorded, Due, Done
<1>5. CASE ReadFails(r)
  <2>1. plan[r] # Absent
    BY <1>4, <1>5, SecurityGroupAssumption DEF ReadFails, Absent
  <2> QED BY <1>1, <1>4, <1>5, <2>1, ReturnInv DEF ReadFails, Real
<1>6. CASE ReadBack(r)
  <2>1. PICK y \in rules : y.id = plan[r].id /\ Return(r, [id |-> y.id, is |-> y.is])
    BY <1>6 DEF ReadBack, Find
  <2>2. y \in Own(r) /\ y.id \in RuleId /\ y.is \in Attributes
    BY <2>1 DEF RulesInv, Owned, Known, Own, TypeOK, StoredRule
  <2> DEFINE x == [id |-> y.id, is |-> y.is]
  <2>3. x \in TfState /\ x # Absent
    BY <2>2, SecurityGroupAssumption DEF TfState, Absent
  <2>4. r \notin gaveUp => \A z \in Own(r) : z = y
    BY <1>1, <1>4, <1>6, <2>1 DEF Real, ReadBack, Own, RulesInv, Owned, Known
  <2> QED BY <1>4, <1>6, <2>1, <2>2, <2>3, <2>4, ReturnInv DEF ReadBack
<1> QED BY <1>2, <1>3, <1>5, <1>6

(* The end of an operation that a handler has waited for.                  *)
LEMMA WaitDoneInv ==
  ASSUME RulesInv, NEW r \in Rule, WaitDone(r)
  PROVE  RulesInv'
<1>1. Prepared(r) /\ Waited(r) /\ Real(r) /\ Due(r) = IF op[r] = "delete" THEN Absent ELSE plan[r]
  BY DEF RulesInv, TypeOK, Each, Prepared, WaitDone, Due, Done
<1>2. CASE op[r] = "delete"
  <2>1. Absent \in TfState /\ Absent.id = None
    BY DEF Absent, TfState
  <2> QED BY <1>1, <1>2, <2>1, ReturnInv DEF WaitDone, Real
<1>3. CASE op[r] # "delete"
  <2>1. /\ pc' = [pc EXCEPT ![r] = "read"] /\ pc[r] = "wait" /\ result[r] = "done"
        /\ UNCHANGED <<rules, running, result, lock, op, plan, tf, gaveUp, disturbed>>
    BY <1>3 DEF WaitDone
  <2>2. op[r] \in {"create", "update"}
    BY <1>1, <1>3, <2>1 DEF Prepared, RulesInv, TypeOK
  <2>3. TypeOK'
    BY <2>1, <2>2 DEF RulesInv, TypeOK
  <2>4. EnoughIds'
    <3>1. FreeIds \subseteq FreeIds'
      BY <2>1 DEF FreeIds, UsedIds
    <3>2. Pending' \subseteq Pending
      BY <2>1 DEF Pending, RulesInv, TypeOK, Asking
    <3> QED BY <3>1, <3>2, EnoughStays DEF RulesInv
  <2>5. Owned'
    BY <2>1 DEF Owned, Known, RulesInv
  <2>6. Each(r)'
    <3>1. Prepared(r)'
      BY <1>1, <2>1, <2>2 DEF RulesInv, TypeOK, Prepared, Recorded, SameBody, Asking
    <3>2. Waited(r)' /\ Requested(r)'
      BY <1>1, <2>1 DEF RulesInv, TypeOK, Waited, Requested
    <3>3. Due(r)' = Due(r) /\ Own(r)' = Own(r)
      BY <1>1, <2>1, <2>2 DEF RulesInv, TypeOK, Due, Done, Own
    <3>4. Real(r)'
      BY <1>1, <2>1, <3>3 DEF Real
    <3> QED BY <3>1, <3>2, <3>4 DEF Each
  <2>7. ASSUME NEW q \in Rule, q # r PROVE Each(q)'
    BY <2>1, <2>7, OthersKeep DEF RulesInv, TypeOK
  <2> QED BY <2>3, <2>4, <2>5, <2>6, <2>7 DEF RulesInv
<1> QED BY <1>2, <1>3

(* A call is accepted while no operation runs; its rule gets a free id.    *)
LEMMA AcceptedInv ==
  ASSUME RulesInv, NEW r \in Rule, Accepted(r)
  PROVE  RulesInv'
<1> DEFINE new == [id |-> NextId, is |-> plan[r].is, by |-> r]
<1>1. /\ Prepared(r) /\ Waited(r) /\ pc[r] = "call"
      /\ op[r] \in {"create", "update", "delete"}
      /\ op[r] # "create" => Recorded(r)
      /\ op[r] # "delete" => plan[r].is \in Attributes /\ r \in Pending
  BY DEF RulesInv, TypeOK, Each, Prepared, Accepted, Pending, Asking
<1>2. /\ running = NoOperation /\ running' = Request(r) /\ running'.by = r
      /\ running'.delete = IF op[r] = "create" \/ SameBody(r) THEN {} ELSE {tf[r].id}
      /\ running'.add = IF op[r] = "delete" \/ SameBody(r) THEN {} ELSE {new}
      /\ result' = [result EXCEPT ![r] = "running"]
      /\ pc' = [pc EXCEPT ![r] = "wait"]
      /\ plan' = [plan EXCEPT ![r].id = IF running'.add = {} THEN @ ELSE NextId]
      /\ UNCHANGED <<rules, lock, op, tf, gaveUp, disturbed>>
  BY DEF Accepted, Request
<1>3. running'.add = {} \/ (running'.add = {new} /\ NextId \in FreeIds /\ op[r] # "delete")
  BY <1>1, <1>2, NextIdFree
<1>4. running'.add \subseteq StoredRule /\ running'.delete \subseteq RuleId
  BY <1>1, <1>2, <1>3 DEF StoredRule, FreeIds, Recorded
<1>5. TypeOK'
  <2>1. running' \in Operation
    BY <1>2, <1>4 DEF Operation, Request
  <2>2. plan' \in [Rule -> TfState]
    BY <1>2, <1>3 DEF RulesInv, TypeOK, TfState, FreeIds
  <2> QED BY <1>1, <1>2, <2>1, <2>2 DEF RulesInv, TypeOK
<1>6. EnoughIds'
  <2>1. CASE running'.add = {}
    <3> plan' = plan /\ Known' = Known
      BY <1>2, <2>1 DEF Known, NoOperation, RulesInv, TypeOK, TfState
    <3>1. FreeIds \subseteq FreeIds'
      BY <1>2, FreeMeans DEF Free
    <3>2. Pending' \subseteq Pending
      BY <1>2 DEF Pending, RulesInv, TypeOK, Asking
    <3> QED BY <3>1, <3>2, EnoughStays DEF RulesInv
  <2>2. CASE running'.add = {new} /\ NextId \in FreeIds /\ op[r] # "delete"
    <3>1. FreeIds \ {NextId} \subseteq FreeIds'
      BY <1>2, <2>2, FreeMeans DEF Free, Known, RulesInv, TypeOK, TfState
    <3>2. Pending' = Pending \ {r}
      BY <1>2 DEF Pending, RulesInv, TypeOK, Asking
    <3> QED BY <1>1, <2>2, <3>1, <3>2, EnoughAfterOne DEF RulesInv
  <2> QED BY <1>3, <2>1, <2>2
<1>7. Owned'
  <2>1. /\ \A x, y \in rules : x.id = y.id => x = y
        /\ \A x \in rules, q \in Rule : x.id = tf[q].id \/ x.id = plan[q].id => x.by = q
    BY DEF RulesInv, Owned, Known
  <2>2. Known' = rules \union running'.add /\ running'.delete \subseteq {tf[r].id}
    BY <1>2 DEF Known
  <2>3. CASE running'.add = {}
    <3>1. plan' = plan
      BY <1>2, <2>3 DEF RulesInv, TypeOK, TfState
    <3> QED BY <1>1, <1>2, <2>1, <2>2, <2>3, <3>1 DEF Owned
  <2>4. CASE running'.add = {new} /\ NextId \in FreeIds
    <3>1. /\ \A x \in rules : x.id # NextId
          /\ \A q \in Rule : tf[q].id # NextId /\ plan[q].id # NextId
      BY <2>4, FreeMeans DEF Free, Known
    <3> QED BY <1>2, <2>1, <2>2, <2>4, <3>1 DEF Owned, RulesInv, TypeOK, TfState
  <2> QED BY <1>3, <2>3, <2>4
<1>8. Each(r)'
  <2>1. SameBody(r)' <=> SameBody(r)
    BY <1>2 DEF SameBody, RulesInv, TypeOK, TfState
  <2>2. /\ plan'[r].is = plan[r].is
        /\ plan'[r].id = IF running'.add = {} THEN plan[r].id ELSE NextId
        /\ running'.add = {} => plan'[r] = plan[r]
    BY <1>2 DEF RulesInv, TypeOK, TfState
  <2>3. Prepared(r)'
    BY <1>1, <1>2, <1>3, <2>1, <2>2
    DEF RulesInv, TypeOK, Prepared, Recorded, FreeIds, Asking, SameBody
  <2>4. Waited(r)' /\ Requested(r)'
    BY <1>1, <1>2, <2>1, <2>2 DEF RulesInv, TypeOK, Waited, Requested
  <2>5. Due(r)' = Due(r) /\ Own(r)' = Own(r)
    BY <1>1, <1>2 DEF RulesInv, TypeOK, Due, Done, Own
  <2>6. Real(r)'
    BY <1>2, <2>5 DEF Real, RulesInv, Each
  <2> QED BY <2>3, <2>4, <2>6 DEF Each
<1>9. ASSUME NEW q \in Rule, q # r PROVE Each(q)'
  <2>1. /\ pc'[q] = pc[q] /\ op'[q] = op[q] /\ tf'[q] = tf[q] /\ plan'[q] = plan[q]
        /\ result'[q] = result[q] /\ running.by # q
    BY <1>2, <1>9, SecurityGroupAssumption DEF RulesInv, TypeOK, NoOperation
  <2>2. Prepared(q)'
    BY <2>1 DEF RulesInv, Each, Prepared, Recorded, SameBody
  <2>3. Waited(q)' /\ Requested(q)'
    BY <1>2, <1>9, <2>1 DEF RulesInv, Each, Waited, Requested
  <2>4. Due(q)' = Due(q) /\ Own(q)' = Own(q)
    BY <1>2, <2>1 DEF Due, Done, Own
  <2>5. Real(q)'
    BY <1>2, <2>4 DEF Real, RulesInv, Each
  <2> QED BY <2>2, <2>3, <2>5 DEF Each
<1> QED BY <1>5, <1>6, <1>7, <1>8, <1>9 DEF RulesInv

(* The service finishes the operation; its rules are in the group, or not. *)
LEMMA ServiceInv ==
  ASSUME RulesInv, Service
  PROVE  RulesInv'
<1>1. /\ running # NoOperation /\ running' = NoOperation
      /\ UNCHANGED <<lock, pc, op, plan, tf, gaveUp, disturbed>>
  BY DEF Service, Complete, OperationFails, Finish
<1>2. PICK how \in {"done", "failed"} :
        /\ result' = [r \in Rule |-> IF result[r] = "running" THEN how ELSE result[r]]
        /\ rules' = IF how = "done"
                    THEN {x \in rules : x.id \notin running.delete} \union running.add
                    ELSE rules
  BY DEF Service, Complete, OperationFails, Finish
<1>3. Known' \subseteq Known /\ Known' = rules'
  BY <1>1, <1>2 DEF Known, NoOperation
<1>4. TypeOK'
  <2>1. rules' \subseteq StoredRule
    BY <1>2 DEF RulesInv, TypeOK, Operation, NoOperation
  <2> QED BY <1>1, <1>2, <2>1 DEF RulesInv, TypeOK
<1>5. EnoughIds'
  <2>1. FreeIds \subseteq FreeIds'
    BY <1>1, <1>3, FreeMeans DEF Free
  <2>2. Pending' \subseteq Pending
    BY <1>1 DEF Pending
  <2> QED BY <2>1, <2>2, EnoughStays DEF RulesInv
<1>6. Owned'
  BY <1>1, <1>3 DEF Owned, RulesInv, NoOperation
<1>7. ASSUME NEW r \in Rule PROVE Each(r)'
  <2>1. Prepared(r) /\ Waited(r) /\ Requested(r) /\ Real(r)
    BY DEF RulesInv, Each
  <2>2. Prepared(r)'
    BY <1>1, <2>1 DEF Prepared, Recorded, SameBody
  <2>3. result'[r] = IF result[r] = "running" THEN how ELSE result[r]
    BY <1>2
  <2>4. Waited(r)' /\ Requested(r)'
    BY <1>1, <2>1, <2>3, SecurityGroupAssumption DEF Waited, Requested, NoOperation
  <2>5. Real(r)'
    <3>1. CASE how = "failed"
      <4>1. Due(r)' = Due(r) /\ Own(r)' = Own(r)
        BY <1>1, <1>2, <2>3, <3>1 DEF Due, Done, Own
      <4> QED BY <1>1, <2>1, <4>1 DEF Real
    <3>2. CASE how = "done" /\ result[r] # "running"
      <4>1. Due(r)' = Due(r)
        BY <1>1, <2>3, <3>2 DEF Due, Done
      <4>2. r \notin gaveUp => running.by # r
        BY <2>1, <3>2 DEF Waited
      <4>3. ASSUME r \notin gaveUp PROVE Own(r)' \subseteq Own(r)
        BY <1>2, <3>2, <4>2, <4>3 DEF Own, RulesInv, Owned
      <4>4. ASSUME r \notin gaveUp, r \notin disturbed PROVE Own(r) \subseteq Own(r)'
        BY <1>2, <3>2, <4>2, <4>4 DEF Own, RulesInv, Owned, Known
      <4> QED BY <1>1, <2>1, <4>1, <4>3, <4>4 DEF Real
    <3>3. CASE how = "done" /\ result[r] = "running"
      <4> SUFFICES ASSUME r \notin gaveUp
                   PROVE  /\ \A x \in Own(r)' : x.id = Due(r)'.id /\ x.is.body = Due(r)'.is.body
                          /\ r \notin disturbed /\ Due(r)' # Absent => Own(r)' # {}
        BY <1>1 DEF Real
      <4>1. /\ pc[r] = "wait" /\ op[r] \in {"create", "update", "delete"}
            /\ Due(r) = tf[r]
            /\ Due(r)' = IF op[r] = "delete" THEN Absent ELSE plan[r]
        BY <1>1, <2>1, <2>3, <3>3 DEF RulesInv, TypeOK, Waited, Prepared, Due, Done
      <4>2. \A x \in Own(r) : x.id = tf[r].id /\ x.is.body = tf[r].is.body /\ x.id \in RuleId
        BY <2>1, <4>1 DEF Real, Own, RulesInv, TypeOK, StoredRule
      <4>3. Own(r)' = {x \in Own(r) : x.id \notin running.delete}
                        \union {x \in running.add : x.by = r}
        BY <1>2, <3>3 DEF Own
      <4> DEFINE new == [id |-> plan[r].id, is |-> plan[r].is, by |-> r]
      <4> HIDE DEF new
      <4>0. new.id = plan[r].id /\ new.is = plan[r].is /\ new.by = r
        BY DEF new
      <4>4. CASE op[r] = "create"
        <5>1. Own(r) = {}
          BY <2>1, <4>2, <4>4, SecurityGroupAssumption DEF Prepared, Absent
        <5>2. running.add = {new}
          BY <2>1, <3>3, <4>4 DEF Requested, SameBody, new
        <5>3. Own(r)' = {new}
          BY <4>3, <4>0, <5>1, <5>2
        <5> QED BY <4>1, <4>4, <4>0, <5>3
      <4>5. CASE op[r] = "delete"
        BY <2>1, <3>3, <4>1, <4>2, <4>3, <4>5 DEF Requested, SameBody
      <4>6. CASE op[r] = "update" /\ SameBody(r)
        BY <2>1, <3>3, <4>1, <4>2, <4>3, <4>6 DEF Requested, SameBody, Prepared, Recorded, Real
      <4>7. CASE op[r] = "update" /\ ~SameBody(r)
        <5>1. running.add = {new} /\ running.delete = {tf[r].id}
          BY <2>1, <3>3, <4>7 DEF Requested, new
        <5>2. Own(r)' = {new}
          BY <4>2, <4>3, <4>0, <5>1
        <5> QED BY <4>1, <4>7, <4>0, <5>2
      <4> QED BY <4>1, <4>4, <4>5, <4>6, <4>7
    <3> QED BY <3>1, <3>2, <3>3
  <2> QED BY <2>2, <2>4, <2>5 DEF Each
<1> QED BY <1>4, <1>5, <1>6, <1>7 DEF RulesInv

(* Others start an operation of their own: it deletes exposed rules.       *)
LEMMA OthersStartInv ==
  ASSUME RulesInv, OthersStart
  PROVE  RulesInv'
<1>1. PICK S \in SUBSET rules :
        /\ running' = [by |-> Others, add |-> {}, delete |-> {x.id : x \in S}]
        /\ disturbed' = disturbed \union {x.by : x \in S}
  BY DEF OthersStart
<1>2. running = NoOperation /\ UNCHANGED <<rules, result, lock, pc, op, plan, tf, gaveUp>>
  BY DEF OthersStart
<1>3. TypeOK'
  <2>1. {x.id : x \in S} \subseteq RuleId /\ {x.by : x \in S} \subseteq Rule
    BY DEF RulesInv, TypeOK, StoredRule
  <2>2. running' \in Operation
    BY <1>1, <2>1 DEF Operation
  <2> QED BY <1>1, <1>2, <2>1, <2>2 DEF RulesInv, TypeOK
<1>4. Known' = rules /\ Known = rules
  BY <1>1, <1>2 DEF Known, NoOperation
<1>5. EnoughIds'
  <2>1. FreeIds \subseteq FreeIds'
    BY <1>2, <1>4, FreeMeans DEF Free
  <2>2. Pending' \subseteq Pending
    BY <1>2 DEF Pending
  <2> QED BY <2>1, <2>2, EnoughStays DEF RulesInv
<1>6. Owned'
  BY <1>1, <1>2, <1>4 DEF Owned, RulesInv
<1>7. ASSUME NEW r \in Rule PROVE Each(r)'
  <2>1. Prepared(r) /\ Waited(r) /\ Real(r) /\ result[r] # "running" /\ running'.by # r
    BY <1>1, <1>2, SecurityGroupAssumption DEF RulesInv, Each, Waited, NoOperation
  <2>2. Prepared(r)'
    BY <1>2, <2>1 DEF Prepared, Recorded, SameBody
  <2>3. Waited(r)' /\ Requested(r)'
    BY <1>2, <2>1 DEF Waited, Requested
  <2>4. Due(r)' = Due(r) /\ Own(r)' = Own(r)
    BY <1>2 DEF Due, Done, Own
  <2>5. Real(r)'
    BY <1>1, <1>2, <2>1, <2>4 DEF Real
  <2> QED BY <2>2, <2>3, <2>5 DEF Each
<1> QED BY <1>3, <1>5, <1>6, <1>7 DEF RulesInv

-----------------------------------------------------------------------------
(* RulesInv holds in every reachable state.                                *)
THEOREM RulesInvariant == Spec => []RulesInv
<1>1. RulesInv /\ [Next]_vars => RulesInv'
  <2> SUFFICES ASSUME RulesInv, [Next]_vars PROVE RulesInv' OBVIOUS
  <2>1. CASE UNCHANGED vars
    <3>1. TypeOK' /\ EnoughIds' /\ Owned'
      BY <2>1 DEF vars, RulesInv, TypeOK, EnoughIds, Pending, FreeIds, UsedIds, Owned, Known
    <3>2. ASSUME NEW r \in Rule PROVE Each(r)'
      BY <2>1, OthersKeep DEF vars, RulesInv
    <3> QED BY <3>1, <3>2 DEF RulesInv
  <2>2. CASE Next
    BY <2>2, StartInv, QueueInv, ReturnsInv, WaitDoneInv, AcceptedInv, ServiceInv, OthersStartInv
    DEF Next, Handler
  <2> QED BY <2>1, <2>2
<1> QED BY InitRulesInv, <1>1, PTL DEF Spec

(* Types, and who is past the lock of a method holds the key of the group  *)
(* (vpc_security_group_rule/resource.go, mutexkv.go).                      *)
THEOREM GroupLockedCorrectly == Spec => []TypeOK
<1>1. RulesInv => TypeOK
  BY DEF RulesInv
<1> QED BY RulesInvariant, <1>1, PTL

(* The lock keeps the handlers of a group apart: who finds a conflicting   *)
(* operation meets others, or a handler that gave up waiting               *)
(* (pkg/retry, vpc_security_group/api).                                    *)
THEOREM LockSeparatesHandlers == Spec => []ConflictsAreForeign
<1>1. RulesInv => ConflictsAreForeign
  <2> SUFFICES ASSUME RulesInv, NEW r \in Rule, pc[r] \in {"call", "conflict"},
                      running # NoOperation, running.by # Others, running.by \notin gaveUp
               PROVE  FALSE
    BY DEF ConflictsAreForeign
  <2>1. running.by \in Rule
    BY DEF RulesInv, TypeOK, Operation
  <2>2. pc[running.by] = "wait" /\ op[running.by] # "read"
    BY <2>1 DEF RulesInv, Each, Waited, Prepared
  <2>3. lock = running.by
    BY <2>1, <2>2 DEF RulesInv, TypeOK
  <2>4. lock = r
    BY DEF RulesInv, Each, Prepared, TypeOK
  <2> QED BY <2>2, <2>3, <2>4
<1> QED BY RulesInvariant, <1>1, PTL

(* A resource has one rule in the group at most, also while its body is    *)
(* replaced (resource.go:357-420).                                         *)
THEOREM OneRulePerResource == Spec => []OneRuleEach
<1>1. RulesInv => OneRuleEach
  <2> SUFFICES ASSUME RulesInv, NEW r \in Rule \ gaveUp
               PROVE  Cardinality(Own(r)) <= 1
    BY DEF OneRuleEach, Own
  <2>1. \A x, y \in Own(r) : x = y
    BY DEF RulesInv, Each, Real, Owned, Known, Own
  <2>2. Own(r) = {} \/ \E x \in Own(r) : Own(r) = {x}
    BY <2>1
  <2>3. Cardinality({}) = 0 /\ \A x : Cardinality({x}) = 1
    BY FS_EmptySet, FS_Singleton
  <2>4. Cardinality(Own(r)) \in {0, 1}
    BY <2>2, <2>3
  <2> QED BY <2>4
<1> QED BY RulesInvariant, <1>1, PTL

(* What the state of an idle resource says is what the group has           *)
(* (resource.go:292-347, 432-500).                                         *)
THEOREM StateIsTrue == Spec => []StateIsReal
<1>1. RulesInv => StateIsReal
  <2> SUFFICES ASSUME RulesInv, NEW r \in Rule \ (gaveUp \union disturbed), pc[r] = "idle"
               PROVE  {<<x.id, x.is.body>> : x \in Own(r)}
                        = IF tf[r] = Absent THEN {} ELSE {<<tf[r].id, tf[r].is.body>>}
    BY DEF StateIsReal, Own
  <2>1. Due(r) = tf[r]
    BY DEF Due, Done
  <2>2. /\ \A x \in Own(r) : x.id = tf[r].id /\ x.is.body = tf[r].is.body
        /\ tf[r] # Absent => Own(r) # {}
    BY <2>1 DEF RulesInv, Each, Real
  <2>3. tf[r] = Absent => Own(r) = {}
    BY <2>2, SecurityGroupAssumption DEF Own, Absent, RulesInv, TypeOK, StoredRule
  <2> QED BY <2>2, <2>3
<1> QED BY RulesInvariant, <1>1, PTL
=============================================================================
