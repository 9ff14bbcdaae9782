------------------------- MODULE ResourceApply_proof -------------------------
(***************************************************************************)
(* For any rows that are Faithful, with all their arguments at once, any   *)
(* values, and whatever fails however often: a plan that shows nothing to  *)
(* do means that the object is as configured (NoDiffMeansApplied), and so  *)
(* does success (SuccessApplies).  For rows that are Careful no object is  *)
(* lost (NothingOrphaned).                                                 *)
(*                                                                         *)
(* None of these is inductive.  What keeps them is that a value in the     *)
(* state that no Read corrects is the one of the object, unless a failed   *)
(* Update may have written it (Settled); that Update moves the arguments   *)
(* of its calls from the old values to the new (Moving); and that Create   *)
(* has set what its calls so far send (Made).                              *)
(***************************************************************************)
EXTENDS ResourceApply, TLAPS

(* Where the object is, by what the handlers are doing.                    *)
Presence ==
    /\ pc = "fresh" /\ status # "absent" => exists
    /\ pc = "update" => exists /\ status = "known"
    /\ pc = "create" =>
          /\ status = "absent" /\ (exists <=> 1 \notin todo)
          /\ 1 \in todo => todo = DOMAIN Create.calls
    /\ pc # "create" /\ status = "absent" => ~exists

(* An Update replaces nothing and refuses nothing, and makes the due calls.*)
Lawful ==
    pc = "update" =>
        /\ Changed \intersect ForceNew = {}
        /\ Changed \intersect Update.refuses = {}
        /\ todo \subseteq Due

(* The state of a known resource says what the object has: in what no Read *)
(* takes over at any time, in everything once it is refreshed.             *)
Settled ==
    status = "known" =>
        /\ pc \in {"idle", "fresh", "delete"} =>
              \A a \in Promised \ Read.takes : object[a] = state[a]
        /\ pc = "fresh" => \A a \in Promised : object[a] = state[a]

(* During an Update an argument has its old value, or some call that has   *)
(* been made sends it.                                                     *)
Moving ==
    pc = "update" =>
        \A a \in Promised :
            \/ object[a] = state[a]
            \/ object[a] = config[a] /\ \E i \in Due \ todo : a \in Sent(i)

(* And what has been sent has arrived.                                     *)
Arrived ==
    pc = "update" => \A i \in Due \ todo : \A a \in Sent(i) \intersect args : object[a] = config[a]

(* During a Create what the calls made so far send has arrived.            *)
Made ==
    pc = "create" =>
        \A i \in DOMAIN Create.calls \ todo :
            \A a \in Create.calls[i] \intersect args : object[a] = config[a]

FaithfulRows == \A k \in Kind : Faithful(k)
CarefulRows == \A k \in Kind \ Orphans : Careful(k)

ShapeInv == TypeOK /\ Presence /\ Lawful
DataInv == Settled /\ Moving /\ Arrived /\ Made
ApplyInv == ShapeInv /\ DataInv

-----------------------------------------------------------------------------
(* What the assumption on the rows says of one row.                        *)
LEMMA RowType1 ==
  ASSUME NEW k \in Kind
  PROVE  /\ Rows[k].forceNew \subseteq Rows[k].args
         /\ Rows[k].create.id \in {"accepted", "done", "saved", "adopted"}
         /\ Rows[k].create.calls \in Seq(SUBSET Rows[k].args)
         /\ DOMAIN Rows[k].create.calls = 1 .. Len(Rows[k].create.calls)
         /\ 1 \in DOMAIN Rows[k].create.calls
         /\ Rows[k].read.takes \subseteq Rows[k].args
         /\ Rows[k].read.gone \in BOOLEAN
         /\ Rows[k].update.keeps \in {"plan", "partial", "prior"}
         /\ Rows[k].update.strict \in BOOLEAN
         /\ Rows[k].update.refuses \subseteq Rows[k].args
         /\ DOMAIN Rows[k].update.calls = 1 .. Len(Rows[k].update.calls)
         /\ \A i \in DOMAIN Rows[k].update.calls : Rows[k].update.calls[i].whole \in BOOLEAN
         /\ Rows[k].delete \in {Tolerant, Exacting, Forgetful, Careless}
<1> DEFINE r == Rows[k]
<1>1. r \in RowType(r.args) /\ r.create.calls # << >>
  BY RowsAssumption
<1>2. /\ r.forceNew \subseteq r.args
      /\ r.create \in CreateType(r.args)
      /\ r.read \in ReadType(r.args)
      /\ r.update \in UpdateType(r.args)
      /\ r.delete \in {Tolerant, Exacting, Forgetful, Careless}
  BY <1>1 DEF RowType
<1>3. r.create.calls \in Seq(SUBSET r.args) /\ r.create.id \in {"accepted", "done", "saved", "adopted"}
  BY <1>2 DEF CreateType
<1>4. DOMAIN r.create.calls = 1 .. Len(r.create.calls) /\ 1 \in DOMAIN r.create.calls
  BY <1>1, <1>3
<1>5. r.read.takes \subseteq r.args /\ r.read.gone \in BOOLEAN
  BY <1>2 DEF ReadType
<1> DEFINE C == [on : SUBSET r.args, sends : SUBSET r.args, whole : BOOLEAN]
<1>6. /\ r.update.keeps \in {"plan", "partial", "prior"}
      /\ r.update.strict \in BOOLEAN
      /\ r.update.refuses \subseteq r.args
      /\ r.update.calls \in Seq(C)
  BY <1>2 DEF UpdateType
<1>7. DOMAIN r.update.calls = 1 .. Len(r.update.calls) /\ \A i \in DOMAIN r.update.calls : r.update.calls[i] \in C
  <2> HIDE DEF C, r
  <2> QED BY <1>6
<1> QED BY <1>2, <1>3, <1>4, <1>5, <1>6, <1>7

(* Calls are numbered from 1.                                              *)
LEMMA CallNumbers ==
  ASSUME kind \in Kind
  PROVE  /\ DOMAIN Create.calls \subseteq Nat \ {0} /\ 1 \in DOMAIN Create.calls
         /\ DOMAIN Update.calls \subseteq Nat \ {0}
<1>1. /\ DOMAIN Create.calls = 1 .. Len(Create.calls) /\ 1 \in DOMAIN Create.calls
      /\ DOMAIN Update.calls = 1 .. Len(Update.calls)
  BY RowType1 DEF Create, Update
<1> QED BY <1>1

(* What a call makes of the object: it sets what it sends, and the rest    *)
(* stays, except that the first call of Create makes a new object.         *)
LEMMA CallEffect ==
  ASSUME TypeOK, NEW i, NEW o \in Results(i)
  PROVE  /\ o \in [args -> Value]
         /\ \A a \in Sent(i) \intersect args : o[a] = config[a]
         /\ ~(pc = "create" /\ i = 1) => \A a \in args \ Sent(i) : o[a] = object[a]
<1>1. CASE pc = "create" /\ i = 1
  BY <1>1 DEF Results, Over, TypeOK
<1>2. CASE ~(pc = "create" /\ i = 1)
  BY <1>2 DEF Results, Over, TypeOK
<1> QED BY <1>1, <1>2

(* The calls still to make are calls of the handler.                       *)
LEMMA TodoType ==
  ASSUME TypeOK
  PROVE  /\ todo \subseteq Nat
         /\ pc = "create" => todo \subseteq DOMAIN Create.calls /\ 1 \in DOMAIN Create.calls
         /\ pc = "update" => todo \subseteq DOMAIN Update.calls
         /\ Due \subseteq DOMAIN Update.calls /\ Due \subseteq Nat
         /\ DOMAIN Create.calls \subseteq Nat
         /\ Changed \subseteq args
<1>1. pc \in {"create", "update"} \/ todo = {}
  BY DEF TypeOK
<1>2. pc = "create" => todo \subseteq DOMAIN Create.calls
  BY DEF TypeOK
<1>3. pc = "update" => todo \subseteq DOMAIN Update.calls
  BY DEF TypeOK
<1>4. Due \subseteq DOMAIN Update.calls /\ Changed \subseteq args
  BY DEF Due, Changed
<1>5. kind \in Kind
  BY DEF TypeOK
<1> QED BY <1>1, <1>2, <1>3, <1>4, <1>5, CallNumbers

(* What an Update writes are arguments that have changed.                  *)
LEMMA WrittenArgs ==
  ASSUME NEW S
  PROVE  /\ Written(S) \subseteq args /\ Written(S) \subseteq Changed
         /\ \A a \in Changed : a \in Written(S) <=> \E i \in S : a \in Sent(i)
<1>1. Changed \subseteq args
  BY DEF Changed
<1> DEFINE U == UNION {Sent(i) : i \in S}
<1>2. Written(S) = U \intersect Changed
  BY DEF Written
<1>3. \A a : a \in U <=> \E i \in S : a \in Sent(i)
  <2> HIDE DEF Sent
  <2>1. ASSUME NEW a, a \in U PROVE \E i \in S : a \in Sent(i)
    <3> PICK x \in {Sent(i) : i \in S} : a \in x
      BY <2>1
    <3> QED OBVIOUS
  <2>2. ASSUME NEW a, NEW i \in S, a \in Sent(i) PROVE a \in U
    <3>1. Sent(i) \in {Sent(j) : j \in S}
      OBVIOUS
    <3> QED BY <2>2, <3>1
  <2> QED BY <2>1, <2>2
<1> HIDE DEF U
<1> QED BY <1>1, <1>2, <1>3

(* A failure counts.                                                       *)
LEMMA FailsType == ASSUME TypeOK, Fails PROVE failures' \in 0 .. MaxFailures /\ failures' # failures
  BY MaxFailuresAssumption DEF TypeOK, Fails

-----------------------------------------------------------------------------
(* Types, where the object is, and what an Update does, hold for any rows. *)
LEMMA ShapeInit == Init => ShapeInv
<1> SUFFICES ASSUME Init PROVE ShapeInv
  OBVIOUS
<1>1. args \subseteq Rows[kind].args
  BY RowsAssumption DEF Init
<1>2. TypeOK
  <2>1. failures \in 0 .. MaxFailures
    BY MaxFailuresAssumption DEF Init
  <2> QED BY <1>1, <2>1 DEF Init, TypeOK
<1> QED BY <1>2 DEF Init, ShapeInv, Presence, Lawful

LEMMA ShapeNext == ShapeInv /\ [Next]_vars => ShapeInv'
<1> SUFFICES ASSUME ShapeInv, [Next]_vars PROVE ShapeInv'
  OBVIOUS
<1> USE DEF ShapeInv
<1>1. CASE UNCHANGED vars
  BY <1>1 DEF vars, local, remote, written, TypeOK, Presence, Lawful, Create, Update, ForceNew,
      Changed, Due
<1>2. CASE Edit
  BY <1>2 DEF Edit, local, remote, TypeOK, Presence, Lawful, Create, Update
<1>3. CASE Vanish
  BY <1>3, FailsType DEF Vanish, local, written, TypeOK, Presence, Lawful, Create, Update
<1>4. CASE Refresh
  <2>1. state' \in [args -> Value]
    BY <1>4 DEF Refresh, Over, TypeOK, local
  <2>2. TypeOK'
    BY <1>4, <2>1 DEF Refresh, TypeOK, written, remote, local, Create, Update
  <2> QED BY <1>4, <2>2 DEF Refresh, Presence, Lawful, remote, local, TypeOK
<1>5. CASE NothingToDo
  BY <1>5 DEF NothingToDo, TypeOK, Presence, Lawful, written, local, remote, Create, Update
<1>6. CASE StartCreate
  BY <1>6, RowType1 DEF StartCreate, TypeOK, Presence, Lawful, written, local, remote, Create, Update
<1>7. CASE StartDelete
  BY <1>7 DEF StartDelete, TypeOK, Presence, Lawful, written, local, remote, Create, Update
<1>8. CASE StartUpdate
  <2>1. todo' = Due /\ Due' = Due /\ Changed' = Changed /\ Update' = Update
        /\ ForceNew' = ForceNew
    BY <1>8 DEF StartUpdate, written, local, Due, Changed, Update, ForceNew
  <2>2. TypeOK'
    BY <1>8, <2>1, TodoType DEF StartUpdate, TypeOK, written, local, remote, Create, Update
  <2> QED BY <1>8, <2>1, <2>2 DEF StartUpdate, Presence, Lawful, Replaces, Refused, local, remote
<1>9. CASE UpdateRefused
  BY <1>9 DEF UpdateRefused, TypeOK, Presence, Lawful, written, remote, Create, Update
<1>10. CASE CallDone
  <2> PICK i \in todo : IsNext(i) /\ object' \in Results(i) /\ todo' = todo \ {i}
    BY <1>10 DEF CallDone
  <2>1. object' \in [args -> Value]
    BY CallEffect
  <2>2. pc \in {"create", "update"}
    BY DEF TypeOK
  <2>3. TypeOK'
    BY <1>10, <2>1 DEF CallDone, TypeOK, written, local, Create, Update
  <2>4. pc = "create" => 1 \notin todo'
    <3> SUFFICES ASSUME pc = "create", 1 \in todo, i # 1 PROVE FALSE
      OBVIOUS
    <3>1. i \in Nat \ {0}
      BY TodoType, CallNumbers DEF TypeOK
    <3> QED BY <3>1 DEF IsNext
  <2>5. Due' = Due /\ Changed' = Changed /\ Update' = Update /\ ForceNew' = ForceNew
    BY <1>10 DEF CallDone, written, local, Due, Changed, Update, ForceNew
  <2> QED BY <1>10, <2>2, <2>3, <2>4, <2>5 DEF CallDone, Presence, Lawful, local
<1>11. CASE FinishCreate \/ FinishUpdate
  <2>1. state' \in [args -> Value]
    BY <1>11 DEF FinishCreate, FinishUpdate, ReadBack, Over, TypeOK
  <2>2. TypeOK'
    BY <1>11, <2>1 DEF FinishCreate, FinishUpdate, ReadBack, TypeOK, written, remote, Create, Update
  <2> QED BY <1>11, <2>2 DEF FinishCreate, FinishUpdate, ReadBack, Presence, Lawful
<1>12. CASE DeleteDone
  BY <1>12, RowType1 DEF DeleteDone, Forgotten, TypeOK, Presence, Lawful, written, Create, Update, Own
<1>13. CASE DeleteMissing
  BY <1>13 DEF DeleteMissing, TypeOK, Presence, Lawful, written, local, remote, Create, Update
<1>14. CASE CreateFails
  <2>1. object' \in [args -> Value]
    BY <1>14, CallEffect DEF CreateFails, TypeOK
  <2>2. TypeOK'
    BY <1>14, <2>1, FailsType DEF CreateFails, TypeOK, written, local, Create, Update, Own
  <2> QED BY <1>14, <2>2 DEF CreateFails, Presence, Lawful, local
<1>15. CASE UpdateFails
  <2>1. object' \in [args -> Value]
    BY <1>15, CallEffect DEF UpdateFails, TypeOK
  <2>2. unsure' \subseteq args
    BY <1>15, WrittenArgs DEF UpdateFails, TypeOK
  <2>3. TypeOK'
    BY <1>15, <2>1, <2>2, FailsType DEF UpdateFails, TypeOK, written, Create, Update
  <2> QED BY <1>15, <2>3 DEF UpdateFails, Presence, Lawful
<1>16. CASE ReadBackFails
  <2>1. unsure' \subseteq args
    BY <1>16, WrittenArgs DEF ReadBackFails, TypeOK
  <2>2. TypeOK'
    BY <1>16, <2>1, FailsType DEF ReadBackFails, TypeOK, written, local, Create, Update
  <2> QED BY <1>16, <2>2 DEF ReadBackFails, Presence, Lawful, local
<1>17. CASE DeleteFails
  <2>1. TypeOK'
    BY <1>17, RowType1, FailsType DEF DeleteFails, Forgotten, TypeOK, written, Create, Update, Own
  <2> QED BY <1>17, <2>1, RowType1 DEF DeleteFails, Forgotten, Presence, Lawful, TypeOK, Create
<1> QED BY <1>1, <1>2, <1>3, <1>4, <1>5, <1>6, <1>7, <1>8, <1>9, <1>10, <1>11, <1>12, <1>13,
           <1>14, <1>15, <1>16, <1>17 DEF Next, Apply, Fault

(* Types, for any rows and any number of failures.                         *)
THEOREM RowsTypeCorrect == Spec => []TypeOK
<1>1. Spec => []ShapeInv
  BY ShapeInit, ShapeNext, PTL DEF Spec
<1>2. ShapeInv => TypeOK
  BY DEF ShapeInv
<1> QED BY <1>1, <1>2, PTL

-----------------------------------------------------------------------------
(* Faithful, of the row and the arguments at hand.                         *)
LEMMA FaithfulRow ==
  ASSUME FaithfulRows, TypeOK, NEW a \in args \ Gap[kind]
  PROVE  /\ \E i \in DOMAIN Create.calls : a \in Create.calls[i]
         /\ pc # "create" /\ a \in Changed /\ a \notin ForceNew /\ a \notin Update.refuses
               => \E i \in Due : a \in Sent(i)
         /\ Update.keeps = "plan" => a \in Read.takes \/ a \in ForceNew
<1>1. Faithful(kind) /\ a \in Kept(kind)
  BY DEF FaithfulRows, TypeOK, Kept
<1>2. \E i \in DOMAIN Create.calls : a \in Create.calls[i]
  BY <1>1 DEF Faithful, Create
<1>3. ASSUME pc # "create", a \in Changed, a \notin ForceNew, a \notin Update.refuses
      PROVE  \E i \in Due : a \in Sent(i)
  <2>1. a \in Kept(kind) \ (Rows[kind].forceNew \union Rows[kind].update.refuses)
    BY <1>1, <1>3 DEF ForceNew, Update
  <2> PICK i \in DOMAIN Update.calls :
        a \in Update.calls[i].on /\ a \in Update.calls[i].sends
    BY <1>1, <2>1 DEF Faithful, Update
  <2>2. i \in Due
    BY <1>3 DEF Due
  <2>3. a \in Sent(i)
    BY <1>3 DEF Sent
  <2> QED BY <2>2, <2>3
<1>4. Update.keeps = "plan" => a \in Read.takes \/ a \in ForceNew
  BY <1>1 DEF Faithful, Update, Read, ForceNew
<1> QED BY <1>2, <1>3, <1>4

(* An argument that an Update is not for has one value everywhere.         *)
LEMMA Unchanged ==
  ASSUME TypeOK, NEW a \in args, a \notin Changed
  PROVE  config[a] = state[a]
  BY DEF Changed

(* At the end of an Update what it promises has arrived.                   *)
LEMMA UpdateArrives ==
  ASSUME FaithfulRows, ApplyInv, pc = "update", todo = {},
         NEW a \in args \ Gap[kind],
         a \notin unsure \/ \E i \in Due : a \in Sent(i)
  PROVE  object[a] = config[a]
<1>1. CASE \E i \in Due : a \in Sent(i)
  BY <1>1 DEF ApplyInv, DataInv, Arrived
<1>2. CASE a \notin unsure /\ a \in Changed
  <2>1. a \notin ForceNew /\ a \notin Update.refuses
    BY <1>2 DEF ApplyInv, ShapeInv, Lawful
  <2>2. \E i \in Due : a \in Sent(i)
    BY <1>2, <2>1, FaithfulRow DEF ApplyInv, ShapeInv
  <2> QED BY <1>1, <2>2
<1>3. CASE a \notin unsure /\ a \notin Changed
  <2>1. a \in Promised
    BY <1>3 DEF Promised
  <2> QED BY <1>3, <2>1, Unchanged DEF ApplyInv, ShapeInv, DataInv, Moving
<1> QED BY <1>1, <1>2, <1>3

(* At the end of a Create everything that it promises has.                 *)
LEMMA CreateArrives ==
  ASSUME FaithfulRows, ApplyInv, pc = "create", todo = {}, NEW a \in args \ Gap[kind]
  PROVE  object[a] = config[a]
<1> PICK i \in DOMAIN Create.calls : a \in Create.calls[i]
  BY FaithfulRow DEF ApplyInv, ShapeInv
<1> QED BY DEF ApplyInv, DataInv, Made

(* Whatever a call of an Update does, an argument that has not changed     *)
(* keeps its value.                                                        *)
LEMMA UpdateKeeps ==
  ASSUME ApplyInv, pc = "update", NEW a \in Promised, a \notin Changed
  PROVE  object[a] = state[a] /\ config[a] = state[a]
  BY Unchanged DEF ApplyInv, ShapeInv, DataInv, Moving, Promised

LEMMA DataInit == Init => DataInv
  BY DEF Init, DataInv, Settled, Moving, Arrived, Made

LEMMA DataNext == FaithfulRows /\ ApplyInv /\ [Next]_vars => DataInv'
<1> SUFFICES ASSUME FaithfulRows, ApplyInv, [Next]_vars PROVE DataInv'
  OBVIOUS
<1>a. TypeOK /\ Presence /\ Lawful /\ Settled /\ Moving /\ Arrived /\ Made
  BY DEF ApplyInv, ShapeInv, DataInv
<1> DEFINE Away == pc' # "create" /\ pc' # "update"
<1>b. Away => (Moving /\ Arrived /\ Made)'
  BY DEF Moving, Arrived, Made
<1>c. Away /\ status' # "known" => DataInv'
  BY <1>b DEF DataInv, Settled
<1> HIDE DEF Away
<1>1. CASE UNCHANGED vars
  <2>1. /\ UNCHANGED <<kind, args, config, status, state, object, unsure, pc, todo>>
    BY <1>1 DEF vars
  <2>2. UNCHANGED <<Create, Read, Update, Due, Promised>> /\ \A i : Sent(i)' = Sent(i)
    BY <2>1 DEF Create, Read, Update, Due, Promised, Sent, Changed
  <2> QED BY <1>a, <2>1, <2>2 DEF DataInv, Settled, Moving, Arrived, Made
<1>2. CASE Edit \/ Vanish \/ NothingToDo \/ StartDelete \/ DeleteMissing
  <2>1. UNCHANGED <<kind, args, status, state, object, unsure>> /\ Away
    BY <1>2 DEF Edit, Vanish, NothingToDo, StartDelete, DeleteMissing, local, remote, Away
  <2>2. UNCHANGED <<Read, Promised>>
    BY <2>1 DEF Read, Promised
  <2>3. pc' # "fresh" /\ pc \in {"idle", "fresh", "delete"}
    BY <1>2 DEF Edit, Vanish, NothingToDo, StartDelete, DeleteMissing
  <2>4. Settled'
    BY <1>a, <2>1, <2>2, <2>3 DEF Settled
  <2> QED BY <1>b, <2>1, <2>4 DEF DataInv
<1>3. CASE Refresh
  <2>1. UNCHANGED <<kind, args, object>> /\ pc = "idle" /\ Away
    BY <1>3 DEF Refresh, remote, Away
  <2>2. CASE status' # "known"
    BY <1>c, <2>1, <2>2
  <2>3. CASE status' = "known"
    <3>1. state' = Over(state, object, Read.takes) /\ unsure' = unsure \ Read.takes
          /\ status = "known"
      BY <1>3, <2>3 DEF Refresh, local
    <3>2. ASSUME NEW a \in Promised' PROVE object'[a] = state'[a]
      <4>1. a \in args /\ (a \in Promised \/ a \in Read.takes)
        BY <2>1, <3>1, <3>2 DEF Promised
      <4> QED BY <1>a, <2>1, <3>1, <4>1 DEF Over, Settled
    <3> QED BY <1>b, <2>1, <3>2 DEF DataInv, Settled
  <2> QED BY <2>2, <2>3
<1>4. CASE StartCreate
  <2>1. status' = "absent" /\ pc' = "create" /\ Create' = Create /\ todo' = DOMAIN Create.calls
    BY <1>4 DEF StartCreate, local, Create
  <2> QED BY <2>1 DEF DataInv, Settled, Moving, Arrived, Made
<1>5. CASE StartUpdate
  <2>1. /\ UNCHANGED <<kind, args, config, status, state, object, unsure>>
        /\ pc = "fresh" /\ pc' = "update" /\ todo' = Due /\ status = "known"
    BY <1>5 DEF StartUpdate, written, local, remote
  <2>2. UNCHANGED <<Due, Promised>>
    BY <2>1 DEF Due, Promised, Changed, Update
  <2> QED BY <1>a, <2>1, <2>2 DEF DataInv, Settled, Moving, Arrived, Made
<1>6. CASE UpdateRefused
  <2>1. /\ UNCHANGED <<kind, args, config, status, object, unsure>> /\ Away
        /\ pc = "fresh" /\ pc' = "idle" /\ status = "known"
        /\ Changed \intersect ForceNew = {}
        /\ state' = IF Update.keeps = "plan" THEN config ELSE state
    BY <1>6 DEF UpdateRefused, written, remote, Replaces, Away
  <2>2. UNCHANGED <<Read, Promised>>
    BY <2>1 DEF Read, Promised
  <2>3. ASSUME NEW a \in Promised \ Read.takes PROVE object[a] = state'[a]
    <3>1. a \in args \ Gap[kind] /\ object[a] = state[a]
      BY <1>a, <2>1, <2>3 DEF Promised, Settled
    <3>2. CASE Update.keeps = "plan"
      <4>1. a \notin Changed
        BY <1>a, <2>1, <2>3, <3>1, <3>2, FaithfulRow
      <4> QED BY <1>a, <2>1, <3>1, <3>2, <4>1, Unchanged
    <3> QED BY <2>1, <3>1, <3>2
  <2> QED BY <1>b, <2>1, <2>2, <2>3 DEF DataInv, Settled
<1>7. CASE CallDone
  <2> PICK i \in todo : IsNext(i) /\ object' \in Results(i) /\ todo' = todo \ {i}
    BY <1>7 DEF CallDone
  <2>1. UNCHANGED <<kind, args, config, status, state, unsure, pc>>
    BY <1>7 DEF CallDone, written, local
  <2>2. UNCHANGED <<Create, Due, Promised>> /\ \A j : Sent(j)' = Sent(j)
    BY <2>1 DEF Create, Update, Due, Promised, Sent, Changed
  <2>3. \A a \in Sent(i) \intersect args : object'[a] = config[a]
    BY <1>a, CallEffect
  <2>4. pc = "create" \/ pc = "update"
    BY <1>a DEF TypeOK
  <2>5. CASE pc = "create"
    <3>1. ASSUME NEW j \in DOMAIN Create.calls \ todo', NEW a \in Create.calls[j] \intersect args
          PROVE  object'[a] = config[a]
      <4>1. CASE a \in Sent(i)
        BY <2>3, <4>1
      <4>2. CASE a \notin Sent(i)
        <5>1. j \notin todo
          BY <2>5, <4>2, <3>1 DEF Sent
        <5>2. i # 1
          BY <1>a, <2>5, <5>1 DEF Presence
        <5> QED BY <1>a, <2>5, <4>2, <5>1, <5>2, CallEffect DEF Made
      <4> QED BY <4>1, <4>2
    <3>2. status' # "known" /\ pc' = "create"
      BY <1>a, <2>1, <2>5 DEF Presence
    <3> QED BY <2>1, <2>2, <3>1, <3>2 DEF DataInv, Settled, Moving, Arrived, Made
  <2>6. CASE pc = "update"
    <3>1. \A a \in args \ Sent(i) : object'[a] = object[a]
      BY <1>a, <2>6, CallEffect
    <3>2. i \in Due \ todo' /\ Due \ todo' = (Due \ todo) \union {i}
      BY <1>a, <2>6 DEF Lawful
    <3>3. ASSUME NEW j \in Due \ todo', NEW a \in Sent(j) \intersect args
          PROVE  object'[a] = config[a]
      BY <1>a, <2>3, <2>6, <3>1, <3>2 DEF Arrived
    <3>4. ASSUME NEW a \in Promised
          PROVE  \/ object'[a] = state[a]
                 \/ object'[a] = config[a] /\ \E j \in Due \ todo' : a \in Sent(j)
      <4>1. a \in args
        BY DEF Promised
      <4>2. CASE a \in Sent(i)
        BY <2>3, <3>2, <4>1, <4>2
      <4>3. CASE a \notin Sent(i)
        <5>1. object'[a] = object[a]
          BY <3>1, <4>1, <4>3
        <5>2. CASE object[a] = state[a]
          BY <5>1, <5>2
        <5>3. CASE object[a] # state[a]
          <6>1. object[a] = config[a] /\ \E j \in Due \ todo : a \in Sent(j)
            BY <1>a, <2>6, <3>4, <5>3 DEF Moving
          <6> QED BY <3>2, <5>1, <6>1
        <5> QED BY <5>2, <5>3
      <4> QED BY <4>2, <4>3
    <3>5. pc' = "update"
      BY <2>1, <2>6
    <3> QED BY <2>1, <2>2, <3>3, <3>4, <3>5 DEF DataInv, Settled, Moving, Arrived, Made
  <2> QED BY <2>4, <2>5, <2>6
<1>8. CASE FinishCreate \/ FinishUpdate
  <2>1. /\ UNCHANGED <<kind, args, config, object>> /\ pc' = "idle" /\ Away /\ todo = {}
        /\ state' = Over(config, object, Read.takes)
    BY <1>8 DEF FinishCreate, FinishUpdate, ReadBack, written, remote, Away
  <2>2. ASSUME NEW a \in (Promised \ Read.takes)' PROVE object'[a] = state'[a]
    <3>1. a \in args \ Gap[kind] /\ a \notin unsure' /\ a \notin Read.takes
      BY <2>1, <2>2 DEF Promised, Read
    <3>2. object[a] = config[a]
      <4>1. CASE FinishCreate
        BY <2>1, <3>1, <4>1, CreateArrives DEF FinishCreate
      <4>2. CASE FinishUpdate
        <5>1. unsure' = unsure \ UNION {Sent(i) : i \in Due}
          BY <4>2 DEF FinishUpdate, ReadBack
        <5>2. a \notin unsure \/ \E i \in Due : a \in Sent(i)
          BY <3>1, <5>1
        <5> QED BY <2>1, <3>1, <4>2, <5>2, UpdateArrives DEF FinishUpdate
      <4> QED BY <1>8, <4>1, <4>2
    <3> QED BY <2>1, <3>1, <3>2 DEF Over
  <2> QED BY <1>b, <2>1, <2>2 DEF DataInv, Settled
<1>9. CASE CreateFails
  <2>1. status' # "known" /\ Away
    BY <1>9, <1>a DEF CreateFails, Presence, local, Away
  <2> QED BY <1>c, <2>1
<1>10. CASE UpdateFails
  <2> PICK i \in todo, took \in BOOLEAN :
        /\ IF took THEN object' \in Results(i) ELSE UNCHANGED object
        /\ unsure' = unsure \union Written((Due \ todo) \union IF took THEN {i} ELSE {})
    BY <1>10 DEF UpdateFails
  <2> DEFINE W == (Due \ todo) \union IF took THEN {i} ELSE {}
  <2>1. /\ UNCHANGED <<kind, args, config>> /\ Away /\ pc = "update" /\ pc' = "idle"
        /\ state' = IF Update.keeps = "plan" THEN config ELSE state
        /\ unsure' = unsure \union Written(W)
    BY <1>10 DEF UpdateFails, written, Away
  <2>2. ASSUME NEW a \in (Promised \ Read.takes)' PROVE object'[a] = state'[a]
    <3>1. /\ a \in args \ Gap[kind] /\ a \in Promised /\ a \notin Written(W)
          /\ a \notin Read.takes
      BY <2>1, <2>2 DEF Promised, Read
    <3>2. took => (a \in Sent(i) /\ object'[a] = config[a]) \/ object'[a] = object[a]
      BY <1>a, <2>1, <3>1, CallEffect
    <3>3. CASE a \notin Changed
      BY <1>a, <2>1, <3>1, <3>2, <3>3, UpdateKeeps
    <3>4. CASE a \in Changed
      <4>1. a \notin ForceNew /\ Update.keeps # "plan"
        BY <1>a, <2>1, <3>1, <3>4, FaithfulRow DEF Lawful
      <4>2. \A j \in W : a \notin Sent(j)
        BY <3>1, <3>4, WrittenArgs
      <4>3. object[a] = state[a]
        BY <1>a, <2>1, <3>1, <4>2 DEF Moving
      <4> QED BY <2>1, <3>2, <4>1, <4>2, <4>3
    <3> QED BY <3>3, <3>4
  <2> QED BY <1>b, <2>1, <2>2 DEF DataInv, Settled
<1>11. CASE ReadBackFails
  <2>1. CASE status' # "known"
    BY <1>11, <1>c, <2>1 DEF ReadBackFails, Away
  <2>2. CASE status' = "known"
    <3>1. pc = "update"
      BY <1>11, <1>a, <2>2 DEF ReadBackFails, Presence, local
    <3>2. /\ UNCHANGED <<kind, args, config, object>> /\ Away /\ pc' = "idle" /\ todo = {}
          /\ state' \in {state, config} /\ unsure' = unsure \union Written(Due)
      BY <1>11, <3>1 DEF ReadBackFails, written, Away
    <3>3. ASSUME NEW a \in (Promised \ Read.takes)' PROVE object'[a] = state'[a]
      <4>1. a \in args \ Gap[kind] /\ a \in Promised /\ a \notin Written(Due)
        BY <3>2, <3>3 DEF Promised
      <4>2. a \notin Changed
        <5> SUFFICES ASSUME a \in Changed PROVE FALSE
          OBVIOUS
        <5>1. a \notin ForceNew /\ a \notin Update.refuses
          BY <1>a, <3>1 DEF Lawful
        <5>2. \E j \in Due : a \in Sent(j)
          BY <1>a, <3>1, <4>1, <5>1, FaithfulRow
        <5> QED BY <4>1, <5>2, WrittenArgs
      <4>3. object[a] = state[a] /\ config[a] = state[a]
        BY <3>1, <4>1, <4>2, UpdateKeeps
      <4> QED BY <3>2, <4>3
    <3> QED BY <1>b, <3>2, <3>3 DEF DataInv, Settled
  <2> QED BY <2>1, <2>2
<1>12. CASE DeleteDone \/ DeleteFails
  <2>1. CASE Forgotten(exists) \/ Forgotten(exists /\ Delete = Forgetful)
    <3>1. status' = "absent" /\ kind' = kind
      BY <1>12, <2>1 DEF DeleteDone, DeleteFails, Forgotten
    <3>2. \/ pc' = "create" /\ todo' = DOMAIN Create.calls
          \/ pc' = "idle"
      BY <2>1 DEF Forgotten
    <3>3. Create' = Create
      BY <3>1 DEF Create
    <3> QED BY <3>1, <3>2, <3>3 DEF DataInv, Settled, Moving, Arrived, Made
  <2>2. CASE UNCHANGED <<kind, args, status, state, object, unsure>> /\ pc = "delete" /\ pc' = "idle"
    <3>1. UNCHANGED <<Read, Promised>> /\ Away
      BY <2>2 DEF Read, Promised, Away
    <3> QED BY <1>a, <1>b, <2>2, <3>1 DEF DataInv, Settled
  <2> QED BY <1>12, <2>1, <2>2 DEF DeleteDone, DeleteFails
<1> QED BY <1>1, <1>2, <1>3, <1>4, <1>5, <1>6, <1>7, <1>8, <1>9, <1>10, <1>11, <1>12
    DEF Next, Apply, Fault

-----------------------------------------------------------------------------
(* The invariant, for rows that are Faithful.                              *)
LEMMA ApplyInvariant == ASSUME FaithfulRows PROVE Spec => []ApplyInv
<1>1. Init => ApplyInv
  BY ShapeInit, DataInit DEF ApplyInv
<1>2. ApplyInv /\ [Next]_vars => ApplyInv'
  BY ShapeNext, DataNext DEF ApplyInv
<1> QED BY <1>1, <1>2, PTL DEF Spec

(* A plan of a Faithful row that shows nothing to do: the object is there  *)
(* and is as configured, whatever handler failed before, and however.      *)
THEOREM NoDiffHidden == ASSUME FaithfulRows PROVE Spec => []NoDiffMeansApplied
<1>1. ApplyInv => NoDiffMeansApplied
  <2> SUFFICES ASSUME ApplyInv, pc = "fresh", ~Diff PROVE AsConfigured
    BY DEF NoDiffMeansApplied
  <2>1. status = "known" /\ Changed = {} /\ exists
    BY DEF Diff, ApplyInv, ShapeInv, Presence
  <2>2. ASSUME NEW a \in Promised PROVE object[a] = config[a]
    BY <2>1, Unchanged DEF ApplyInv, ShapeInv, DataInv, Settled, Promised
  <2> QED BY <2>1, <2>2 DEF AsConfigured
<1> QED BY <1>1, ApplyInvariant, PTL

(* A Create or Update of a Faithful row that returns no error has brought  *)
(* the object to what is configured.                                       *)
THEOREM SuccessTrue == ASSUME FaithfulRows PROVE Spec => SuccessApplies
<1>1. ApplyInv /\ [Next]_vars => [Succeeds => AsConfigured']_vars
  <2> SUFFICES ASSUME ApplyInv, Next, Succeeds PROVE AsConfigured'
    OBVIOUS
  <2>1. TypeOK /\ Presence
    BY DEF ApplyInv, ShapeInv
  <2>2. FinishCreate \/ FinishUpdate
    <3>1. ~(CreateFails \/ UpdateFails \/ ReadBackFails \/ DeleteFails \/ Vanish)
      BY <2>1, FailsType DEF Succeeds, CreateFails, UpdateFails, ReadBackFails, DeleteFails, Vanish
    <3> QED BY <3>1 DEF Next, Apply, Fault, Succeeds, Edit, Refresh, NothingToDo, StartCreate,
              StartDelete, StartUpdate, UpdateRefused, CallDone, DeleteDone, DeleteMissing
  <2>3. UNCHANGED <<kind, args, config, object, exists>> /\ todo = {}
    BY <2>2 DEF FinishCreate, FinishUpdate, ReadBack, written, remote
  <2>4. exists'
    BY <2>1, <2>2, <2>3 DEF FinishCreate, FinishUpdate, Presence
  <2>5. ASSUME NEW a \in Promised' PROVE object'[a] = config'[a]
    <3>1. a \in args \ Gap[kind] /\ a \notin unsure'
      BY <2>3, <2>5 DEF Promised
    <3>2. CASE FinishCreate
      BY <2>3, <3>1, <3>2, CreateArrives DEF FinishCreate
    <3>3. CASE FinishUpdate
      <4>1. unsure' = unsure \ UNION {Sent(i) : i \in Due}
        BY <3>3 DEF FinishUpdate, ReadBack
      <4>2. a \notin unsure \/ \E i \in Due : a \in Sent(i)
        BY <3>1, <4>1
      <4> QED BY <2>3, <3>1, <3>3, <4>2, UpdateArrives DEF FinishUpdate
    <3> QED BY <2>2, <3>2, <3>3
  <2> QED BY <2>4, <2>5 DEF AsConfigured
<1> QED BY <1>1, ApplyInvariant, PTL DEF Spec, SuccessApplies

(* No step turns a resource into another one.                              *)
LEMMA KindStays == [Next]_vars => kind' = kind
<1> SUFFICES ASSUME [Next]_vars PROVE kind' = kind
  OBVIOUS
<1>1. CASE UNCHANGED vars \/ Edit \/ Vanish
  BY <1>1 DEF vars, Edit, Vanish
<1>2. CASE Refresh \/ NothingToDo \/ StartCreate \/ StartDelete \/ StartUpdate \/ UpdateRefused
  BY <1>2 DEF Refresh, NothingToDo, StartCreate, StartDelete, StartUpdate, UpdateRefused
<1>3. CASE CallDone \/ FinishCreate \/ FinishUpdate
  BY <1>3 DEF CallDone, FinishCreate, FinishUpdate, ReadBack
<1>4. CASE DeleteDone \/ DeleteMissing \/ DeleteFails
  BY <1>4 DEF DeleteDone, DeleteMissing, DeleteFails
<1>5. CASE CreateFails \/ UpdateFails \/ ReadBackFails
  BY <1>5 DEF CreateFails, UpdateFails, ReadBackFails
<1> QED BY <1>1, <1>2, <1>3, <1>4, <1>5 DEF Next, Apply, Fault

(* Rows whose Create names the object before it waits for it, and whose    *)
(* Delete insists, never lose an object that they have made.               *)
THEOREM NothingLost == ASSUME CarefulRows PROVE Spec => []NothingOrphaned
<1>1. Init => NothingOrphaned
  BY DEF Init, NothingOrphaned
<1>2. ShapeInv /\ NothingOrphaned /\ [Next]_vars => NothingOrphaned'
  <2> SUFFICES ASSUME ShapeInv, NothingOrphaned, [Next]_vars, kind \notin Orphans
               PROVE  ~orphaned'
    BY KindStays DEF NothingOrphaned
  <2>1. ~orphaned /\ TypeOK /\ Presence
    BY DEF NothingOrphaned, ShapeInv
  <2>2. Careful(kind)
    BY <2>1 DEF CarefulRows, TypeOK
  <2>3. ~Own \/ (Create.id = "accepted" /\ Delete \in {Tolerant, Exacting})
    BY <2>2 DEF Careful, Own, Create, Delete
  <2>4. CASE CreateFails
    <3>1. \A i \in todo, took \in BOOLEAN :
             Loses(i, took) /\ Create.id = "accepted" => ~(exists \/ took)
      BY <2>1, <2>4 DEF CreateFails, Loses, Keeps, Presence
    <3> QED BY <2>1, <2>3, <2>4, <3>1 DEF CreateFails
  <2>5. CASE ReadBackFails
    <3>1. Create.id # "saved"
      BY <2>2 DEF Careful, Create
    <3> QED BY <2>1, <2>5, <3>1 DEF ReadBackFails
  <2>6. CASE DeleteDone
    BY <2>1, <2>3, <2>6 DEF DeleteDone, Forgotten, Tolerant, Exacting, Forgetful
  <2>7. CASE DeleteFails
    BY <2>1, <2>3, <2>7 DEF DeleteFails, Forgotten, Tolerant, Exacting, Careless
  <2>8. CASE orphaned' = orphaned
    BY <2>1, <2>8
  <2>9. CASE ~(CreateFails \/ ReadBackFails \/ DeleteDone \/ DeleteFails)
    BY <2>8, <2>9 DEF vars, Next, Apply, Fault, Edit, Vanish, Refresh, NothingToDo, StartCreate,
       StartDelete, StartUpdate, UpdateRefused, CallDone, FinishCreate, FinishUpdate, ReadBack,
       DeleteMissing, UpdateFails, remote
  <2> QED BY <2>4, <2>5, <2>6, <2>7, <2>9
<1>3. Init => ShapeInv
  BY ShapeInit
<1>4. ShapeInv /\ [Next]_vars => ShapeInv'
  BY ShapeNext
<1> QED BY <1>1, <1>2, <1>3, <1>4, PTL DEF Spec
=============================================================================
