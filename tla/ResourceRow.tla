----------------------------- MODULE ResourceRow -----------------------------
(***************************************************************************)
(* What the handlers of one resource do, as a record: which arguments      *)
(* there are, what each API call of Create and Update sends, in the order  *)
(* of the calls, what Read takes over, and what is left in the state when  *)
(* a handler returns an error.                                             *)
(***************************************************************************)
EXTENDS Naturals, Sequences

(* The arguments of the schema that the object at the server carries:      *)
(* those that replace the object when they change, and the others.         *)
Arguments(forceNew, inPlace) == [forceNew |-> forceNew, inPlace |-> inPlace]
(* Arguments of a nested block, named by their path.                       *)
Under(block, S) == {block \o "." \o a : a \in S}

All(arguments) == arguments.forceNew \union arguments.inPlace

(* A call that is made if one of the arguments on has changed.  It sends   *)
(* the changed ones only (an update mask built from HasChange), or all.    *)
PatchOn(S, T) == [on |-> S, sends |-> T, whole |-> FALSE]
Patch(S) == PatchOn(S, S)
PutOn(S, T) == [on |-> S, sends |-> T, whole |-> TRUE]
Put(S) == PutOn(S, S)

(* Create knows the id of the object once the API has accepted the request *)
(* (from the metadata of the operation), once the first call is done, when *)
(* it saves the state at its end, or beforehand (the object is no own one, *)
(* Create takes it over or makes it under a name of the configuration).    *)
Creates(id, calls) == [id |-> id, calls |-> calls]
Accepted(S) == Creates("accepted", <<S>>)
Done(S) == Creates("done", <<S>>)
Adopted(S) == Creates("adopted", <<S>>)

(* Read takes these arguments from the object; an object that the API does *)
(* not find it takes off the state, or it is an error.                     *)
Reads(S) == [takes |-> S, gone |-> TRUE]
ReadsExisting(S) == [takes |-> S, gone |-> FALSE]

(* Update leaves in the state, when it fails, the planned values (the SDK),*)
(* the prior ones up to d.Partial(false) (the SDK after d.Partial(true)),  *)
(* or the prior ones (the framework).  Strict: without a call to make it   *)
(* fails ("No fields were updated").  It refuses a change of some          *)
(* arguments before the first call.                                        *)
Updates(keeps, calls) ==
    [keeps |-> keeps, calls |-> calls, strict |-> FALSE, refuses |-> {}]
Planned(calls) == Updates("plan", calls)
Partial(calls) == Updates("partial", calls)
Prior(calls) == Updates("prior", calls)
Strict(update) == [update EXCEPT !.strict = TRUE]
Refusing(S, update) == [update EXCEPT !.refuses = S]
NoUpdate == Planned(<< >>)

(* Delete takes a missing object for deleted, or fails on it; or it leaves *)
(* the object alone and only the state forgets it; or it fails on a        *)
(* missing object, but takes an operation that failed for success.         *)
Tolerant == "tolerant"
Exacting == "exacting"
Forgetful == "forgetful"
Careless == "careless"

Resource(arguments, create, read, update, delete) ==
    [forceNew |-> arguments.forceNew, args |-> All(arguments),
     create |-> create, read |-> read, update |-> update, delete |-> delete]
=============================================================================
