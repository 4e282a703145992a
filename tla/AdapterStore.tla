------------------------------ MODULE AdapterStore ------------------------------
(***************************************************************************)
(* What the adapter lifecycle promises to the rest of KubeMetal, with no   *)
(* files, records or locks: a training attempt is sealed once its output   *)
(* has been verified, a sealed attempt takes a free adapter name in one    *)
(* step, and an attempt that was rejected never takes one.  AdapterStaging *)
(* is shown to implement this.                                             *)
(***************************************************************************)
CONSTANTS Attempt,   \* every training attempt
          Name,      \* adapter names
          NoOne,     \* a free name
          Foreign    \* a directory KubeMetal did not promote

VARIABLES owner,     \* who holds each adapter name
          verdict    \* what became of each attempt

storeVars == <<owner, verdict>>

Verdict == {"open", "sealed", "published", "rejected"}

StoreTypeOK ==
  /\ owner \in [Name -> Attempt \cup {NoOne, Foreign}]
  /\ verdict \in [Attempt -> Verdict]

StoreInit ==
  /\ owner = [n \in Name |-> NoOne]
  /\ verdict = [a \in Attempt |-> "open"]

(* The output of an attempt was verified. *)
Seal(a) ==
  /\ verdict[a] = "open"
  /\ verdict' = [verdict EXCEPT ![a] = "sealed"]
  /\ UNCHANGED owner

(* Publication: the name was free and is taken in the same step. *)
Publish(a, n) ==
  /\ verdict[a] = "sealed"
  /\ owner[n] = NoOne
  /\ owner' = [owner EXCEPT ![n] = a]
  /\ verdict' = [verdict EXCEPT ![a] = "published"]

(* The attempt failed, was killed, or lost its name to somebody else. *)
Reject(a) ==
  /\ verdict[a] \in {"open", "sealed"}
  /\ verdict' = [verdict EXCEPT ![a] = "rejected"]
  /\ UNCHANGED owner

(* The user deletes an adapter. *)
Vacate(n) ==
  /\ owner[n] # NoOne
  /\ owner' = [owner EXCEPT ![n] = NoOne]
  /\ UNCHANGED verdict

(* Somebody else puts a directory under a free name. *)
Occupy(n) ==
  /\ owner[n] = NoOne
  /\ owner' = [owner EXCEPT ![n] = Foreign]
  /\ UNCHANGED verdict

StoreNext ==
  \/ \E a \in Attempt : Seal(a) \/ Reject(a)
  \/ \E a \in Attempt, n \in Name : Publish(a, n)
  \/ \E n \in Name : Vacate(n) \/ Occupy(n)

StoreSpec == StoreInit /\ [][StoreNext]_storeVars

(* An adapter held by an attempt was published by it; an attempt holds one name. *)
OnlyPublishedHoldNames ==
  \A n \in Name : owner[n] \in Attempt =>
    /\ verdict[owner[n]] = "published"
    /\ \A m \in Name : owner[m] = owner[n] => m = n
=============================================================================
