--------------------------- MODULE MCServingLifecycle ---------------------------
(* Small instances of ServingLifecycle for TLC. *)
EXTENDS ServingLifecycle, TLC

Symmetry == Permutations(Server) \cup Permutations(Caller)

(* A base model, with or without an explicit adapter.  With one adapter, a *)
(* model path that is the adapter's directory comes to the same.           *)
OneOrNone == {[model |-> Base, adapter |-> path] : path \in Path}

(* An adapter directory as the model, and an explicit adapter beside it.   *)
ModelIsAdapter == {[model |-> m, adapter |-> a] : m \in Adapter, a \in Path}
=============================================================================
