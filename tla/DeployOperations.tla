----------------------------- MODULE DeployOperations -----------------------------
(***************************************************************************)
(* services/deploy_operation.rs and services/lifecycle_guard.rs, with the  *)
(* commands that use them: provision_mlops_stack and install_kagent change *)
(* a cluster after a confirmation, one at a time per target, and answer a  *)
(* repeated request from memory; start_cluster and stop_cluster share one  *)
(* token.                                                                  *)
(***************************************************************************)
EXTENDS Naturals

CONSTANTS Call,     \* deploy commands, each one IPC call
          Id,       \* operation ids
          Target,   \* deploy targets: (context, namespace)
          Colima,   \* the target on the local virtual machine
          Args,     \* render arguments of a saved target
          Life,     \* start_cluster and stop_cluster calls
          None      \* no operation id, no arguments

ASSUME ColimaIsATarget == Colima \in Target
ASSUME NoneIsNothing == None \notin Id \cup Args

VARIABLES
  saved,     \* deploy-target.json
  call,      \* each deploy command: what was confirmed, what it does, where it stands
  inFlight,  \* DeployState.in_flight
  activeIds, \* DeployState.active_ids
  completed, \* DeployState.completed, each entry fresh or past its five minutes
  token,     \* IN_FLIGHT_OPERATION
  lpc,       \* what each lifecycle command is doing
  vm,        \* the virtual machine is up
  done,      \* history: requests that were completed, with their id
  runs       \* history: how often an id changed a cluster to the end since it was forgotten

vars == <<saved, call, inFlight, activeIds, completed, token, lpc, vm, done, runs>>

Action == {"provision", "install"}
Setting == [target : Target, args : Args]
Request == [action : Action, target : Target, args : Args \cup {None}]
NoRequest == [action |-> "provision", target |-> Colima, args |-> None]
Entry == [id : Id, request : Request, fresh : BOOLEAN]
Phase == {"idle", "confirmed", "working", "changed", "done", "cached", "failed"}

TypeOK ==
  /\ saved \in Setting
  /\ call \in [Call -> [phase : Phase, action : Action, shown : Target, picked : BOOLEAN,
                        id : Id \cup {None}, request : Request]]
  /\ inFlight \subseteq Target
  /\ activeIds \subseteq Id
  /\ completed \subseteq Entry
  /\ token \in {"idle", "start", "stop"}
  /\ lpc \in [Life -> {"idle", "start", "stop"}]
  /\ vm \in BOOLEAN
  /\ done \subseteq [id : Id, request : Request]
  /\ runs \in [Id -> Nat]

Init ==
  /\ saved \in Setting
  /\ call = [c \in Call |-> [phase |-> "idle", action |-> "provision", shown |-> Colima,
                             picked |-> FALSE, id |-> None, request |-> NoRequest]]
  /\ inFlight = {} /\ activeIds = {} /\ completed = {}
  /\ token = "idle"
  /\ lpc = [l \in Life |-> "idle"]
  /\ vm \in BOOLEAN
  /\ done = {}
  /\ runs = [i \in Id |-> 0]

guarded == <<inFlight, activeIds, completed>>
lifecycle == <<token, lpc, vm>>
history == <<done, runs>>

move(c, phase) == call' = [call EXCEPT ![c].phase = phase]
----------------------------------------------------------------------------
(* save_deploy_target *)
SaveTarget(setting) ==
  /\ saved' = setting
  /\ UNCHANGED <<call, guarded, lifecycle, history>>

(* describe_deploy_operation and the dialog: the target shown is the saved *)
(* one, or for kagent the context picked in the panel.                     *)
Confirm(c, action, id, picked, target) ==
  /\ call[c].phase = "idle"
  /\ picked => action = "install"
  /\ ~picked => target = saved.target
  /\ call' = [call EXCEPT ![c] = [phase |-> "confirmed", action |-> action, shown |-> target,
                                  picked |-> picked, id |-> id, request |-> NoRequest]]
  /\ UNCHANGED <<saved, guarded, lifecycle, history>>

(* The request as the command resolves it now. *)
Resolved(c) ==
  [action |-> call[c].action,
   target |-> IF call[c].picked THEN call[c].shown ELSE saved.target,
   args   |-> IF call[c].action = "provision" THEN saved.args ELSE None]

(* Mutant of Confirmed: the saved target is taken as it is now. *)
ConfirmedAnyway(c) == TRUE

(* ensure_confirmed_target *)
Confirmed(c) == Resolved(c).target = call[c].shown

(* The completed entry that answers this very request. *)
Remembered(c, entries) == {e \in entries : e.id = call[c].id /\ e.request = Resolved(c)}

(* Mutant of Busy: only the id is looked at. *)
BusyById(c) == call[c].id \in activeIds

Busy(c) == call[c].id \in activeIds \/ Resolved(c).target \in inFlight

TakenIds(c) == {call[c].id} \ {None}

(* The command up to acquire_deploy_guard: confirmation (provisioning may  *)
(* be refused as well, by full_stack_gate or render_args), expiry of old   *)
(* results, then a cached answer, a refusal or the guard, under one lock.  *)
Begin(c) ==
  LET kept == {e \in completed : e.fresh}
      used == \E e \in kept : e.id = call[c].id
  IN
  /\ call[c].phase = "confirmed"
  /\ \/ /\ ~Confirmed(c) \/ call[c].action = "provision"
        /\ move(c, "failed")
        /\ UNCHANGED <<guarded, history>>
     \/ /\ Confirmed(c)
        /\ completed' = kept
        /\ runs' = [i \in Id |-> IF \E e \in completed : e.id = i /\ ~e.fresh THEN 0 ELSE runs[i]]
        /\ UNCHANGED done
        /\ \/ /\ call[c].id \notin activeIds /\ Remembered(c, kept) # {}
              /\ call' = [call EXCEPT ![c].phase = "cached", ![c].request = Resolved(c)]
              /\ UNCHANGED <<inFlight, activeIds>>
           \/ /\ Busy(c) \/ used
              /\ call[c].id \in activeIds \/ Remembered(c, kept) = {}
              /\ move(c, "failed")
              /\ UNCHANGED <<inFlight, activeIds>>
           \/ /\ ~Busy(c) /\ ~used
              /\ call' = [call EXCEPT ![c].phase = "working", ![c].request = Resolved(c)]
              /\ inFlight' = inFlight \cup {Resolved(c).target}
              /\ activeIds' = activeIds \cup TakenIds(c)
  /\ UNCHANGED <<saved, lifecycle>>

(* Five minutes have passed since the operation ended. *)
Age(e) ==
  /\ e \in completed /\ e.fresh
  /\ completed' = (completed \ {e}) \cup {[e EXCEPT !.fresh = FALSE]}
  /\ UNCHANGED <<saved, call, inFlight, activeIds, lifecycle, history>>

(* The first kubectl or helm call that changes the cluster. *)
Change(c) ==
  /\ call[c].phase = "working"
  /\ call[c].request.target = Colima => vm
  /\ move(c, "changed")
  /\ UNCHANGED <<saved, guarded, lifecycle, history>>

(* Mutant of Release: an error leaves the target taken. *)
ReleaseIds(c) ==
  /\ inFlight' = inFlight
  /\ activeIds' = activeIds \ {call[c].id}

(* Drop of the guard. *)
Release(c) ==
  /\ inFlight' = inFlight \ {call[c].request.target}
  /\ activeIds' = activeIds \ {call[c].id}

(* Any step failed, before or after the cluster was changed: no result is  *)
(* kept.                                                                   *)
Fail(c) ==
  /\ call[c].phase \in {"working", "changed"}
  /\ move(c, "failed")
  /\ Release(c)
  /\ UNCHANGED <<saved, completed, lifecycle, history>>

(* Mutant of Remember: the guard is dropped without its result. *)
RememberNothing(c) == {}

(* What complete leaves for Drop to insert. *)
Remember(c) ==
  IF call[c].id = None THEN {}
  ELSE {[id |-> call[c].id, request |-> call[c].request, fresh |-> TRUE]}

(* All steps succeeded: complete, then Drop under one lock.                *)
Complete(c) ==
  LET id == call[c].id IN
  /\ call[c].phase = "changed"
  /\ call[c].request.target = Colima => vm
  /\ move(c, "done")
  /\ Release(c)
  /\ completed' = {e \in completed : e.id # id} \cup Remember(c)
  /\ done' = IF id = None THEN done ELSE done \cup {[id |-> id, request |-> call[c].request]}
  /\ runs' = IF id = None THEN runs ELSE [runs EXCEPT ![id] = @ + 1]
  /\ UNCHANGED <<saved, lifecycle>>
----------------------------------------------------------------------------
(* start_cluster and stop_cluster: compare-and-swap of the token. *)
AcquireToken(l, op) ==
  /\ lpc[l] = "idle"
  /\ token = "idle"
  /\ token' = op
  /\ lpc' = [lpc EXCEPT ![l] = op]
  /\ UNCHANGED <<saved, call, guarded, vm, history>>

(* colima ended, well or not; the guard is dropped. *)
LifecycleEnds(l) ==
  /\ lpc[l] # "idle"
  /\ vm' \in {vm, lpc[l] = "start"}
  /\ token' = "idle"
  /\ lpc' = [lpc EXCEPT ![l] = "idle"]
  /\ UNCHANGED <<saved, call, guarded, history>>
----------------------------------------------------------------------------
Work(c) == Change(c) \/ Fail(c) \/ Complete(c)

Next ==
  \/ \E setting \in Setting : SaveTarget(setting)
  \/ \E c \in Call, action \in Action, id \in Id \cup {None}, picked \in BOOLEAN, target \in Target :
       Confirm(c, action, id, picked, target)
  \/ \E c \in Call : Begin(c) \/ Work(c)
  \/ \E e \in completed : Age(e)
  \/ \E l \in Life, op \in {"start", "stop"} : AcquireToken(l, op)
  \/ \E l \in Life : LifecycleEnds(l)

Spec == Init /\ [][Next]_vars

(* kubectl, helm and render.sh end, by their own time limits if need be.   *)
FairSpec == Spec /\ \A c \in Call : WF_vars(Work(c))
----------------------------------------------------------------------------
(* Properties *)

Holds(c) == call[c].phase \in {"working", "changed"}

(* Two operations are never at work on one target, whatever their ids, and *)
(* a refused one never frees the target of the one at work.                *)
OneOperationPerTarget ==
  \A c, d \in Call : c # d /\ Holds(c) /\ Holds(d) => call[c].request.target # call[d].request.target

(* A cluster is changed only if it is the one the user confirmed, even     *)
(* when the saved target was changed while the dialog was open.            *)
AppliesWhatWasConfirmed ==
  \A c \in Call : call[c].phase \in {"changed", "done"} => call[c].request.target = call[c].shown

(* Until it is forgotten, an operation id changes a cluster to the end at  *)
(* most once, however often it is sent and whenever the copies arrive.     *)
NoReplay == \A i \in Id : runs[i] <= 1

(* A cached answer is about the same action, target and arguments.         *)
CachedMeansDone ==
  \A c \in Call : call[c].phase = "cached" => [id |-> call[c].id, request |-> call[c].request] \in done

(* colima is never started and stopped at the same time. *)
OneLifecycleCommand ==
  \A l, m \in Life : lpc[l] # "idle" /\ lpc[m] # "idle" => l = m

(* Operations exclude each other: two on one target, two lifecycle commands, *)
(* and an answer from memory is about what was done.                         *)
OperationsExclude ==
  TypeOK /\ OneOperationPerTarget /\ OneLifecycleCommand /\ CachedMeansDone

(* A target taken by an operation is given back, also when a step fails.   *)
TargetIsReleased ==
  \A t \in Target : t \in inFlight ~> t \notin inFlight
=============================================================================
