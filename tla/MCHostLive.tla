------------------------------- MODULE MCHostLive -------------------------------
(* Small instances, for liveness, of the components that owe an answer.     *)
(* They share no state: a behaviour picks one of them and runs it.          *)
EXTENDS DeployOperations, Guardrails, LocalInference

CONSTANTS Server, Adapter, Caller, Requests, Base, NoOne

VARIABLES slot, lastError, lkg, req, pc, child, exit, hc, kpc, target, goal,
          deleting, cleared, dir, benchmark, asked, wiped

Serving == INSTANCE ServingLifecycle
servingVars == <<slot, lastError, lkg, req, pc, child, exit, hc, kpc, target, goal,
                 deleting, cleared, dir, benchmark, asked, wiped>>

VARIABLE part   \* the component that runs

OneConfig == {[battery |-> TRUE, thermal |-> FALSE]}
BaseModel == {[model |-> Base, adapter |-> Base]}

LiveInit ==
  /\ Init /\ GuardInit /\ LiInit /\ Serving!Init
  /\ part \in {"operations", "guard", "inference", "serving"}
  /\ part # "operations" => saved = (CHOOSE s \in Setting : TRUE) /\ vm = FALSE

LiveNext ==
  /\ UNCHANGED part
  /\ \/ part = "operations" /\ UNCHANGED <<guardVars, liVars, servingVars>> /\ Next
     \/ part = "guard" /\ UNCHANGED <<vars, liVars, servingVars>> /\ GuardNext
     \/ part = "inference" /\ UNCHANGED <<vars, guardVars, servingVars>> /\ LiNext
     \/ part = "serving" /\ UNCHANGED <<vars, guardVars, liVars>> /\ Serving!Next

(* Each component's fairness is its own (FairSpec, GuardFairness, LiFairness and *)
(* Serving!Fairness). Where a component does not run, it owes no step.           *)
OperationsFairness == \A c \in Call : WF_vars(part = "operations" /\ Work(c))
GuardPartFairness ==
  /\ \A t \in Trainer : /\ WF_guardVars(part = "guard" /\ LoopStep(t))
                        /\ WF_guardVars(part = "guard" /\ GuardFinalize(t))
  /\ \A c \in GuardCmd : WF_guardVars(part = "guard" /\ CmdStep(c))
InferenceFairness ==
  /\ \A p \in Omlx : WF_liVars(part = "inference" /\ WatcherStep(p))
  /\ \A c \in LiCall : WF_liVars(part = "inference" /\ LiCallStep(c))
ServingFairness ==
  /\ \A s \in Server : /\ WF_servingVars(part = "serving" /\ Serving!StartCommand(s))
                       /\ WF_servingVars(part = "serving" /\ Serving!Reader(s))
  /\ \A c \in Caller : /\ WF_servingVars(part = "serving" /\ Serving!StopCommand(c))
                       /\ WF_servingVars(part = "serving" /\ Serving!Revert(c))

LiveSpec ==
  /\ LiveInit /\ [][LiveNext]_<<vars, guardVars, liVars, servingVars, part>>
  /\ OperationsFairness /\ GuardPartFairness /\ InferenceFairness /\ ServingFairness

(* The reader of a dead server empties the slot (ServingLifecycle). *)
DeadServerLeavesSlot == Serving!DeadServerLeavesSlot

(* A revert ends, with or without a new server (ServingLifecycle). *)
RevertIsReleased == Serving!RevertIsReleased
=============================================================================
