--------------------------------- MODULE MCHost ---------------------------------
(* Small instances of the components of the host that share no state with   *)
(* each other: a behaviour picks one of them and runs it, the others keep   *)
(* their initial state.                                                     *)
EXTENDS DeployOperations, DeployTargets, Guardrails, LocalInference, RuntimeClient,
        CacheCleanup, MCPortForwards, OrphanMarkers, PrefectRunner, CheckpointResume,
        ExecutionAuthority, ModelHub, SupportBundle

VARIABLE part   \* the component that runs

OneConfig == {[battery |-> TRUE, thermal |-> FALSE]}
ThreeIfaces == <<[addr |-> "lo", loopback |-> TRUE, near |-> {}],
                 [addr |-> "p", loopback |-> FALSE, near |-> {"x"}],
                 [addr |-> "q", loopback |-> FALSE, near |-> {"x"}]>>
Sizes == [m \in {"small", "big"} |-> IF m = "small" THEN 3 ELSE 8]
Tree == [n \in {"r", "d", "f", "g", "l"} |-> IF n = "f" THEN "d" ELSE "r"]
TreeKinds == [n \in {"r", "d", "f", "g", "l"} |->
                IF n \in {"r", "d"} THEN "dir" ELSE IF n = "l" THEN "link" ELSE "file"]
CacheRoot == [underHome |-> TRUE, isHome |-> FALSE, cacheNamed |-> TRUE]
SameBase == [a \in {1, 2} |-> 1]
OnlyIn == [s \in {"s"} |-> {"in"}]
FirstPolicy == [s \in {"s"} |-> "v1"]
(* An invocation as it was resolved, another one, and the first with its arguments *)
(* and policy, or its scope, changed under the digest it had.                      *)
ResolvedAs(scope, policy, args) ==
  [resolution |-> 1, scope |-> scope, policy |-> policy, args |-> args,
   digest |-> [scope |-> scope, policy |-> policy, args |-> args]]
FirstInvocation == ResolvedAs("in", "v1", "few")
HeldInvocations == {FirstInvocation, ResolvedAs("in", "v1", "many"),
                    [FirstInvocation EXCEPT !.args = "many", !.policy = "v2"],
                    [FirstInvocation EXCEPT !.scope = "out"]}
Opens == [s \in {"s"} |-> 1]
Closes == [s \in {"s"} |-> 3]
OwnSlug == [r \in {"x"} |-> "x"]
ThreeFiles == <<"app_info.json", "health_summary.json", "capability_matrix.json">>
LogStarts ==
  [{"a.log", "b:c.log"} -> {"text", "link"}]
  \cup {[n \in {"a.log", "b:c.log"} |-> IF n = "a.log" THEN k ELSE "dir"] : k \in {"grows", "binary"}}

opsVars == vars
hostVars == <<opsVars, dtVars, guardVars, liVars, rcVars, ccVars, pfVars, omVars, prVars,
              ckVars, eaVars, hubVars, sbVars>>

Parts == {"operations", "targets", "guard", "inference", "requests", "cache", "forwards",
          "orphans", "runner", "checkpoints", "authority", "hub", "bundle"}

HostInit ==
  /\ part \in Parts
  /\ Init /\ DtInit /\ GuardInit /\ LiInit /\ RcInit /\ CcInit /\ PfInit /\ OmInit /\ PrInit
  /\ CkInit /\ EaInit /\ HubInit /\ SbInit
  (* A component that does not run does not choose its initial state either. *)
  /\ part # "operations" => saved = (CHOOSE s \in Setting : TRUE) /\ vm = FALSE
  /\ part # "requests" => server = [up |-> TRUE, keyed |-> TRUE, epoch |-> 1]
  /\ part # "cache" => present = Node /\ fresh = {}
  /\ part # "forwards" => target = "x" /\ forward = [f \in Forward |-> NoForward]
  /\ part # "orphans" => \A p \in Pid : proc[p] = NoProc
  /\ part # "bundle" => logs = [n \in Log |-> "text"]

(* A component that does not run rests. TLC evaluates this once for all steps of the *)
(* one that does, as it comes before them.                                           *)
Rests(component, variables) == part # component => UNCHANGED variables

HostNext ==
  /\ UNCHANGED part
  /\ Rests("operations", opsVars)
  /\ Rests("targets", dtVars)
  /\ Rests("guard", guardVars)
  /\ Rests("inference", liVars)
  /\ Rests("requests", rcVars)
  /\ Rests("cache", ccVars)
  /\ Rests("forwards", pfVars)
  /\ Rests("orphans", omVars)
  /\ Rests("runner", prVars)
  /\ Rests("checkpoints", ckVars)
  /\ Rests("authority", eaVars)
  /\ Rests("hub", hubVars)
  /\ Rests("bundle", sbVars)
  /\ \/ part = "operations" /\ Next
     \/ part = "targets" /\ DtNext
     \/ part = "guard" /\ GuardNext
     \/ part = "inference" /\ LiNext
     \/ part = "requests" /\ RcNext
     \/ part = "cache" /\ CcNext
     \/ part = "forwards" /\ PfNext
     \/ part = "orphans" /\ OmNext
     \/ part = "runner" /\ PrNext
     \/ part = "checkpoints" /\ CkNext
     \/ part = "authority" /\ EaNext
     \/ part = "hub" /\ HubNext
     \/ part = "bundle" /\ SbNext

HostSpec == HostInit /\ [][HostNext]_<<hostVars, part>>
=============================================================================
