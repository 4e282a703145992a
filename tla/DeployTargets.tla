------------------------------ MODULE DeployTargets ------------------------------
(***************************************************************************)
(* services/deploy_target.rs, commands/deploy_target.rs, the card that     *)
(* edits the target (useDeployTarget.ts), provision_mlops_stack and        *)
(* commands/local_inference_bridge.rs: the saved deploy target, its two    *)
(* caches, the detection of the address under which a cluster reaches this *)
(* host, and what uses that address: rendered manifests and the relay.     *)
(***************************************************************************)
EXTENDS Naturals, Sequences, FiniteSets

CONSTANTS Cluster,   \* kubeconfig contexts
          Managed,   \* the context of the managed colima profile
          Iface,     \* IPv4 interfaces, in order: address, loopback, the clusters with a node in its subnet
          DtGet,     \* get_deploy_target calls in flight
          Relay,     \* inference relays
          NoRelay,
          MaxEdit    \* bound: what the user does on the card

ASSUME DeployTargetsAssumption ==
  /\ Managed \in Cluster /\ NoRelay \notin Relay /\ "save" \notin DtGet /\ MaxEdit \in Nat
  /\ \A i \in DOMAIN Iface : Iface[i].near \subseteq Cluster /\ Iface[i].loopback \in BOOLEAN

VARIABLES
  dtFile,      \* deploy-target.json: "none", "garbled" while it is written, "saved" with its target
  activeCtx,   \* ACTIVE
  activeBrg,   \* ACTIVE_BRIDGE
  dtCall,      \* get_deploy_target calls and the one save_deploy_target
  card,        \* the card: whether it has a target yet, which, busy, the preflight report
  detect,      \* detect_host_bridge: the cluster, the candidates left
  edits,       \* bound counter
  applied,     \* the last manifests applied: cluster, bridge
  relay, relayHost, relaySlot, \* LocalInferenceBridgeState
  reached,     \* history: <<cluster, address>> a probe pod reached
  dtMixed,     \* history: no call ran alone since the start, or since a get and a save overlapped
  moved,       \* history: the context was changed under a running detection
  relayCrossed \* history: two relays were being started at once

cardVars == <<card, detect, edits>>
relayVars == <<relay, relayHost, relaySlot, relayCrossed>>
savedVars == <<dtFile, activeCtx, activeBrg>>
dtVars == <<savedVars, dtCall, cardVars, applied, relayVars, reached, dtMixed, moved>>
----------------------------------------------------------------------------
(* The pure rules. *)
KeepBase == [kind |-> "keep_base", host |-> "none"]
Reachable(a) == [kind |-> "verified", host |-> a]
Unverified(why) == [kind |-> "unverified", host |-> why]

ForContext(c) ==
  [context |-> c, level |-> "unset",
   bridge |-> IF c = Managed THEN KeepBase ELSE Unverified("not_probed")]

EffectiveLevel(t) ==
  IF t.level # "unset" THEN t.level
  ELSE IF t.context = Managed THEN "full-stack" ELSE "agent-only"

FullStackGate(t) == t.context = Managed \/ EffectiveLevel(t) # "agent-only"

(* render_args: whether manifests may be rendered with this bridge. *)
Renders(t) == t.bridge.kind = "verified" \/ (t.bridge = KeepBase /\ t.context = Managed)

(* The host's own addresses on a subnet of a node, in order, each once. *)
BridgeCandidates(c) ==
  LET usable == SelectSeq(Iface, LAMBDA i : ~i.loopback /\ c \in i.near)
      addr   == [i \in DOMAIN usable |-> usable[i].addr]
      first  == {i \in DOMAIN addr : \A j \in 1..(i - 1) : addr[j] # addr[i]}
  IN [k \in 1..Cardinality(first) |->
        addr[CHOOSE i \in first : Cardinality({j \in first : j <= i}) = k]]

(* preflight: what stands against a deployment, from the cluster's answers. *)
Blockers(c, defaultClass, owners) ==
  (IF defaultClass THEN {} ELSE {"no_default_storage_class"}) \cup
  (IF owners = {} THEN {} ELSE {"namespace_owned_by_argocd"}) \cup
  (IF c # Managed /\ BridgeCandidates(c) = <<>> THEN {"no_bridge_candidates"} ELSE {})

----------------------------------------------------------------------------
NoDetect == [on |-> FALSE, context |-> Managed, left |-> <<>>]
IdleDt == [pc |-> "idle", target |-> ForContext(Managed), alone |-> TRUE, for |-> "show"]
NoReport == [context |-> Managed, blocked |-> TRUE]
NewCard == [loaded |-> FALSE, reload |-> TRUE, target |-> ForContext(Managed),
            busy |-> "no", report |-> NoReport]
Calls == DtGet \cup {"save"}

(* active_verified_bridge_host and the guard of the relay's address. *)
AllowedBindHost(a, brg) ==
  \/ \E i \in DOMAIN Iface : Iface[i].addr = a /\ Iface[i].loopback
  \/ brg = Reachable(a)

DtInit ==
  /\ dtFile = [is |-> "none", target |-> ForContext(Managed)]
  /\ activeCtx = Managed /\ activeBrg = Unverified("not_set")
  /\ dtCall = [c \in Calls |-> IdleDt]
  /\ card = NewCard /\ detect = NoDetect /\ edits = 0
  /\ applied = ForContext(Managed)
  /\ relay = [r \in Relay |-> "new"] /\ relayHost = [r \in Relay |-> "none"]
  /\ relaySlot = NoRelay /\ relayCrossed = FALSE
  /\ reached = {} /\ dtMixed = TRUE /\ moved = FALSE

Quiet == \A c \in Calls : dtCall[c].pc = "idle"
(* A call begins; those under way do not run alone any more. *)
Started(c, pc, t, for) ==
  [d \in Calls |->
     IF d = c THEN [pc |-> pc, target |-> t, alone |-> Quiet, for |-> for]
     ELSE [dtCall[d] EXCEPT !.alone = FALSE]]
----------------------------------------------------------------------------
(* The card: without a target it shows nothing but that it is loading. *)
SelectContext(c) ==
  /\ card.loaded /\ edits < MaxEdit /\ edits' = edits + 1
  /\ card' = [card EXCEPT !.target = ForContext(c), !.report = NoReport]
  /\ moved' = (moved \/ (detect.on /\ detect.context # c))
  /\ UNCHANGED <<savedVars, dtCall, detect, applied, relayVars, reached, dtMixed>>

ChooseFullStack ==
  /\ card.loaded /\ card.target.context # Managed
  /\ card' = [card EXCEPT !.target.level = "full-stack"]
  /\ UNCHANGED <<savedVars, dtCall, detect, edits, applied, relayVars, reached, dtMixed, moved>>

RunPreflight ==
  /\ card.loaded /\ card.busy = "no" /\ edits < MaxEdit /\ edits' = edits + 1
  /\ \E class \in BOOLEAN, owners \in {{}, {"app"}} :
       LET c == card.target.context IN
       card' = [card EXCEPT !.report = [context |-> c, blocked |-> Blockers(c, class, owners) # {}]]
  /\ UNCHANGED <<savedVars, dtCall, detect, applied, relayVars, reached, dtMixed, moved>>

(* detect_host_bridge for the cluster the card shows when it is asked. *)
DetectBridge ==
  /\ card.loaded /\ card.busy = "no" /\ edits < MaxEdit /\ edits' = edits + 1
  /\ card' = [card EXCEPT !.busy = "bridge"]
  /\ detect' = [on |-> TRUE, context |-> card.target.context,
                left |-> BridgeCandidates(card.target.context)]
  /\ UNCHANGED <<savedVars, dtCall, applied, relayVars, reached, dtMixed, moved>>

(* patchTarget({ bridge }): whatever target the card holds by now. *)
Answer(brg) ==
  /\ card' = [card EXCEPT !.busy = "no", !.target.bridge = brg]
  /\ detect' = NoDetect
  /\ UNCHANGED <<savedVars, dtCall, edits, applied, relayVars, dtMixed, moved>>

DetectManaged ==
  /\ detect.on /\ detect.context = Managed
  /\ Answer(KeepBase) /\ UNCHANGED reached

DetectNoCandidate ==
  /\ detect.on /\ detect.context # Managed /\ BridgeCandidates(detect.context) = <<>>
  /\ Answer(Unverified("no_interface_candidates")) /\ UNCHANGED reached

\* Mutant of ProbeReaches: the first candidate is taken unprobed.
ProbeSkipped ==
  /\ detect.on /\ detect.context # Managed /\ detect.left # <<>>
  /\ Answer(Reachable(Head(detect.left))) /\ UNCHANGED reached

(* A pod in the cluster fetches from a listener on the candidate. *)
ProbeReaches ==
  /\ detect.on /\ detect.context # Managed /\ detect.left # <<>>
  /\ reached' = reached \cup {<<detect.context, Head(detect.left)>>}
  /\ Answer(Reachable(Head(detect.left)))

ProbeFails ==
  /\ detect.on /\ detect.context # Managed /\ detect.left # <<>>
  /\ UNCHANGED reached
  /\ IF Tail(detect.left) = <<>> THEN Answer(Unverified("unreachable_from_cluster"))
     ELSE /\ detect' = [detect EXCEPT !.left = Tail(detect.left)]
          /\ UNCHANGED <<savedVars, dtCall, card, edits, applied, relayVars, dtMixed, moved>>

(* kubectl does not answer: the detection fails, nothing is filled in. *)
DetectFails ==
  /\ detect.on /\ detect.context # Managed
  /\ Answer(Unverified("not_probed")) /\ UNCHANGED reached
----------------------------------------------------------------------------
(* save_deploy_target: the write truncates first; then the caches. *)
SaveDeployTarget ==
  /\ card.loaded /\ card.busy = "no" /\ edits < MaxEdit /\ edits' = edits + 1
  /\ dtCall["save"].pc = "idle"
  /\ card' = [card EXCEPT !.busy = "save"]
  /\ dtFile' = [dtFile EXCEPT !.is = "garbled"]
  /\ dtCall' = Started("save", "write", card.target, "show")
  /\ dtMixed' = (dtMixed \/ ~Quiet)
  /\ UNCHANGED <<activeCtx, activeBrg, detect, applied, relayVars, reached, moved>>

SaveWrites ==
  /\ dtCall["save"].pc = "write"
  /\ dtFile' = [is |-> "saved", target |-> dtCall["save"].target]
  /\ dtCall' = [dtCall EXCEPT !["save"].pc = "context"]
  /\ UNCHANGED <<activeCtx, activeBrg, cardVars, applied, relayVars, reached, dtMixed, moved>>

(* get_deploy_target, for the card (when it is mounted and when a save is *)
(* announced) or for provision_mlops_stack: no file means colima, one that *)
(* does not parse fails before the caches.                                 *)
Get(c, for) ==
  /\ dtCall[c].pc = "idle"
  /\ for = "show" => card.reload
  /\ dtFile.is # "garbled"
  /\ dtCall' = Started(c, "context", dtFile.target, for)
  /\ dtMixed' = (dtMixed \/ dtCall["save"].pc # "idle")
  /\ card' = [card EXCEPT !.reload = card.reload /\ for # "show"]
  /\ UNCHANGED <<savedVars, detect, edits, applied, relayVars, reached, moved>>

(* set_active: one cache, then the other. *)
SetContext(c) ==
  /\ dtCall[c].pc = "context"
  /\ activeCtx' = dtCall[c].target.context
  /\ dtCall' = [dtCall EXCEPT ![c].pc = "bridge"]
  /\ UNCHANGED <<dtFile, activeBrg, cardVars, applied, relayVars, reached, dtMixed, moved>>

\* Mutant of SetBridge: only the context is cached.
SetBridgeSkipped(c) ==
  /\ dtCall[c].pc = "bridge"
  /\ dtCall' = [dtCall EXCEPT ![c].pc = "return"]
  /\ dtMixed' = (dtMixed /\ ~dtCall[c].alone)
  /\ UNCHANGED <<savedVars, cardVars, applied, relayVars, reached, moved>>

SetBridge(c) ==
  /\ dtCall[c].pc = "bridge"
  /\ activeBrg' = dtCall[c].target.bridge
  /\ dtCall' = [dtCall EXCEPT ![c].pc = "return"]
  /\ dtMixed' = (dtMixed /\ ~dtCall[c].alone)
  /\ UNCHANGED <<dtFile, activeCtx, cardVars, applied, relayVars, reached, moved>>

(* The card takes over what it saved or loaded; provisioning goes on with *)
(* the target it read, past the gates, to kubectl apply, or fails.        *)
DtReturn(c) ==
  LET t == dtCall[c].target IN
  /\ dtCall[c].pc = "return"
  /\ dtCall' = [dtCall EXCEPT ![c] = IdleDt]
  /\ IF dtCall[c].for = "show"
     THEN /\ card' = [card EXCEPT !.loaded = TRUE, !.target = t, !.reload = @ \/ c = "save",
                                  !.busy = IF c = "save" THEN "no" ELSE @]
          /\ moved' = (moved \/ (detect.on /\ detect.context # t.context))
          /\ UNCHANGED applied
     ELSE /\ \/ UNCHANGED applied
             \/ FullStackGate(t) /\ Renders(t) /\ applied' = t
          /\ UNCHANGED <<card, moved>>
  /\ UNCHANGED <<savedVars, detect, edits, relayVars, reached, dtMixed>>
----------------------------------------------------------------------------
\* Mutant of RelayBegin: a relay in the slot is not looked at.
RelayBeginAnyway(r, a) ==
  /\ relay[r] = "new" /\ AllowedBindHost(a, activeBrg)
  /\ \A s \in Relay : s < r => relay[s] # "new"
  /\ relay' = [relay EXCEPT ![r] = "binding"] /\ relayHost' = [relayHost EXCEPT ![r] = a]
  /\ relayCrossed' = (relayCrossed \/ \E s \in Relay : relay[s] = "binding")
  /\ UNCHANGED <<savedVars, dtCall, cardVars, applied, relaySlot, reached, dtMixed, moved>>

(* start_local_inference_bridge: the address is checked against the cache, *)
(* the slot is looked at, the address bound, the relay put into the slot.  *)
RelayBegin(r, a) ==
  /\ relay[r] = "new" /\ AllowedBindHost(a, activeBrg)
  /\ \A s \in Relay : s < r => relay[s] # "new"
  /\ \A s \in Relay : s = relaySlot => relay[s] = "ended"
  /\ relay' = [relay EXCEPT ![r] = "binding"] /\ relayHost' = [relayHost EXCEPT ![r] = a]
  /\ relayCrossed' = (relayCrossed \/ \E s \in Relay : relay[s] = "binding")
  /\ UNCHANGED <<savedVars, dtCall, cardVars, applied, relaySlot, reached, dtMixed, moved>>

RelayBinds(r) ==
  /\ relay[r] = "binding"
  /\ \/ relay' = [relay EXCEPT ![r] = "listening"] /\ relaySlot' = r
     \/ relay' = [relay EXCEPT ![r] = "ended"] /\ UNCHANGED relaySlot
  /\ relayHost' = [relayHost EXCEPT ![r] = IF relay'[r] = "listening" THEN @ ELSE "none"]
  /\ UNCHANGED <<savedVars, dtCall, cardVars, applied, relayCrossed, reached, dtMixed, moved>>

(* accept fails: the loop ends and the slot keeps the finished task. *)
RelayEnds(r) ==
  /\ relay[r] = "listening" /\ relay' = [relay EXCEPT ![r] = "ended"]
  /\ relayHost' = [relayHost EXCEPT ![r] = "none"]
  /\ UNCHANGED <<savedVars, dtCall, cardVars, applied, relaySlot, relayCrossed, reached, dtMixed, moved>>

RelayStop ==
  /\ relaySlot # NoRelay
  /\ relay' = [relay EXCEPT ![relaySlot] = "ended"] /\ relaySlot' = NoRelay
  /\ relayHost' = [relayHost EXCEPT ![relaySlot] = "none"]
  /\ UNCHANGED <<savedVars, dtCall, cardVars, applied, relayCrossed, reached, dtMixed, moved>>
(* The program dies, also in the middle of writing the file, and starts *)
(* again: only the file is left.                                         *)
DtRestart ==
  /\ edits < MaxEdit /\ edits' = edits + 1
  /\ activeCtx' = Managed /\ activeBrg' = Unverified("not_set")
  /\ dtCall' = [c \in Calls |-> IdleDt]
  /\ card' = NewCard /\ detect' = NoDetect
  /\ relay' = [r \in Relay |-> "new"] /\ relayHost' = [r \in Relay |-> "none"]
  /\ relaySlot' = NoRelay /\ relayCrossed' = FALSE /\ dtMixed' = TRUE
  /\ UNCHANGED <<dtFile, applied, reached, moved>>
----------------------------------------------------------------------------
Addresses == {Iface[i].addr : i \in DOMAIN Iface}

DtNext ==
  \/ \E c \in Cluster : SelectContext(c)
  \/ ChooseFullStack \/ RunPreflight \/ DetectBridge
  \/ DetectManaged \/ DetectNoCandidate \/ ProbeReaches \/ ProbeFails \/ DetectFails
  \/ SaveDeployTarget \/ SaveWrites
  \/ \E c \in DtGet, for \in {"show", "apply"} : Get(c, for)
  \/ \E c \in Calls : SetContext(c) \/ SetBridge(c) \/ DtReturn(c)
  \/ \E r \in Relay : (\E a \in Addresses : RelayBegin(r, a)) \/ RelayBinds(r) \/ RelayEnds(r)
  \/ RelayStop \/ DtRestart

DtSpec == DtInit /\ [][DtNext]_dtVars
----------------------------------------------------------------------------
(* The two caches are written one after the other, by every get and every   *)
(* save: once nothing is in flight they tell the saved target, unless a get *)
(* and a save overlapped, and then until a call has run alone.              *)
CachesFollowFile ==
  (Quiet /\ ~dtMixed /\ dtFile.is = "saved") =>
    activeCtx = dtFile.target.context /\ activeBrg = dtFile.target.bridge

(* Whatever the user changed meanwhile, no address leaves the program that   *)
(* no cluster reached: manifests are applied with an address a pod of some   *)
(* cluster reached, of that very cluster when the context was not changed    *)
(* under a detection, or with the base bridge on the managed profile; and a  *)
(* relay beyond loopback listens on a reached address only.                  *)
OnlyReachedAddresses ==
  /\ applied.bridge.kind # "unverified"
  /\ applied.bridge = KeepBase => applied.context = Managed
  /\ applied.bridge.kind = "verified" =>
       \E e \in reached : e[2] = applied.bridge.host /\ (moved \/ e[1] = applied.context)
  /\ \A r \in Relay : relay[r] = "listening" =>
       \/ \E i \in DOMAIN Iface : Iface[i].addr = relayHost[r] /\ Iface[i].loopback
       \/ \E e \in reached : e[2] = relayHost[r]

(* A relay that listens is the one stop would end, unless two were started *)
(* at once.                                                                *)
RelayIsOwned ==
  ~relayCrossed => \A r \in Relay : relay[r] = "listening" => relaySlot = r
=============================================================================
