------------------------------ MODULE PortForwards ------------------------------
(***************************************************************************)
(* commands/port_forward.rs and services/ports.rs: kubectl port-forward    *)
(* children of the dashboard (jobs) and of the kagent panel (one per       *)
(* context), the host ports picked for them, and what stop cleans up. A    *)
(* child whose handle is dropped keeps running.                            *)
(***************************************************************************)
EXTENDS Naturals, Sequences

CONSTANTS PfCall,     \* start_port_forward, stop_port_forward, open_kagent_ui calls
          Context,    \* cluster contexts
          MaxForward, \* kubectl processes alive at a time
          Jobs,       \* JOBS: the keys of the dashboard's forwards, in order
          PortRange,  \* SPECS: the host ports of each job, the least one preferred
          NoContext   \* of a call that is not about one context

Job == {Jobs[i] : i \in DOMAIN Jobs}
Forward == 1..MaxForward

ASSUME PortForwardsAssumption ==
  /\ MaxForward \in Nat
  /\ Jobs \in Seq(STRING) /\ \A i, j \in DOMAIN Jobs : Jobs[i] = Jobs[j] => i = j
  /\ "kagent-ui" \in Job /\ Job \subseteq DOMAIN PortRange
  /\ \A k \in Job : /\ PortRange[k] \subseteq Nat \ {0}
                     /\ \E p \in PortRange[k] : \A q \in PortRange[k] : p <= q
  /\ NoContext \notin Context

VARIABLES
  target,    \* the context of the active deploy target
  jobs,      \* PortForwardState.jobs; 0 for none
  kagentUi,  \* PortForwardState.kagent_ui; 0 for none
  forward,   \* the kubectl processes
  assigned,  \* ports.rs ASSIGNED; 0 for not assigned
  pfCall,    \* each command
  overlapped, \* history: two commands ran at the same time
  givenUp    \* history: forwards the panel dropped because they did not answer

pfVars == <<target, jobs, kagentUi, forward, assigned, pfCall, overlapped, givenUp>>

(* ours: history, started in this session of the program. *)
NoForward == [alive |-> FALSE, context |-> NoContext, port |-> 0, ours |-> FALSE]
IdleCall == [pc |-> "idle", context |-> NoContext, held |-> {}, next |-> 1, answered |-> {}]
Alive(f) == f \in Forward /\ forward[f].alive

PortBound(p) == \E f \in Forward : forward[f].alive /\ forward[f].port = p
PreferredPort(range) == CHOOSE p \in range : \A q \in range : p <= q

(* What find_free_port may answer: the first port of the range that neither a *)
(* forward nor an unrelated program holds, 0 for none.                        *)
FreePorts(range) == {p \in range : ~PortBound(p)} \cup {0}

(* A forward of an earlier session may still run. *)
PfInit ==
  /\ target \in Context
  /\ jobs = [k \in Job |-> 0]
  /\ kagentUi = [x \in Context |-> 0]
  /\ \E x \in Context, p \in PortRange["kagent-ui"] :
       forward \in {[f \in Forward |-> NoForward],
                    [f \in Forward |-> IF f = 1 THEN [NoForward EXCEPT !.alive = TRUE, !.context = x, !.port = p]
                                       ELSE NoForward]}
  /\ assigned = [k \in Job |-> 0]
  /\ pfCall = [c \in PfCall |-> IdleCall]
  /\ overlapped = FALSE
  /\ givenUp = {1} \cap {f \in Forward : forward[f].alive}

(* port_for: the assigned port, or before that the preferred one. *)
PortFor(k) == IF assigned[k] = 0 THEN PreferredPort(PortRange[k]) ELSE assigned[k]

tracked == {jobs[k] : k \in Job} \cup {kagentUi[x] : x \in Context}
          \cup UNION {pfCall[c].held : c \in PfCall}

(* An id is free again once its process is gone and nothing refers to it. *)
FreeIds == {f \in Forward : ~Alive(f) /\ f \notin tracked}
NewId(ids) == CHOOSE f \in ids : TRUE

Killed(fs) == [f \in Forward |-> IF f \in fs THEN NoForward ELSE forward[f]]
PfAt(c, pc) == pfCall' = [pfCall EXCEPT ![c].pc = pc]
PfReturn(c) == pfCall' = [pfCall EXCEPT ![c] = IdleCall]
PfBegin(c, pc, x, held) ==
  /\ pfCall[c].pc = "idle"
  /\ pfCall' = [pfCall EXCEPT ![c] = [IdleCall EXCEPT !.pc = pc, !.context = x, !.held = held]]
  /\ overlapped' = (overlapped \/ \E d \in PfCall : pfCall[d].pc # "idle")
----------------------------------------------------------------------------
(* The environment: another target is saved, a forward dies, or could not bind *)
(* its port. Whether a port answers is left open: a forward may lead to a      *)
(* service that is not there, an unrelated program may have taken the port.    *)
PfSaveTarget ==
  /\ target' \in Context
  /\ UNCHANGED <<jobs, kagentUi, forward, assigned, pfCall, overlapped, givenUp>>

ForwardDies(f) ==
  /\ Alive(f) /\ forward' = Killed({f})
  /\ UNCHANGED <<target, jobs, kagentUi, assigned, pfCall, overlapped, givenUp>>
----------------------------------------------------------------------------
(* find_pids_by_pattern: pgrep is asked for the forwards of one context, once per *)
(* service, whoever started them. One that fails counts as no forwards: only the  *)
(* services it answered for are reaped. Two jobs of one service, answered         *)
(* together in the code, may be answered apart here.                              *)
PortsOf(ks) == UNION {PortRange[k] : k \in ks}
Matching(x, answered) ==
  {f \in Forward : Alive(f) /\ forward[f].context = x /\ forward[f].port \in PortsOf(answered)}

StartDrains(c) ==
  /\ PfBegin(c, "reap", NoContext, {jobs[k] : k \in Job} \ {0})
  /\ jobs' = [k \in Job |-> 0]
  /\ UNCHANGED <<target, kagentUi, forward, assigned, givenUp>>

\* Mutant of StartReaps: what pgrep finds is killed, the drained children are not.
StartReapsMatching(c) ==
  /\ pfCall[c].pc = "reap"
  /\ \E answered \in SUBSET Job : forward' = Killed(Matching(target, answered))
  /\ pfCall' = [pfCall EXCEPT ![c].pc = "spawn", ![c].held = {}, ![c].context = target]
  /\ UNCHANGED <<target, jobs, kagentUi, assigned, overlapped, givenUp>>

StartReaps(c) ==
  /\ pfCall[c].pc = "reap"
  /\ \E answered \in SUBSET Job :
       forward' = Killed(pfCall[c].held \cup Matching(target, answered))
  /\ pfCall' = [pfCall EXCEPT ![c].pc = "spawn", ![c].held = {}, ![c].context = target]
  /\ UNCHANGED <<target, jobs, kagentUi, assigned, overlapped, givenUp>>

Spawned(f, x, p) ==
  [forward EXCEPT ![f] = [alive |-> TRUE, context |-> x, port |-> p, ours |-> TRUE]]

(* The loop that spawns the jobs holds the lock of the jobs. *)
JobsLocked(c) == \E d \in PfCall \ {c} : pfCall[d].pc = "spawn"

(* The next job: a port is found and assigned, the child takes the place of *)
(* the one in the table, which is dropped; or one of them fails.            *)
StartSpawns(c) ==
  LET k == Jobs[pfCall[c].next]  f == NewId(FreeIds) IN
  /\ pfCall[c].pc = "spawn"
  /\ \E p \in FreePorts(PortRange[k]) :
       /\ assigned' = IF p = 0 THEN assigned ELSE [assigned EXCEPT ![k] = p]
       /\ \/ /\ p # 0 /\ FreeIds # {}
             /\ forward' = Spawned(f, pfCall[c].context, p)
             /\ jobs' = [jobs EXCEPT ![k] = f] /\ givenUp' = givenUp \ {f}
             /\ pfCall' = [pfCall EXCEPT ![c].pc = IF pfCall[c].next = Len(Jobs) THEN "verify" ELSE @,
                                         ![c].next = IF @ = Len(Jobs) THEN @ ELSE @ + 1]
          \/ PfReturn(c) /\ UNCHANGED <<forward, jobs, givenUp>>
  /\ UNCHANGED <<target, kagentUi, overlapped>>

(* Two seconds later, the jobs whose port does not answer leave the table, *)
(* whichever child is there by then, and are killed.                       *)
StartVerifies(c) ==
  /\ pfCall[c].pc = "verify" /\ ~JobsLocked(c)
  /\ \E failed \in SUBSET Job :
       /\ jobs' = [k \in Job |-> IF k \in failed THEN 0 ELSE jobs[k]]
       /\ forward' = Killed({jobs[k] : k \in failed})
  /\ PfReturn(c)
  /\ UNCHANGED <<target, kagentUi, assigned, overlapped, givenUp>>
----------------------------------------------------------------------------
(* stop_port_forward: both tables are emptied and killed, then what pgrep *)
(* finds for the active target.                                           *)
StopDrains(c) ==
  /\ ~JobsLocked(c)
  /\ PfBegin(c, "stop", NoContext, ({jobs[k] : k \in Job} \cup {kagentUi[x] : x \in Context}) \ {0})
  /\ jobs' = [k \in Job |-> 0] /\ kagentUi' = [x \in Context |-> 0]
  /\ UNCHANGED <<target, forward, assigned, givenUp>>

StopKills(c) ==
  /\ pfCall[c].pc = "stop"
  /\ \E answered \in SUBSET Job :
       /\ forward' = Killed(pfCall[c].held \cup Matching(target, answered))
       /\ pfCall' = [pfCall EXCEPT ![c] = [IdleCall EXCEPT !.pc = "stopped", !.context = target,
                                                         !.answered = answered]]
  /\ UNCHANGED <<target, jobs, kagentUi, assigned, overlapped, givenUp>>

----------------------------------------------------------------------------
(* open_kagent_ui(x); Opened is the address it returns. *)
Opened(c, p) == pfCall' = [pfCall EXCEPT ![c].pc = "opened", ![c].next = p]

OpenReuses(c, x) ==
  /\ ~JobsLocked(c)
  /\ x = target /\ jobs["kagent-ui"] # 0
  /\ pfCall[c].pc = "idle"
  /\ pfCall' = [pfCall EXCEPT ![c] = [IdleCall EXCEPT !.pc = "opened", !.context = x,
                                                    !.next = PortFor("kagent-ui")]]
  /\ UNCHANGED <<target, jobs, kagentUi, forward, assigned, overlapped, givenUp>>

OpenLooks(c, x) ==
  /\ ~JobsLocked(c)
  /\ ~(x = target /\ jobs["kagent-ui"] # 0)
  /\ \/ /\ Alive(kagentUi[x])
        /\ PfBegin(c, "probe", x, {}) /\ UNCHANGED kagentUi
     \/ /\ ~Alive(kagentUi[x])
        /\ PfBegin(c, "open", x, {}) /\ kagentUi' = [kagentUi EXCEPT ![x] = 0]
  /\ UNCHANGED <<target, jobs, forward, assigned, givenUp>>

(* A forward that does not answer is dropped from the table and left running. *)
OpenProbes(c) ==
  LET x == pfCall[c].context  f == kagentUi[x] IN
  /\ pfCall[c].pc = "probe"
  /\ \/ /\ f # 0 /\ Opened(c, forward[f].port)
        /\ UNCHANGED <<kagentUi, givenUp>>
     \/ /\ kagentUi' = [kagentUi EXCEPT ![x] = 0]
        /\ givenUp' = givenUp \cup ({f} \ {0})
        /\ PfAt(c, "open")
  /\ UNCHANGED <<target, jobs, forward, assigned, overlapped>>

OpenSpawns(c) ==
  LET x == pfCall[c].context  f == NewId(FreeIds) IN
  /\ pfCall[c].pc = "open"
  /\ \/ \E p \in FreePorts(PortRange["kagent-ui"]) \ {0} :
          /\ FreeIds # {}
          /\ forward' = Spawned(f, x, p)
          /\ kagentUi' = [kagentUi EXCEPT ![x] = f] /\ givenUp' = givenUp \ {f}
          /\ pfCall' = [pfCall EXCEPT ![c].pc = "opening", ![c].next = p]
     \/ PfReturn(c) /\ UNCHANGED <<forward, kagentUi, givenUp>>
  /\ UNCHANGED <<target, jobs, assigned, overlapped>>

(* Two seconds later: the forward answers, or leaves the table and is killed. *)
OpenVerifies(c) ==
  LET x == pfCall[c].context IN
  /\ pfCall[c].pc = "opening"
  /\ \/ Opened(c, pfCall[c].next) /\ UNCHANGED <<kagentUi, forward>>
     \/ /\ kagentUi' = [kagentUi EXCEPT ![x] = 0]
        /\ forward' = Killed({kagentUi[x]})
        /\ PfReturn(c)
  /\ UNCHANGED <<target, jobs, assigned, overlapped, givenUp>>

PfReturns(c) ==
  /\ pfCall[c].pc \in {"stopped", "opened"} /\ PfReturn(c)
  /\ UNCHANGED <<target, jobs, kagentUi, forward, assigned, overlapped, givenUp>>
----------------------------------------------------------------------------
PfNext ==
  \/ \E c \in PfCall :
       \/ (StartDrains(c) /\ ~JobsLocked(c)) \/ StartReaps(c)
       \/ (StartSpawns(c) /\ ~JobsLocked(c)) \/ StartVerifies(c)
       \/ StopDrains(c) \/ StopKills(c) \/ PfReturns(c)
       \/ \E x \in Context : OpenReuses(c, x) \/ OpenLooks(c, x)
       \/ OpenProbes(c) \/ OpenSpawns(c) \/ OpenVerifies(c)
  \/ PfSaveTarget
  \/ \E f \in Forward : ForwardDies(f)

PfSpec == PfInit /\ [][PfNext]_pfVars
----------------------------------------------------------------------------
(* While no two commands overlapped, a kubectl child of the program that     *)
(* runs is in one of the tables or in the hands of a command about to kill   *)
(* it; only a forward the panel gave up on, or one of an earlier session, is *)
(* not.                                                                      *)
NoForwardIsLost ==
  ~overlapped => \A f \in Forward : Alive(f) => f \in tracked \cup givenUp

(* When a stop has done its work, and no other command overlapped, what the  *)
(* tables held is gone, of every context.  What still runs had left them      *)
(* before, and of the active target it is only what pgrep failed to list.    *)
StopIsComplete ==
  \A c \in PfCall :
    (pfCall[c].pc = "stopped" /\ ~overlapped)
    => \A f \in Forward : Alive(f) =>
         /\ f \in givenUp
         /\ forward[f].context = pfCall[c].context
            => forward[f].port \notin PortsOf(pfCall[c].answered)

(* The port the links of the user interface use for a job is the port its    *)
(* forward was started with, through every retry and reassignment.           *)
LinksFollowForwards ==
  ~overlapped => \A k \in Job : jobs[k] # 0 /\ Alive(jobs[k]) => PortFor(k) = forward[jobs[k]].port

(* The program knows its forwards but for those it gave up, a stop reaches   *)
(* the ones it knows and those pgrep lists for the active target, and the    *)
(* links lead to them.                                                       *)
ForwardsAreKnown == NoForwardIsLost /\ StopIsComplete /\ LinksFollowForwards

(* What the comment on stop_port_forward claims: a stop leaves nothing the    *)
(* program started.  The code does not: the panel's forward that did not     *)
(* answer has left the table, and pgrep is asked for the active target only. *)
StopLeavesNothing ==
  \A c \in PfCall :
    (pfCall[c].pc = "stopped" /\ ~overlapped /\ pfCall[c].answered = Job)
    => \A f \in Forward : ~(Alive(f) /\ forward[f].ours)
=============================================================================
