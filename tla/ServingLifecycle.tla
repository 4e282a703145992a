----------------------------- MODULE ServingLifecycle -----------------------------
(***************************************************************************)
(* commands/mlx.rs: the one serving slot of a KubeMetal process.  It is    *)
(* written under short locks by the start command, the stop commands, the  *)
(* reader task that waits for the server process and the revert command,   *)
(* and read by the health check that records the last known good           *)
(* configuration, by adapter deletion and by the GPU benchmark.            *)
(***************************************************************************)

CONSTANTS Server,   \* start requests, each with one server process; the pid is the identity
          Adapter,  \* adapter directories
          Caller,   \* stop and revert commands in flight
          Requests, \* the requests a user makes: model_path and adapter_path
          Base,     \* no adapter: a base model alone
          NoOne     \* no server, an empty slot

ASSUME NamesDiffer == NoOne \notin Server \cup Adapter \cup {Base} /\ Base \notin Adapter

Path == Adapter \cup {Base}
Request == [model : Path, adapter : Path]

ASSUME RequestsAreRequests == Requests \subseteq Request

VARIABLES
  slot,      \* MlxState.serving; not up is the pid 0 of a reservation
  lastError, \* MlxState.last_serving_error: the exit it tells of
  lkg,       \* MlxState.last_known_good_serving: its adapter, and who recorded it
  req,       \* the request: model_path (an adapter directory unless Base) and adapter_path
  pc,        \* where each start command, then its reader task, stands
  child,     \* the server process
  exit,      \* how it ended, until its reader is through
  hc,        \* where the health check of each server stands
  kpc,       \* where each stop or revert command stands
  target,    \* the server a command stops, then the one a revert starts
  goal,      \* the adapter a revert goes back to; NoOne in a plain stop
  deleting,  \* the adapter of a deletion under way, which holds adapter_admission
  cleared,   \* the deletion has looked at both places and found its adapter in neither
  dir,       \* adapter directories that exist
  benchmark, \* the benchmark command; benchmark_active is set unless it is idle
  asked,     \* history: servers a command aimed at, until their reader is through
  wiped      \* history: a reader emptied a slot that was not its server's any more

vars == <<slot, lastError, lkg, req, pc, child, exit, hc, kpc, target, goal,
          deleting, cleared, dir, benchmark, asked, wiped>>

EmptySlot == [owner |-> NoOne, up |-> FALSE, path |-> Base]

Phase == {"idle", "admitted", "reserved", "spawned", "published", "up",
          "checked", "reporting", "over"}

TypeOK ==
  /\ slot \in [owner : Server \cup {NoOne}, up : BOOLEAN, path : Path]
  /\ lastError \in {"none", "bad", "stopped"}
  /\ lkg \in [server : Server \cup {NoOne}, path : Path, guarded : BOOLEAN]
  /\ req \in [Server -> Request]
  /\ pc \in [Server -> Phase]
  /\ child \in [Server -> {"none", "alive", "dead"}]
  /\ exit \in [Server -> {"none", "ok", "bad", "stopped"}]
  /\ hc \in [Server -> {"off", "polling", "matched"}]
  /\ kpc \in [Caller -> {"idle", "replacing", "signalling", "restoring", "starting"}]
  /\ target \in [Caller -> Server \cup {NoOne}]
  /\ goal \in [Caller -> Path \cup {NoOne}]
  /\ deleting \in Path
  /\ cleared \in BOOLEAN
  /\ dir \subseteq Adapter
  /\ benchmark \in {"idle", "claimed", "measuring"}
  /\ asked \subseteq Server
  /\ wiped \in BOOLEAN

Init ==
  /\ slot = EmptySlot
  /\ lastError = "none"
  /\ lkg = [server |-> NoOne, path |-> Base, guarded |-> TRUE]
  /\ req = [s \in Server |-> [model |-> Base, adapter |-> Base]]
  /\ pc = [s \in Server |-> "idle"]
  /\ child = [s \in Server |-> "none"]
  /\ exit = [s \in Server |-> "none"]
  /\ hc = [s \in Server |-> "off"]
  /\ kpc = [c \in Caller |-> "idle"]
  /\ target = [c \in Caller |-> NoOne]
  /\ goal = [c \in Caller |-> NoOne]
  /\ deleting = Base
  /\ cleared = FALSE
  /\ dir = Adapter
  /\ benchmark = "idle"
  /\ asked = {}
  /\ wiped = FALSE

goto(s, label) == pc' = [pc EXCEPT ![s] = label]

(* resolve_serving_paths: a model path that is an adapter directory wins.  *)
Effective(r) == IF r.model # Base THEN r.model ELSE r.adapter

(* What the reservation shows to adapter deletion until the paths are      *)
(* resolved: the adapter of the request, else its model path.              *)
Reserved(r) == IF r.adapter # Base THEN r.adapter ELSE r.model

Present(path) == path = Base \/ path \in dir

Starting == {"admitted", "reserved", "spawned", "published"}
----------------------------------------------------------------------------
(* start_model_serving *)

(* The benchmark check at the door and the await of the memory and thermal *)
(* admission, which may refuse as well.                                    *)
Enter(s, r) ==
  /\ pc[s] = "idle"
  /\ \/ /\ benchmark = "idle"
        /\ req' = [req EXCEPT ![s] = r]
        /\ goto(s, "admitted")
     \/ goto(s, "over") /\ UNCHANGED req

Start(s, r) ==
  /\ Enter(s, r)
  /\ UNCHANGED <<slot, lastError, lkg, child, exit, hc, kpc, target, goal, deleting, cleared, dir,
                 benchmark, asked, wiped>>

(* Mutant of Reserve: the adapter is known only once it is resolved. *)
ReserveNoPath(s) ==
  /\ pc[s] = "admitted"
  /\ deleting = Base
  /\ IF benchmark # "idle" \/ slot.owner # NoOne
     THEN goto(s, "over") /\ UNCHANGED slot
     ELSE /\ slot' = [owner |-> s, up |-> FALSE, path |-> Base]
          /\ goto(s, "reserved")
  /\ UNCHANGED <<lastError, lkg, req, child, exit, hc, kpc, target, goal, deleting, cleared, dir,
                 benchmark, asked, wiped>>

(* The reservation, under the admission and slot locks. *)
Reserve(s) ==
  /\ pc[s] = "admitted"
  /\ deleting = Base
  /\ IF benchmark # "idle" \/ slot.owner # NoOne
     THEN goto(s, "over") /\ UNCHANGED slot
     ELSE /\ slot' = [owner |-> s, up |-> FALSE, path |-> Reserved(req[s])]
          /\ goto(s, "reserved")
  /\ UNCHANGED <<lastError, lkg, req, child, exit, hc, kpc, target, goal, deleting, cleared, dir,
                 benchmark, asked, wiped>>

(* Paths, gate, port, venv or spawn failed: the slot is emptied, whoever   *)
(* is in it.                                                               *)
StartFails(s) ==
  /\ pc[s] = "reserved"
  /\ slot' = EmptySlot
  /\ goto(s, "over")
  /\ UNCHANGED <<lastError, lkg, req, child, exit, hc, kpc, target, goal, deleting, cleared, dir,
                 benchmark, asked, wiped>>

(* gate_serving_adapter, no lock held while it hashes, then the spawn.     *)
Spawn(s) ==
  /\ pc[s] = "reserved"
  /\ Present(Effective(req[s]))
  /\ child' = [child EXCEPT ![s] = "alive"]
  /\ goto(s, "spawned")
  /\ UNCHANGED <<slot, lastError, lkg, req, exit, hc, kpc, target, goal, deleting, cleared, dir,
                 benchmark, asked, wiped>>

(* The slot gets its pid and the resolved adapter; not under the admission *)
(* lock.                                                                   *)
PublishSlot(s) ==
  /\ pc[s] = "spawned"
  /\ slot' = [owner |-> s, up |-> TRUE, path |-> Effective(req[s])]
  /\ goto(s, "published")
  /\ UNCHANGED <<lastError, lkg, req, child, exit, hc, kpc, target, goal, deleting, cleared, dir,
                 benchmark, asked, wiped>>

(* After the pid marker: the old error goes, the health check and the      *)
(* reader start, the command returns.                                      *)
Started(s) ==
  /\ pc[s] = "published"
  /\ lastError' = "none"
  /\ hc' = [hc EXCEPT ![s] = "polling"]
  /\ goto(s, "up")
  /\ UNCHANGED <<slot, lkg, req, child, exit, kpc, target, goal, deleting, cleared, dir,
                 benchmark, asked, wiped>>
----------------------------------------------------------------------------
(* The server process and run_serving_reader *)

ServerExits(s) ==
  /\ child[s] = "alive"
  /\ child' = [child EXCEPT ![s] = "dead"]
  /\ \E how \in {"ok", "bad"} : exit' = [exit EXCEPT ![s] = how]
  /\ UNCHANGED <<slot, lastError, lkg, req, pc, hc, kpc, target, goal, deleting, cleared, dir,
                 benchmark, asked, wiped>>

(* wait() returned and the marker is gone; the slot is read under its lock. *)
ReaderChecks(s) ==
  LET current == slot.owner = s /\ slot.up IN
  /\ pc[s] = "up"
  /\ child[s] = "dead"
  /\ goto(s, IF current THEN "checked" ELSE "over")
  /\ asked' = IF current THEN asked ELSE asked \ {s}
  /\ exit' = IF current THEN exit ELSE [exit EXCEPT ![s] = "none"]
  /\ UNCHANGED <<slot, lastError, lkg, req, child, hc, kpc, target, goal, deleting, cleared,
                 dir, benchmark, wiped>>

(* Mutant of ReaderClears: the stop command is trusted to empty the slot. *)
ReaderLeavesSlot(s) ==
  /\ pc[s] = "checked"
  /\ goto(s, "reporting")
  /\ UNCHANGED <<slot, lastError, lkg, req, child, exit, hc, kpc, target, goal, deleting, cleared,
                 dir, benchmark, asked, wiped>>

(* The lock is taken a second time and the slot emptied without a look.    *)
ReaderClears(s) ==
  /\ pc[s] = "checked"
  /\ slot' = EmptySlot
  /\ wiped' = (wiped \/ slot.owner \notin {s, NoOne})
  /\ goto(s, "reporting")
  /\ UNCHANGED <<lastError, lkg, req, child, exit, hc, kpc, target, goal, deleting, cleared, dir,
                 benchmark, asked>>

ReaderReports(s) ==
  /\ pc[s] = "reporting"
  /\ lastError' = IF exit[s] = "ok" THEN "none" ELSE exit[s]
  /\ exit' = [exit EXCEPT ![s] = "none"]
  /\ goto(s, "over")
  /\ asked' = asked \ {s}
  /\ UNCHANGED <<slot, lkg, req, child, hc, kpc, target, goal, deleting, cleared, dir,
                 benchmark, wiped>>
----------------------------------------------------------------------------
(* record_last_known_good_after_healthcheck and record_serving_success *)

(* /v1/models answered 200 and should_record_as_last_known_good agrees, on *)
(* a copy of the slot's pid; or the slot is no longer the server's.  The   *)
(* number of attempts is left out.                                         *)
HealthPasses(s) ==
  LET current == slot.owner = s /\ slot.up IN
  /\ hc[s] = "polling"
  /\ current => child[s] = "alive"
  /\ hc' = [hc EXCEPT ![s] = IF current THEN "matched" ELSE "off"]
  /\ UNCHANGED <<slot, lastError, lkg, req, pc, child, exit, kpc, target, goal, deleting, cleared,
                 dir, benchmark, asked, wiped>>

(* The record, under its own lock.  guarded is history: the slot was still *)
(* the server's, and its reservation had named the adapter.                *)
Record(s) ==
  /\ hc[s] = "matched"
  /\ lkg' = [server |-> s, path |-> Effective(req[s]), 
             guarded |-> slot.owner = s /\ Reserved(req[s]) = Effective(req[s])]
  /\ hc' = [hc EXCEPT ![s] = "off"]
  /\ UNCHANGED <<slot, lastError, req, pc, child, exit, kpc, target, goal, deleting, cleared, dir,
                 benchmark, asked, wiped>>
----------------------------------------------------------------------------
(* stop_model_serving, kill_mlx_process, revert_to_last_serving *)

(* The pid is read from a slot that has one; anything else is an error.    *)
AimAtServer(c) ==
  /\ slot.owner # NoOne /\ slot.up
  /\ target' = [target EXCEPT ![c] = slot.owner]
  /\ asked' = asked \cup {slot.owner}
  /\ kpc' = [kpc EXCEPT ![c] = "signalling"]

Stop(c) ==
  /\ kpc[c] = "idle"
  /\ AimAtServer(c)
  /\ UNCHANGED <<slot, lastError, lkg, req, pc, child, exit, hc, goal, deleting, cleared, dir,
                 benchmark, wiped>>

(* A signal of terminate_pid ends the server; the command still waits.     *)
Signal(c) ==
  /\ kpc[c] = "signalling"
  /\ child[target[c]] = "alive"
  /\ child' = [child EXCEPT ![target[c]] = "dead"]
  /\ exit' = [exit EXCEPT ![target[c]] = "stopped"]
  /\ UNCHANGED <<slot, lastError, lkg, req, pc, hc, kpc, target, goal, deleting, cleared, dir,
                 benchmark, asked, wiped>>

(* Mutant of StopClears: the slot is emptied whoever is in it. *)
StopClearsAny(c) ==
  /\ kpc[c] = "signalling"
  /\ child[target[c]] = "dead"
  /\ slot' = EmptySlot
  /\ kpc' = [kpc EXCEPT ![c] = IF goal[c] = NoOne THEN "idle" ELSE "restoring"]
  /\ target' = [target EXCEPT ![c] = NoOne]
  /\ UNCHANGED <<lastError, lkg, req, pc, child, exit, hc, goal, deleting, cleared, dir,
                 benchmark, asked, wiped>>

(* Mutant of StopClears: the slot is emptied before the server is gone. *)
StopClearsEarly(c) ==
  /\ kpc[c] = "signalling"
  /\ slot' = IF slot.owner = target[c] /\ slot.up THEN EmptySlot ELSE slot
  /\ kpc' = [kpc EXCEPT ![c] = IF goal[c] = NoOne THEN "idle" ELSE "restoring"]
  /\ target' = [target EXCEPT ![c] = NoOne]
  /\ UNCHANGED <<lastError, lkg, req, pc, child, exit, hc, goal, deleting, cleared, dir,
                 benchmark, asked, wiped>>

(* terminate_pid returned Ok; the slot is emptied if it still has that pid. *)
StopClears(c) ==
  /\ kpc[c] = "signalling"
  /\ child[target[c]] = "dead"
  /\ slot' = IF slot.owner = target[c] /\ slot.up THEN EmptySlot ELSE slot
  /\ kpc' = [kpc EXCEPT ![c] = IF goal[c] = NoOne THEN "idle" ELSE "restoring"]
  /\ target' = [target EXCEPT ![c] = NoOne]
  /\ UNCHANGED <<lastError, lkg, req, pc, child, exit, hc, goal, deleting, cleared, dir,
                 benchmark, asked, wiped>>

(* Mutant of StopFails: the early return keeps the revert reservation. *)
StopFailsKeepsClaim(c) ==
  /\ kpc[c] = "signalling"
  /\ pc[target[c]] \in {"published", "up"}
  /\ kpc' = [kpc EXCEPT ![c] = "idle"]
  /\ target' = [target EXCEPT ![c] = NoOne]
  /\ UNCHANGED <<slot, lastError, lkg, req, pc, child, exit, hc, goal, deleting, cleared, dir,
                 benchmark, asked, wiped>>

(* terminate_pid returned an error: it takes a process nobody waited for.  *)
StopFails(c) ==
  /\ kpc[c] = "signalling"
  /\ pc[target[c]] \in {"published", "up"}
  /\ kpc' = [kpc EXCEPT ![c] = "idle"]
  /\ target' = [target EXCEPT ![c] = NoOne]
  /\ goal' = [goal EXCEPT ![c] = NoOne]
  /\ UNCHANGED <<slot, lastError, lkg, req, pc, child, exit, hc, deleting, cleared, dir,
                 benchmark, asked, wiped>>

(* claim_revert_reservation, revert_config_or_error and, before any await, *)
(* revert_should_stop_current_serving.                                     *)
RevertBegins(c) ==
  /\ kpc[c] = "idle"
  /\ \A d \in Caller : goal[d] = NoOne
  /\ lkg.server # NoOne
  /\ benchmark = "idle"
  /\ goal' = [goal EXCEPT ![c] = lkg.path]
  /\ kpc' = [kpc EXCEPT ![c] = IF slot.owner # NoOne THEN "replacing" ELSE "restoring"]
  /\ UNCHANGED <<slot, lastError, lkg, req, pc, child, exit, hc, target, deleting, cleared, dir,
                 benchmark, asked, wiped>>

(* Memory, heat, the gate or a slot with nothing to stop refused: the      *)
(* reservation guard is dropped.                                           *)
RevertRefused(c) ==
  /\ kpc[c] \in {"replacing", "restoring"}
  /\ kpc' = [kpc EXCEPT ![c] = "idle"]
  /\ goal' = [goal EXCEPT ![c] = NoOne]
  /\ UNCHANGED <<slot, lastError, lkg, req, pc, child, exit, hc, target, deleting, cleared, dir,
                 benchmark, asked, wiped>>

(* The gate passed while the server was still up; now it is stopped.       *)
RevertStops(c) ==
  /\ kpc[c] = "replacing"
  /\ Present(goal[c])
  /\ AimAtServer(c)
  /\ UNCHANGED <<slot, lastError, lkg, req, pc, child, exit, hc, goal, deleting, cleared, dir,
                 benchmark, wiped>>

RevertStarts(c, s) ==
  /\ kpc[c] = "restoring"
  /\ Enter(s, [model |-> Base, adapter |-> goal[c]])
  /\ target' = [target EXCEPT ![c] = s]
  /\ kpc' = [kpc EXCEPT ![c] = "starting"]
  /\ UNCHANGED <<slot, lastError, lkg, child, exit, hc, goal, deleting, cleared, dir,
                 benchmark, asked, wiped>>

RevertEnds(c) ==
  /\ kpc[c] = "starting"
  /\ pc[target[c]] \notin Starting
  /\ kpc' = [kpc EXCEPT ![c] = "idle"]
  /\ target' = [target EXCEPT ![c] = NoOne]
  /\ goal' = [goal EXCEPT ![c] = NoOne]
  /\ UNCHANGED <<slot, lastError, lkg, req, pc, child, exit, hc, deleting, cleared, dir,
                 benchmark, asked, wiped>>
----------------------------------------------------------------------------
(* remove_adapter_checkpoint, with the training side of its guard left to  *)
(* TrainingLifecycle, and the benchmark                                    *)

(* Whether a look finds the adapter in use: the first is at the serving    *)
(* slot, the second at the last known good configuration.                  *)

(* Mutant of InUse: the last known good is looked at first. *)
InUseSwapped(a, look) ==
  IF look = "first" THEN lkg.path = a ELSE slot.path = a

InUse(a, look) ==
  IF look = "first" THEN slot.path = a ELSE lkg.path = a

(* The admission lock is taken, and kept; the slot is read under its own.  *)
DeleteBegins(a) ==
  /\ deleting = Base
  /\ a \in dir
  /\ ~InUse(a, "first")
  /\ deleting' = a
  /\ UNCHANGED <<slot, lastError, lkg, req, pc, child, exit, hc, kpc, target, goal, cleared,
                 dir, benchmark, asked, wiped>>

(* The second look, under another lock; the training that is looked at     *)
(* after it may refuse as well.                                            *)
DeleteLooks ==
  /\ deleting # Base /\ ~cleared
  /\ \/ ~InUse(deleting, "second") /\ cleared' = TRUE /\ UNCHANGED deleting
     \/ deleting' = Base /\ UNCHANGED cleared
  /\ UNCHANGED <<slot, lastError, lkg, req, pc, child, exit, hc, kpc, target, goal, dir,
                 benchmark, asked, wiped>>

(* remove_dir_all, which may fail; the lock goes. *)
DeleteEnds ==
  /\ cleared
  /\ dir' \in {dir, dir \ {deleting}}
  /\ deleting' = Base /\ cleared' = FALSE
  /\ UNCHANGED <<slot, lastError, lkg, req, pc, child, exit, hc, kpc, target, goal,
                 benchmark, asked, wiped>>

(* claim_benchmark_reservation: compare-and-swap before any check. *)
ClaimBenchmark ==
  /\ benchmark = "idle"
  /\ benchmark' = "claimed"
  /\ UNCHANGED <<slot, lastError, lkg, req, pc, child, exit, hc, kpc, target, goal,
                 deleting, cleared, dir, asked, wiped>>

(* check_workloads: an occupied slot refuses, a pid 0 one as well. *)
AdmitBenchmark ==
  /\ benchmark = "claimed"
  /\ \/ slot.owner = NoOne /\ benchmark' = "measuring"
     \/ benchmark' = "idle"
  /\ UNCHANGED <<slot, lastError, lkg, req, pc, child, exit, hc, kpc, target, goal,
                 deleting, cleared, dir, asked, wiped>>

EndBenchmark ==
  /\ benchmark = "measuring"
  /\ benchmark' = "idle"
  /\ UNCHANGED <<slot, lastError, lkg, req, pc, child, exit, hc, kpc, target, goal,
                 deleting, cleared, dir, asked, wiped>>
----------------------------------------------------------------------------
StartCommand(s) == Reserve(s) \/ StartFails(s) \/ Spawn(s) \/ PublishSlot(s) \/ Started(s)
Reader(s) == ReaderChecks(s) \/ ReaderClears(s) \/ ReaderReports(s)
HealthCheck(s) == HealthPasses(s) \/ Record(s)
StopCommand(c) == Signal(c) \/ StopClears(c) \/ StopFails(c)
Revert(c) == RevertRefused(c) \/ RevertStops(c) \/ RevertEnds(c)

Next ==
  \/ \E s \in Server, r \in Requests : Start(s, r)
  \/ \E s \in Server : StartCommand(s) \/ ServerExits(s) \/ Reader(s) \/ HealthCheck(s)
  \/ \E c \in Caller : Stop(c) \/ StopCommand(c) \/ RevertBegins(c) \/ Revert(c)
  \/ \E c \in Caller, s \in Server : RevertStarts(c, s)
  \/ \E a \in Adapter : DeleteBegins(a)
  \/ DeleteLooks \/ DeleteEnds
  \/ ClaimBenchmark \/ AdmitBenchmark \/ EndBenchmark

Spec == Init /\ [][Next]_vars

(* Commands and tasks the runtime has accepted are run to their end.       *)
Fairness ==
  /\ \A s \in Server : WF_vars(StartCommand(s)) /\ WF_vars(Reader(s))
  /\ \A c \in Caller : WF_vars(StopCommand(c)) /\ WF_vars(Revert(c))
  /\ WF_vars(DeleteLooks) /\ WF_vars(DeleteEnds)

FairSpec == Spec /\ Fairness
----------------------------------------------------------------------------
(* Properties *)

(* There is one server at a time: the slot is given away only when the     *)
(* process that had it is gone.  It takes the reader's unlocked gap        *)
(* between its check and its clearing to break that.                       *)
OneServer ==
  ~wiped => \A s, t \in Server : child[s] = "alive" /\ child[t] = "alive" => s = t

(* The adapter of a live server is on disk, from the reservation on, as    *)
(* long as the reservation named it.                                       *)
ServedAdapterKept ==
  ~wiped => \A s \in Server :
    child[s] = "alive" /\ Reserved(req[s]) = Effective(req[s]) => Present(Effective(req[s]))

(* A revert finds the adapter it goes back to: deletion looks at the slot, *)
(* then at the last known good, and an adapter that goes from the one to   *)
(* the other between its two looks is seen by the second.                  *)
RevertTargetExists ==
  ~wiped /\ lkg.guarded => Present(lkg.path)

(* A benchmark never measures beside a server.                             *)
BenchmarkRunsAlone ==
  ~wiped /\ benchmark = "measuring" => \A s \in Server : child[s] # "alive"

(* A reservation has a start command behind it that will fill or empty it. *)
ReservationHasOwner ==
  slot.owner # NoOne /\ ~slot.up => pc[slot.owner] \in {"reserved", "spawned"}

(* A revert never stops the server that another revert has just started.   *)
RevertsDoNotFight ==
  \A c, d \in Caller :
    kpc[c] = "signalling" /\ goal[c] # NoOne /\ kpc[d] = "starting" => target[c] # target[d]

(* The slot speaks for the one workload on the GPU, and somebody stands    *)
(* behind a reservation.                                                   *)
SlotIsSound == TypeOK /\ OneServer /\ ReservationHasOwner /\ BenchmarkRunsAlone

(* A revert finds the adapter it goes back to, and what it started stays.  *)
RevertIsSafe == RevertTargetExists /\ RevertsDoNotFight

(* A server that failed though no command asked it to stop is reported     *)
(* when its reader is through: a stop of an older server is not taken for  *)
(* a stop of this one.                                                     *)
CrashIsReported ==
  [][\A s \in Server :
       ~wiped /\ s \notin asked /\ exit[s] = "bad" /\ pc[s] # "over" /\ pc'[s] = "over"
         => lastError' = "bad"]_vars

(* The slot of a dead server is given back.                                *)
DeadServerLeavesSlot ==
  \A s \in Server : slot.owner = s /\ child[s] = "dead" ~> slot.owner # s

(* The revert reservation is given back, whatever the stop and the start   *)
(* in it come to.                                                          *)
RevertIsReleased ==
  \A c \in Caller : goal[c] # NoOne ~> goal[c] = NoOne

(* What mlx.rs:1438 says: a server that a stop command ended leaves no     *)
(* error behind.                                                           *)
StopLeavesNoError ==
  lastError # "stopped"

(* What mlx_artifacts.rs:137 says: the adapter being served is protected.  *)
ServingIsProtected ==
  \A s \in Server : child[s] = "alive" => Present(Effective(req[s]))

(* What mlx.rs:1750 says: a configuration is recorded as last known good   *)
(* only while its pid is the current serving.                              *)
RecordedWhileCurrent ==
  [][lkg' # lkg => slot.owner = lkg'.server]_vars
=============================================================================
