---------------------------- MODULE TrainingLifecycle ----------------------------
(***************************************************************************)
(* commands/mlx.rs, commands/mlx/training_staging.rs and the GPU benchmark *)
(* admission: the one training slot of a KubeMetal process and everybody   *)
(* who reads or writes it under short locks: the start command, the reader *)
(* task that reaps the child and finalizes, the stop command, the          *)
(* guardrails, adapter deletion and the benchmark.  The attempt's files    *)
(* are in AdapterStaging; here an attempt is one step per outcome.         *)
(***************************************************************************)

CONSTANTS Run,      \* start requests, each with one attempt and one child
          Pid,      \* process ids, reused by the OS once a child is reaped
          Name,     \* adapter names
          Kill,     \* stop commands in flight
          NoOne     \* no run, no name, no pid (pid 0), a free lock

ASSUME NobodyIsNobody == NoOne \notin Run \cup Name \cup Pid

VARIABLES
  slot,      \* MlxState.training
  stop,      \* MlxState.training_stop: the pid and the attempt the stop object belongs to
  flag,      \* the stop object of each attempt
  lock,      \* MlxState.adapter_admission while a finalize holds it
  benchmark, \* the benchmark command; benchmark_active is set unless it is idle
  pc,        \* where each start command, then its reader task, stands
  prev,      \* the slot a start command will restore
  pid,       \* pid of the child
  child,     \* the child process; a pid is free again once the child was reaped
  exit,      \* how the child ended
  killed,    \* finalize's local verdict: stopped before the outcome was decided
  attempt,   \* attempt.json, in short
  name,      \* adapter name of the request
  final,     \* whose directory stands at adapters/<name>
  kpc, kpid, \* where each stop command stands, and the pid it was given
  asked,     \* history: runs that were asked to stop while their child lived
  unstopped  \* history: runs whose slot shows that stopping them failed

vars == <<slot, stop, flag, lock, benchmark, pc, prev, pid, child, exit, killed,
          attempt, name, final, kpc, kpid, asked, unstopped>>

Status == {"none", "running", "paused", "done", "error", "killed"}
Slot == [pid : Pid \cup {NoOne}, status : Status, path : Name \cup {NoOne}, run : Run \cup {NoOne}]
NoSlot == [pid |-> NoOne, status |-> "none", path |-> NoOne, run |-> NoOne]

Phase == {"idle", "admitted", "reserved", "prepared", "running", "reaped",
          "promoting", "publishing", "recording", "ended", "refused"}

TypeOK ==
  /\ slot \in Slot
  /\ stop \in [pid : Pid \cup {NoOne}, run : Run \cup {NoOne}]
  /\ flag \in [Run -> BOOLEAN]
  /\ lock \in Run \cup {NoOne}
  /\ benchmark \in {"idle", "claimed", "measuring"}
  /\ pc \in [Run -> Phase]
  /\ prev \in [Run -> Slot]
  /\ pid \in [Run -> Pid \cup {NoOne}]
  /\ child \in [Run -> {"none", "alive", "exited", "reaped"}]
  /\ exit \in [Run -> {"none", "ok", "bad"}]
  /\ killed \in [Run -> BOOLEAN]
  /\ attempt \in [Run -> {"none", "created", "running", "promoted", "failed", "killed"}]
  /\ name \in [Run -> Name]
  /\ final \in [Name -> Run \cup {NoOne}]
  /\ kpc \in [Kill -> {"idle", "tracked", "signalling", "late"}]
  /\ kpid \in [Kill -> Pid \cup {NoOne}]
  /\ asked \subseteq Run
  /\ unstopped \subseteq Run

Init ==
  /\ slot = NoSlot
  /\ stop = [pid |-> NoOne, run |-> NoOne]
  /\ flag = [r \in Run |-> FALSE]
  /\ lock = NoOne
  /\ benchmark = "idle"
  /\ pc = [r \in Run |-> "idle"]
  /\ prev = [r \in Run |-> NoSlot]
  /\ pid = [r \in Run |-> NoOne]
  /\ child = [r \in Run |-> "none"]
  /\ exit = [r \in Run |-> "none"]
  /\ killed = [r \in Run |-> FALSE]
  /\ attempt = [r \in Run |-> "none"]
  /\ name \in [Run -> Name]
  /\ final = [n \in Name |-> NoOne]
  /\ kpc = [k \in Kill |-> "idle"]
  /\ kpid = [k \in Kill |-> NoOne]
  /\ asked = {}
  /\ unstopped = {}

goto(r, label) == pc' = [pc EXCEPT ![r] = label]

(* Mutant of NonTerminal: only a training that runs counts as in progress. *)
OnlyRunning(status) == status = "running"

(* is_non_terminal_training_status *)
NonTerminal(status) == status \in {"running", "paused"}

(* owned_slot: the slot still belongs to this very attempt. *)
Owns(r) == slot.pid = pid[r] /\ stop = [pid |-> pid[r], run |-> r]

(* A process with this pid exists: a child that was not reaped. *)
Exists(p) == \E r \in Run : pid[r] = p /\ child[r] \in {"alive", "exited"}
----------------------------------------------------------------------------
(* run_mlx_finetune *)

(* The first check, without a lock, and the await of the memory and        *)
(* thermal admission, which may refuse as well.                            *)
CheckAdmission(r) ==
  /\ pc[r] = "idle"
  /\ \/ benchmark = "idle" /\ goto(r, "admitted")
     \/ goto(r, "refused")
  /\ UNCHANGED <<slot, stop, flag, lock, benchmark, prev, pid, child, exit, killed,
                 attempt, name, final, kpc, kpid, asked, unstopped>>

(* Mutant of Reserve: the slot lock alone is taken. *)
ReserveDuringFinalize(r) ==
  /\ pc[r] = "admitted"
  /\ benchmark = "idle" /\ ~NonTerminal(slot.status)
  /\ prev' = [prev EXCEPT ![r] = slot]
  /\ slot' = [pid |-> NoOne, status |-> "running", path |-> NoOne, run |-> r]
  /\ goto(r, "reserved")
  /\ UNCHANGED <<stop, flag, lock, benchmark, pid, child, exit, killed,
                 attempt, name, final, kpc, kpid, asked, unstopped>>

(* Reservation under the admission and slot locks, with a second look at   *)
(* the benchmark: the previous slot is kept and a pid 0 slot is put there.  *)
Reserve(r) ==
  /\ pc[r] = "admitted"
  /\ lock = NoOne
  /\ IF benchmark # "idle" \/ NonTerminal(slot.status)
     THEN goto(r, "refused") /\ UNCHANGED <<prev, slot>>
     ELSE /\ prev' = [prev EXCEPT ![r] = slot]
          /\ slot' = [pid |-> NoOne, status |-> "running", path |-> NoOne, run |-> r]
          /\ goto(r, "reserved")
  /\ UNCHANGED <<stop, flag, lock, benchmark, pid, child, exit, killed,
                 attempt, name, final, kpc, kpid, asked, unstopped>>

(* Preparation failed: the previous slot is restored, whatever happened    *)
(* meanwhile.                                                              *)
PrepareFails(r) ==
  /\ pc[r] = "reserved"
  /\ slot' = prev[r]
  /\ attempt' \in {attempt, [attempt EXCEPT ![r] = "failed"]}
  /\ prev' = [prev EXCEPT ![r] = NoSlot]
  /\ goto(r, "refused")
  /\ UNCHANGED <<stop, flag, lock, benchmark, pid, child, exit, killed,
                 name, final, kpc, kpid, asked, unstopped>>

(* create_attempt, spawn, mark_running; mark_running may fail and leave a  *)
(* running child with an attempt that cannot be promoted.                  *)
Prepare(r, p) ==
  /\ pc[r] = "reserved"
  /\ final[name[r]] = NoOne
  /\ ~Exists(p)
  /\ pid' = [pid EXCEPT ![r] = p]
  /\ child' = [child EXCEPT ![r] = "alive"]
  /\ \E state \in {"created", "running"} : attempt' = [attempt EXCEPT ![r] = state]
  /\ goto(r, "prepared")
  /\ UNCHANGED <<slot, stop, flag, lock, benchmark, prev, exit, killed,
                 name, final, kpc, kpid, asked, unstopped>>

(* The slot and the stop object, under the slot lock. *)
PublishSlot(r) ==
  /\ pc[r] = "prepared"
  /\ stop' = [pid |-> pid[r], run |-> r]
  /\ slot' = [pid |-> pid[r], status |-> "running", path |-> NoOne, run |-> r]
  /\ prev' = [prev EXCEPT ![r] = NoSlot]
  /\ goto(r, "running")
  /\ UNCHANGED <<flag, lock, benchmark, pid, child, exit, killed,
                 attempt, name, final, kpc, kpid, asked, unstopped>>

----------------------------------------------------------------------------
(* The child, and run_training_reader up to the wait *)

(* The child ends by itself, or by a signal nobody here sent. *)
ChildExits(r) ==
  /\ child[r] = "alive"
  /\ child' = [child EXCEPT ![r] = "exited"]
  /\ \E how \in {"ok", "bad"} : exit' = [exit EXCEPT ![r] = how]
  /\ UNCHANGED <<slot, stop, flag, lock, benchmark, pc, prev, pid, killed,
                 attempt, name, final, kpc, kpid, asked, unstopped>>

(* stdout ended and child.wait() returned: the OS may give the pid away. *)
Reap(r) ==
  /\ pc[r] = "running"
  /\ child[r] = "exited"
  /\ child' = [child EXCEPT ![r] = "reaped"]
  /\ goto(r, "reaped")
  /\ UNCHANGED <<slot, stop, flag, lock, benchmark, prev, pid, exit, killed,
                 attempt, name, final, kpc, kpid, asked, unstopped>>
----------------------------------------------------------------------------
(* finalize_with *)

(* Mutant of Snapshot: the stop is read from the slot only. *)
SnapshotOfSlot(r) ==
  LET stopped == Owns(r) /\ slot.status = "killed" IN
  /\ pc[r] = "reaped"
  /\ lock = NoOne
  /\ lock' = r
  /\ killed' = [killed EXCEPT ![r] = stopped]
  /\ goto(r, IF /\ ~stopped /\ Owns(r) /\ NonTerminal(slot.status)
                /\ exit[r] = "ok" /\ attempt[r] = "running"
             THEN "promoting" ELSE "publishing")
  /\ UNCHANGED <<slot, stop, flag, benchmark, prev, pid, child, exit,
                 attempt, name, final, kpc, kpid, asked, unstopped>>

(* Under the admission lock: the outcome is decided once, from the slot,   *)
(* the stop object and the child's exit.                                   *)
Snapshot(r) ==
  LET stopped == flag[r] \/ (Owns(r) /\ slot.status = "killed") IN
  /\ pc[r] = "reaped"
  /\ lock = NoOne
  /\ lock' = r
  /\ killed' = [killed EXCEPT ![r] = stopped]
  /\ goto(r, IF /\ ~stopped /\ Owns(r) /\ NonTerminal(slot.status)
                /\ exit[r] = "ok" /\ attempt[r] = "running"
             THEN "promoting" ELSE "publishing")
  /\ UNCHANGED <<slot, stop, flag, benchmark, prev, pid, child, exit,
                 attempt, name, final, kpc, kpid, asked, unstopped>>

(* Mutant of Promote: the admission lock is given back after the rename. *)
PromoteUnlocks(r) ==
  /\ pc[r] = "promoting"
  /\ final[name[r]] = NoOne
  /\ final' = [final EXCEPT ![name[r]] = r]
  /\ attempt' = [attempt EXCEPT ![r] = "promoted"]
  /\ lock' = NoOne
  /\ goto(r, "publishing")
  /\ UNCHANGED <<slot, stop, flag, benchmark, prev, pid, child, exit, killed,
                 name, kpc, kpid, asked, unstopped>>

(* Hashing, verification and promotion, the slot lock not held. *)
Promote(r) ==
  /\ pc[r] = "promoting"
  /\ \/ /\ final[name[r]] = NoOne
        /\ final' = [final EXCEPT ![name[r]] = r]
        /\ attempt' = [attempt EXCEPT ![r] = "promoted"]
     \/ UNCHANGED <<final, attempt>>      \* verification failed, or the name is taken
  /\ goto(r, "publishing")
  /\ UNCHANGED <<slot, stop, flag, lock, benchmark, prev, pid, child, exit, killed,
                 name, kpc, kpid, asked, unstopped>>

(* Mutant of Publish: the admission lock is taken a second time. *)
PublishRelocks(r) ==
  /\ pc[r] = "publishing"
  /\ lock = NoOne
  /\ slot' = [slot EXCEPT !.status = "done", !.path = name[r]]
  /\ goto(r, "ended")
  /\ UNCHANGED <<stop, flag, lock, benchmark, prev, pid, child, exit, killed,
                 attempt, name, final, kpc, kpid, asked, unstopped>>

(* The outcome reaches the slot if the slot still belongs to the attempt   *)
(* and no other terminal outcome stands there; "killed" may be the mark of *)
(* a stop that came too late.                                              *)
Publish(r) ==
  LET live == NonTerminal(slot.status) \/ slot.status = "killed"
      ok   == attempt[r] = "promoted"
  IN
  /\ pc[r] = "publishing"
  /\ slot' = CASE Owns(r) /\ ok /\ live -> [slot EXCEPT !.status = "done", !.path = name[r]]
               [] Owns(r) /\ ~ok /\ (live \/ killed[r]) ->
                    [slot EXCEPT !.status = IF killed[r] THEN "killed" ELSE "error", !.path = NoOne]
               [] OTHER -> slot
  /\ goto(r, IF ok THEN "ended" ELSE "recording")
  /\ lock' = IF ok THEN NoOne ELSE lock
  /\ UNCHANGED <<stop, flag, benchmark, prev, pid, child, exit, killed,
                 attempt, name, final, kpc, kpid, asked, unstopped>>

(* The terminal record of a failed or stopped attempt; the lock goes. *)
RecordFailure(r) ==
  /\ pc[r] = "recording"
  /\ attempt' = [attempt EXCEPT ![r] =
                   IF killed[r] /\ attempt[r] = "running" THEN "killed" ELSE "failed"]
  /\ lock' = NoOne
  /\ goto(r, "ended")
  /\ UNCHANGED <<slot, stop, flag, benchmark, prev, pid, child, exit, killed,
                 name, final, kpc, kpid, asked, unstopped>>
----------------------------------------------------------------------------
(* kill_mlx_process *)

(* The pid is the one the slot shows, whatever its status. *)
Track(k) ==
  /\ kpc[k] = "idle"
  /\ slot.pid # NoOne
  /\ kpid' = [kpid EXCEPT ![k] = slot.pid]
  /\ kpc' = [kpc EXCEPT ![k] = "tracked"]
  /\ UNCHANGED <<slot, stop, flag, lock, benchmark, pc, prev, pid, child, exit, killed,
                 attempt, name, final, asked, unstopped>>

(* request_stop: the intent is on record before any signal. *)
RequestStop(k) ==
  LET hit == slot.pid = kpid[k] /\ NonTerminal(slot.status) IN
  /\ kpc[k] = "tracked"
  /\ slot' = IF hit THEN [slot EXCEPT !.status = "killed"] ELSE slot
  /\ flag' = IF hit /\ stop.pid = kpid[k] THEN [flag EXCEPT ![stop.run] = TRUE] ELSE flag
  /\ asked' = IF hit /\ child[slot.run] = "alive" THEN asked \cup {slot.run} ELSE asked
  /\ kpc' = [kpc EXCEPT ![k] = IF Exists(kpid[k]) THEN "signalling" ELSE "late"]
  /\ UNCHANGED <<stop, lock, benchmark, pc, prev, pid, child, exit, killed,
                 attempt, name, final, kpid, unstopped>>

(* terminate_pid returned Ok: no process of that pid is alive any more. *)
Terminated(k) ==
  LET hit == {r \in Run : pid[r] = kpid[k] /\ child[r] = "alive"} IN
  /\ kpc[k] \in {"signalling", "late"}
  /\ child' = [r \in Run |-> IF r \in hit THEN "exited" ELSE child[r]]
  /\ exit' = [r \in Run |-> IF r \in hit THEN "bad" ELSE exit[r]]
  /\ kpc' = [kpc EXCEPT ![k] = "idle"]
  /\ kpid' = [kpid EXCEPT ![k] = NoOne]
  /\ UNCHANGED <<slot, stop, flag, lock, benchmark, pc, prev, pid, killed,
                 attempt, name, final, asked, unstopped>>

(* A signal to a pid nobody has is a success (ESRCH); any error needs a    *)
(* process of that pid, now or when the command began.                     *)
CanFail(k) == kpc[k] = "signalling" \/ (kpc[k] = "late" /\ Exists(kpid[k]))

(* terminate_pid returned an error: the optimistic "killed" is taken back,  *)
(* with the stop intent, if the slot still shows it.                        *)
TerminateFails(k) ==
  LET hit == slot.pid = kpid[k] /\ slot.status = "killed" IN
  /\ CanFail(k)
  /\ slot' = IF hit THEN [slot EXCEPT !.status = "error"] ELSE slot
  /\ flag' = IF hit /\ stop.pid = kpid[k] THEN [flag EXCEPT ![stop.run] = FALSE] ELSE flag
  /\ unstopped' = IF hit THEN unstopped \cup {slot.run} ELSE unstopped
  /\ kpc' = [kpc EXCEPT ![k] = "idle"]
  /\ kpid' = [kpid EXCEPT ![k] = NoOne]
  /\ UNCHANGED <<stop, lock, benchmark, pc, prev, pid, child, exit, killed,
                 attempt, name, final, asked>>
----------------------------------------------------------------------------
(* Everybody else *)

(* pause_pid and resume_pid, from the guardrail loop or the user: the      *)
(* status is written after the signal, maybe after the child is gone.      *)
SignalTransition(status) ==
  /\ slot.pid # NoOne
  /\ NonTerminal(slot.status)
  /\ slot' = [slot EXCEPT !.status = status]
  /\ UNCHANGED <<stop, flag, lock, benchmark, pc, prev, pid, child, exit, killed,
                 attempt, name, final, kpc, kpid, asked, unstopped>>

(* remove_adapter_checkpoint: all of it under the admission lock.  The     *)
(* serving side of its guard is in ServingLifecycle.                       *)
DeleteAdapter(n) ==
  /\ lock = NoOne
  /\ final[n] # NoOne
  /\ ~(NonTerminal(slot.status) /\ name[slot.run] = n)
  /\ final' = [final EXCEPT ![n] = NoOne]
  /\ slot' = IF slot.path = n THEN [slot EXCEPT !.path = NoOne] ELSE slot
  /\ UNCHANGED <<stop, flag, lock, benchmark, pc, prev, pid, child, exit, killed,
                 attempt, name, kpc, kpid, asked, unstopped>>

(* claim_benchmark_reservation: compare-and-swap before any check. *)
ClaimBenchmark ==
  /\ benchmark = "idle"
  /\ benchmark' = "claimed"
  /\ UNCHANGED <<slot, stop, flag, lock, pc, prev, pid, child, exit, killed,
                 attempt, name, final, kpc, kpid, asked, unstopped>>

(* check_gpu_benchmark_admission: the training slot, then the other checks, *)
(* any of which may refuse.                                                 *)
AdmitBenchmark ==
  /\ benchmark = "claimed"
  /\ \/ ~NonTerminal(slot.status) /\ benchmark' = "measuring"
     \/ benchmark' = "idle"
  /\ UNCHANGED <<slot, stop, flag, lock, pc, prev, pid, child, exit, killed,
                 attempt, name, final, kpc, kpid, asked, unstopped>>

(* The reservation guard is dropped: a result, an error or the timeout. *)
EndBenchmark ==
  /\ benchmark = "measuring"
  /\ benchmark' = "idle"
  /\ UNCHANGED <<slot, stop, flag, lock, pc, prev, pid, child, exit, killed,
                 attempt, name, final, kpc, kpid, asked, unstopped>>
----------------------------------------------------------------------------
Finalize(r) == Reap(r) \/ Snapshot(r) \/ Promote(r) \/ Publish(r) \/ RecordFailure(r)

Next ==
  \/ \E r \in Run : CheckAdmission(r) \/ Reserve(r) \/ PrepareFails(r) \/ PublishSlot(r)
                    \/ ChildExits(r) \/ Finalize(r)
  \/ \E r \in Run, p \in Pid : Prepare(r, p)
  \/ \E k \in Kill : Track(k) \/ RequestStop(k) \/ Terminated(k) \/ TerminateFails(k)
  \/ \E status \in {"running", "paused"} : SignalTransition(status)
  \/ \E n \in Name : DeleteAdapter(n)
  \/ ClaimBenchmark \/ AdmitBenchmark \/ EndBenchmark

Spec == Init /\ [][Next]_vars

(* The reader task and the blocking finalize are always run to their end. *)
FairSpec == Spec /\ \A r \in Run : WF_vars(Finalize(r))
----------------------------------------------------------------------------
(* Properties *)

(* Once a run is over, its slot and its attempt tell the same story: done  *)
(* if and only if it was promoted.  Neither a stop that lands during       *)
(* hashing nor the next start may come between the two; a stop that fails  *)
(* leaves its error there, and only such a stop.                           *)
PublishedSlotMatchesAttempt ==
  slot.run # NoOne /\ pc[slot.run] = "ended" =>
    /\ slot.status = "done" => attempt[slot.run] = "promoted"
    /\ attempt[slot.run] = "promoted" => slot.status = "done" \/ slot.run \in unstopped

(* A run is shown as killed only if its own stop object was set: the reader *)
(* of an older run whose pid was given to the new child never speaks for it.*)
KilledWasAsked ==
  slot.status = "killed" => flag[slot.run] \/ killed[slot.run]

(* A run that was asked to stop while its child lived is never published,  *)
(* neither when the slot was reused by the next run nor when the signal    *)
(* failed.                                                                 *)
StopIsHonoured ==
  \A r \in asked : attempt[r] # "promoted"

(* The stop intent survives the slot: a run stopped in time whose intent   *)
(* was not taken back ends as killed, even if the next run took the slot.  *)
StopIsRemembered ==
  \A r \in asked : pc[r] = "ended" /\ flag[r] => killed[r]

(* Two trainings never compete for the GPU unless one of them was told to  *)
(* stop: paused counts as in progress.                                     *)
OneUnstoppedTrainer ==
  \A q, r \in Run : child[q] = "alive" /\ child[r] = "alive" /\ q # r => {q, r} \cap asked # {}

(* Between the rename and the slot's "done" nobody can delete the adapter. *)
PromotedSurvivesUntilPublished ==
  \A r \in Run : pc[r] = "publishing" /\ attempt[r] = "promoted" => final[name[r]] = r

(* A benchmark never measures beside a training that nobody stopped.       *)
BenchmarkRunsAlone ==
  benchmark = "measuring" => \A r \in Run : child[r] = "alive" => r \in asked

(* The slot of a run that is over never blocks the next one: no late pause *)
(* or resume brings it back to life.                                       *)
SlotNeverStuck ==
  slot.run # NoOne /\ pc[slot.run] \in {"ended", "refused"} => ~NonTerminal(slot.status)

(* The slot tells the truth about its run: what became of it, that a stop  *)
(* was asked for, and that it is over.                                     *)
SlotTellsTheTruth ==
  TypeOK /\ PublishedSlotMatchesAttempt /\ KilledWasAsked /\ SlotNeverStuck

(* A stop that came in time has the last word, whoever has the slot by     *)
(* then: the run is not published, and it ends as killed.                  *)
StopHolds == StopIsHonoured /\ StopIsRemembered

(* No two workloads share the GPU, unless one of them was told to stop.    *)
WorkloadsExclude == OneUnstoppedTrainer /\ BenchmarkRunsAlone

(* Once the child is gone, its reader finishes: the outcome is recorded.   *)
ExitIsRecorded ==
  \A r \in Run : pc[r] = "running" /\ child[r] = "exited" ~> pc[r] = "ended"

(* What training_staging.rs:267 says of the file system: the adapter a     *)
(* published slot points to is there.                                      *)
SlotPathExists ==
  slot.path # NoOne => final[slot.path] # NoOne

(* What mlx.rs:1410 promises: a training whose process still lives is not  *)
(* shown as killed once the stop command is over.                          *)
KilledMeansStopped ==
  slot.status = "killed" /\ child[slot.run] = "alive" =>
    \E k \in Kill : kpc[k] # "idle" /\ kpid[k] = slot.pid
=============================================================================
