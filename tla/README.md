# TLA+ models of KubeMetal

KubeMetal is a desktop program (Tauri: a Rust backend and a React frontend) that trains and
serves MLX models on a Mac and manages a local Kubernetes MLOps stack beside them. Every user
action is an asynchronous command on a multi-threaded runtime; the commands, the background
tasks they leave behind and a few file system records share state through short locks. The
models here are about that sharing: who may write a slot when, what a crash leaves on disk, and
what a late answer finds when it arrives.

## 1. Inventory

### The system's parts

| Part | State | Operations | How it meets the others |
|---|---|---|---|
| Adapter staging (`services/adapter_staging.rs`, `commands/mlx/training_staging.rs`) | `adapter-staging/<id>/attempt.json`, `out/`, its `manifest.json`; `adapters/<name>` | create, mark running, seal, verify, promote (an exclusive rename), fail, reconcile, list | driven by the training commands and the reader task under `adapter_admission`; read by the inventory and by recovery in the same or another process |
| Training slot (`commands/mlx.rs`) | `MlxState.training`, `training_stop`, a stop object per attempt | start (reserve, prepare, spawn, publish), reap and finalize, stop, pause and resume | shares `adapter_admission` with serving and deletion, and `benchmark_active` with the GPU benchmark |
| Serving slot (`commands/mlx.rs`, `services/mlx_serving_recovery.rs`) | `MlxState.serving`, `last_serving_error`, `last_known_good_serving`, `reverting_serving` | start, stop, kill, revert; the reader task; the health check | protects adapters from deletion; excludes the benchmark |
| Adapter deletion (`remove_adapter_checkpoint`, `services/mlx_artifacts.rs`) | none of its own | delete one adapter directory | reads the three slots under `adapter_admission` |
| GPU benchmark (`commands/metrics.rs`, `services/gpu_benchmark.rs`) | `benchmark_active` | claim, admit, measure, release | excludes training and serving |
| Guardrails (`commands/guardrails.rs`) | resume overrides, caffeinate flag, events | pause, resume, the 5 s loop | signals the training child, writes the slot's status afterwards |
| Orphan markers (`services/mlx_lifecycle/`) | `mlx-markers/<kind>-<pid>.pid` | write, remove, scan, terminate; sleep detection | written after a spawn, removed by the readers |
| Checkpoints (`services/adapter_staging/checkpoints.rs`, `services/artifact_manifest.rs`) | `checkpoints/<step>/`, the pin in `attempt.json` | record a checkpoint, resume from one | driven by the reader of a training; a resume makes a new attempt |
| Deploy operations (`services/deploy_operation.rs`, `commands/provision.rs`, `commands/kagent.rs`) | `in_flight`, `active_ids`, `completed` | describe, provision, install | confirmed in the frontend, executed by kubectl and helm |
| Deploy target (`services/deploy_target.rs`, `commands/deploy_target.rs`, `useDeployTarget.ts`) | `deploy-target.json`, `ACTIVE`, `ACTIVE_BRIDGE`; the card's draft | get, save, preflight, detect the bridge address | every deployment reads it; the relay listens on the address it found |
| Inference relay (`commands/local_inference_bridge.rs`) | one task slot | start, stop | lets pods of the cluster reach the local runtime |
| Cluster lifecycle (`services/lifecycle_guard.rs`, `commands/colima.rs`) | one atomic token | start, stop | the virtual machine the local target runs on |
| Port forwards (`commands/port_forward.rs`, `services/ports.rs`) | the forward processes, the assigned ports | start, open UI, stop | every client of the stack reads the ports |
| Local inference runtime (`commands/local_inference.rs`) | one process slot, `stopping_pid`, an exit record | start, stop | none with the MLX slots |
| Requests to the runtime (`services/local_inference.rs`, `commands/local_inference_ops.rs`, `commands/omlx_settings.rs`) | none; the server's | preflight, load, unload, settings | measures the host, reads the training slot |
| Runtime cache (`commands/local_inference_cache.rs`) | none; a directory tree | preview, clean up | the runtime writes to the same tree |
| Prefect runner (`commands/prefect.rs`) | one process slot with a reservation, two installation states | install, start, stop | none |
| Model hub (`commands/modelhub.rs`) | a status per model; `models/`, the object store, the registry | download, list, upload, register | its directories are read by training and serving |
| Support bundle (`services/support_bundle.rs`) | a directory with a manifest | generate, verify | reads the logs of the other parts |
| Agent execution authority (`commands/agent_execution_security.rs`) | the ledger of consumed approvals | resolve, grant, verify, claim | a library for an executor to come |
| Data ingest, RAG, health, access, frontend, scripts | status fields, files | I/O and pure functions | commands only |

### Where it is hard, and what makes it correct

* **Staging**: a crash between any two file operations; a record write that reports an error
  although it took effect; two processes on one directory; a name taken between the check and
  the rename. Correct means: nothing trained is lost, nothing unverified is published, a
  published adapter is never reported as failed or unknown, and a name is never overwritten.
* **Training**: a start waits between the reservation and the spawn; the reader hashes for
  minutes before it writes the slot; a stop waits between the mark and the signal; pids are
  reused. Correct means: the slot and the attempt tell one story, a stop reaches the run it was
  meant for, two workloads share the GPU only while one of them is being stopped.
* **Serving**: reader, stop and health check look at the slot under one lock and write under
  another. Correct means: one server, its adapter on disk, a crash told from a stop, and a way
  back that still exists when it is taken.
* **Guardrails**: a signal is sent first, its status written later; the loop decides on a copy of
  the overrides. Correct means: paused is shown exactly while the process is stopped, a cause the
  user overrode does not pause again, and no late write revives a finished run.
* **Deploy**: the target may change under an open dialog or a running detection, a call may arrive
  twice, a step may fail in the middle. Correct means: what was confirmed is what is applied, once,
  one operation per target, the target is given back, and no address that no cluster reached is used.
* **Process slots** (forwards, runtime, runner, relay): a look, an await, a write. Correct means: what
  runs is known to the program and a stop reaches it, and an exit is told for what it was.
* **Files beside the program** (markers, checkpoints, caches, models, bundles): others read, change
  and remove them between two steps. Correct means: only an orphan is ended and every orphan can be
  found, a resume starts from the pinned bytes, nothing in use is removed, "done" means whole, and a
  bundle that passes is the one that was written.
* **Authority**: two executors with one approval. Correct means: one action, inside every window.

`PROJECT.json` lists the hazards at their lines, with the properties that would catch them.

## 2. Modules

| Module | Models | State and actions |
|---|---|---|
| `AdapterStore` | the promise, no code | verdict of an attempt, owner of a name; `Seal`, `Publish`, `Reject`, `Vacate`, `Occupy` |
| `AdapterStaging` | `adapter_staging.rs`, `training_staging.rs`, the file side of deletion | files (`disk`, `sha`, `out`, `manifest`, `owner`, `kept`), memory (`mem`, `pc`, `admission`); one action per file operation, three outcomes for each record write |
| `TrainingLifecycle` | the training slot, its start, reader, finalize and stop, the pause, deletion, the benchmark | `slot`, `stop`, `flag`, `lock`, `pc` per run, `kpc` per stop command; one action between two awaits or locks |
| `ServingLifecycle` | the serving slot, its start, reader, health check, stop, kill, revert, deletion, the benchmark | `slot`, `lastError`, `lkg`, `pc` and `hc` per server, `kpc`, `target`, `goal` per command; a deletion is `DeleteBegins` (the look at the slot), `DeleteLooks` (the one at the last known good) and `DeleteEnds`, with `deleting` and `cleared` between them |
| `Guardrails` | `guardrails.rs`: pause, resume, the guard loop | `gSlot`, `gProc`, `overrides`, `gLoop` per training, `gCmd` per command |
| `CheckpointResume` | `checkpoints.rs` with the manifests it uses | `record`, `held`, `snap` (weights, manifest, durable), the reader's `ckTask`, `resume` per attempt |
| `OrphanMarkers` | `mlx_lifecycle/`: markers, scan, termination, and the spawns and readers of `mlx.rs` that write and remove markers | `proc`, `group`, `mark`, per instance: `live`, `slot`, `kid`, `stage`, `op` |
| `DeployOperations` | the deploy guard, its two callers, the saved target, the colima token | `saved`, `call`, `inFlight`, `activeIds`, `completed`, `token` |
| `DeployTargets` | the target file and its caches, the card, the detection of the bridge address, its use by a deployment, the relay | `dtFile`, `activeCtx`, `activeBrg`, `card`, `detect`, `relay`, `relaySlot` |
| `PortForwards` | `port_forward.rs`, `ports.rs` | `jobs`, `kagentUi`, `forward` per process, `assigned`, `pfCall` per command; pgrep answers for any part of the services (`Matching`) |
| `LocalInference` | the managed oMLX process | `managed`, `stopping`, `lastExit`, `omlx` and `watcher` per process, `liCall` |
| `RuntimeClient`, `RuntimeRules` | requests to the oMLX server; the decision on a model load as a function, in which a limit that could not be measured (`Unknown`) and one measured as 0 differ | `server`, `served`, `req` per request |
| `CacheCleanup` | the clean-up of the runtime's cache | `present`, `fresh`, `walk`, the card's `preview` and `shownUp` |
| `PrefectRunner` | the runner slot, its reader, the two installations | `runnerPid`, `runner` and `rdr` per process, `runCall`, `setup` |
| `ModelHub` | downloads, uploads, registration | `download`, `task`, `local`, `upload`, `bucket`, `registry` |
| `SupportBundle` | generation and offline verification of a bundle | `logs`, `gen`, `bundle`, `manifest`, `verifier` |
| `ExecutionAuthority` | grants, approvals, the one-shot claim | `now`, `grants`, `approvals`, `consumed`, `claim`; an invocation carries its digest beside the content the digest was made of |
| `MC*` | small instances for TLC; `MCHost` (safety) and `MCHostLive` (liveness, with `ServingLifecycle` as an instance) put the components that share no state behind one variable that says which of them runs | symmetry sets and the requests of a run |
| `AdapterStaging_proofs`, `TrainingLifecycle_proofs`, `ServingLifecycle_proofs`, `Guardrails_proofs` | theorems about the modules they are named after | |
| `Deploy_proofs` | theorems about `DeployOperations`, `DeployTargets`, `PortForwards` | |
| `LocalRuntime_proofs` | theorems about `LocalInference`, `RuntimeClient` with `RuntimeRules`, `CacheCleanup` | |
| `Stores_proofs` | theorems about `CheckpointResume`, `ModelHub`, `SupportBundle` | |
| `Processes_proofs` | theorems about `PrefectRunner`, `ExecutionAuthority`, `OrphanMarkers` | |

The map from every definition to its lines is in `PROJECT.json`. Names follow the source
(`write_record`, `persist`, `goto` excepted). A definition that begins with "Mutant of" is a
variant of the one it names with a plausible bug; nothing but its property's check uses it.

**Atomicity.** One action is the code between two points where another command, task or
process can act: an await, a lock given back, a file operation visible to another process.
`finalize` runs on a blocking thread under `adapter_admission`, but its file operations are
separate actions, as other processes and crashes do not care for that lock. `Reserve` in both
slot models does what the code does with all the locks held.

**Data.** Content is `full` or `altered`; a manifest is the content it was computed from. A real
manifest also holds its creation time, so two attempts never have the same hash even for equal
bytes: where recovery compares a record with the directory under its name, the model asks whose
directory it is as well. Adapters, names, servers, targets and ids are model values. A server's pid is its
identity (`ServingLifecycle`); in `TrainingLifecycle`, where the code guards against it,
a pid is given out again once its child has been waited for.

**Left out of the modelled code**: what a training leaves in its process group once it has been
waited for (a child process of its own that ignores SIGTERM would let `terminate_pid` fail late); the attempt limit of the health check (a check that gives
up is one that never passes), wording, events, ports, memory and heat (each admission that
reads them may refuse at any time), path validation (pure). In a revert the gate and the stop
that follows are one action when a server has to be stopped: between them nothing is read.

## 3. Runs

| Run | Bounds | Distinct states | What it shows |
|---|---|---|---|
| `staging` | 2 processes, 2 attempts, 1 name | 359,236 | every property of staging, the inductive invariant, the refinement of `AdapterStore`, and that finalize gives the lock back |
| `training` | 2 runs, 2 pids, 1 name, 1 stop | 1,031,376 | the slot, the attempt, the stop and the benchmark; a child that ended is recorded |
| `serving_safety` | 2 servers, 1 adapter, 2 commands | 2,648,976 (symmetry) | one server, its adapter, the revert target, the benchmark, crash or stop |
| `host` | thirteen components, one at a time; see below | 1,739,434 | the safety of everything else |
| `host_live` | 2 calls, 1 lifecycle call; 2 trainings, 1 guard command; 2 runtimes, 1 call; 2 servers, no adapter, 1 command | 229,560 | a target is given back, a guard loop ends, a dead runtime and a dead server leave their slots, a revert ends |
| `training_killed_alive` | 2 runs, 1 stop | violated | finding: a failed stop leaves `killed` on a live process |
| `training_dangling_path` | as above | violated | finding: a failed start restores a slot whose adapter is gone |
| `serving_stop_error` | 2 servers, 1 adapter, 1 command | violated | finding: a stop is reported as a crash |
| `serving_unprotected` | as above | violated | finding: the reader wipes a newer reservation |
| `serving_late_record` | as above | violated | finding: a health check records a server that is gone |
| `forwards_left` | 2 jobs, 2 contexts, 3 forwards, 1 command | violated | finding: a forward to another cluster survives a stop |
| `bundle_limit` | 2 logs, one of which grows when it is masked | violated | finding: the writer emits a file its verifier refuses |

**What each property says.** Several properties are conjunctions of named parts, which the modules
state and comment one by one.

| Run | Property | What it says |
|---|---|---|
| `staging` | `OneStory` | files, records and memory tell one story: the inductive invariant, in which a failure keeps the staging, a published attempt is never failed and a promoted one has left staging; and no published adapter reads as unknown |
| | `NothingIsTakenBack` | no name is overwritten, no terminal record changes |
| | `OnlyVerifiedIsPublished`, `ImplementsStore`, `AdmissionIsReleased` | only verified content is published; the refinement; the lock comes back |
| `training` | `SlotTellsTheTruth` | the slot of a run that is over matches its attempt unless a stop of it failed, killed was asked for, the slot is never stuck |
| | `StopHolds` | a stop that was asked for is neither lost by a new run nor forgotten by a done |
| | `WorkloadsExclude` | one unstopped trainer; the benchmark runs alone |
| | `PromotedSurvivesUntilPublished`, `ExitIsRecorded` | a promoted adapter cannot be deleted before the slot shows it; every exit is recorded |
| `serving_*` | `SlotIsSound` | one server, every reservation has an owner, the benchmark runs alone |
| | `ServedAdapterKept`, `RevertIsSafe`, `CrashIsReported` | the served adapter stays; the way back exists, also when a deletion looks at slot and record under two locks, and two reverts do not fight; a crash is reported |
| `host` | `OperationsExclude`, `AppliesWhatWasConfirmed`, `NoReplay` | deploy: one operation per target, one lifecycle command, cached means done; the confirmed target; each id once |
| | `CachesFollowFile`, `OnlyReachedAddresses`, `RelayIsOwned` | target: the caches agree with the file at rest; no unverified address is deployed or listened on; the relay can be stopped |
| | `PausedMeansStopped`, `UserOverridesHold`, `FinishedStaysFinished` | guardrails |
| | `RuntimeIsOwned`, `ExitEvidenceIsTrue`, `LoadsAreJudged` | runtime and requests: what runs is in the slot, expected exits were asked for, a success was carried out and a denied load never was |
| | `LosesNothingInUse` | cache: links, the root and fresh files stay |
| | `ForwardsAreKnown` | forwards: none is lost but those given up; a stop ends what the tables held, of every context, and of the active target what pgrep listed; links lead to them |
| | `OnlyOrphansAreStruck`, `OrphanKeepsMarker` | markers: no stranger and no child of a running instance is signalled; an orphan can be found |
| | `RunnerIsReachable`, `CheckpointsAreGenuine` | one runner, which the slot names; a resume starts from the pinned weights and a record never outlives its snapshot |
| | `ExecutionIsAuthorised` | authority: scope, policy and window of the session; an approval of that grant, resolution and digest, used once; the granted invocation itself, if nobody changed it under its digest |
| | `DownloadsAreWhole`, `BundleTellsTheTruth` | model hub, bundle |
| `host_live` | `TargetIsReleased`, `GuardLoopEnds`, `DeadRuntimeLeavesSlot`, `DeadServerLeavesSlot`, `RevertIsReleased` | what is held comes back: the target of an operation, the loop of a training, the slots of what died, the claim of a revert |

Some properties hold only outside a race that the code leaves open; each says so with a history
variable that records that race (`wiped`, `unstopped`, `gCrossed`, `taken`, `liCrossed`, `unmarked`, `overlapped`,
`givenUp`, `relayCrossed`, `dtMixed`, `moved`, `snatched`, `crossed`, `hubOverlapped`). They are
listed under "Observations": the property then says what holds in spite of the race.

**Why the bounds are enough.** Every hazard in the list is between two parties: the old run and
the new one, the command and the task, the operation and its copy. Two runs and two pids give
the reuse of a slot by a new run with a new or a recycled pid; one name makes both attempts
compete for it and for the adapter that a slot protects. Two processes with one root give
recovery by one while the other is in the middle of a promotion. Two commands give two reverts
or a revert and a stop. Training has one stop in its run, for liveness without symmetry; with two
stops its safety was checked by hand (974,000 states with symmetry), and proved for any number; `Guardrails`
likewise was checked by hand with two commands (1.3 million states). `serving_safety` was also run once by hand with two adapters, and with
model paths that are adapter directories, one command: 15 million states, no error; a second
adapter adds no hazard, as adapters are compared for equality only. One operation id and "no id"
give equal, different and absent ids. In `host`: three contexts, one managed, and three edits give
a change of context under a detection and a second deployment; two relays and two runtimes give a
successor; one pid that is born three times gives an orphan, a stranger and a child with one
number, in two instances; two tries with two steps and one harm give a resume from an older or a
damaged checkpoint; two jobs, one with a single port and one with two, and three forwards give a
port that is taken; two logs, one with a name the verifier refuses, give each way to be left out; two
executors and two approvals, with a clock of four readings, give a claim that outlives its window, and four
invocations give the one resolved, another one, and the first with its arguments and policy, or its
scope, changed under the digest it had. The limits of a load are 0, a
small one, one that saturates, and none.
Larger instances of the other components of `host` were checked by hand once, without an error:
`OrphanMarkers` with two pids in two instances (8.2 million states),
`PortForwards` with two overlapping calls (10 million), `DeployTargets` with two detections of each
kind (3.8 million), `CheckpointResume` with two harms (2.2 million), and `ModelHub` with three repos of which two share a directory.
What the bounds cannot show, a chain of three or more parties, is what the proofs are for.

**Deadlock** is checked in the staging, training and serving runs: each of these models always has
a step of its environment left, so a state without any would be a mistake of the model or a command
stuck in a guard. It is not checked in `host`, `host_live` and `bundle_limit`, where a component
stops when it has used its bounded inputs (processes that can be born once, a clock, a bundle that has been
verified); that what must go on does is what the liveness properties say.

**Symmetry** is used for safety only, on sets whose members no definition tells apart.

**Conditions of the serving properties.** `wiped` is history: a reader emptied a slot that was
no longer its server's. It is the race of `serving_unprotected`, and four properties are stated
outside it so that they say what holds in spite of it; that run says what does not.
`lkg.guarded` and the condition of `ServedAdapterKept` likewise set aside the request whose
reservation names another adapter than the one that is served (see the hazard at `mlx.rs:1578`).

### Fairness

* `AdapterStaging`: weak fairness of each finalize step. A thread that holds the admission lock
  waits for the file system alone; a crash is possible all the time and never required.
* `TrainingLifecycle`: weak fairness of a run's reader and finalize, a spawned task followed by
  a blocking task, neither of which is ever cancelled. Not of the child: it may run for ever.
* `ServingLifecycle`: weak fairness of the start command, of the reader, of stop and revert
  commands and of the deletion with its second look. The signal is among them: `terminate_pid` ends
  with SIGKILL or with an error. Not of the server, the user, the health check or the benchmark.
  `MCHostLive` asks the same of the instance it runs, but for the deletion, as there is no adapter.
* `DeployOperations`: weak fairness of the steps of an operation that has the guard. kubectl and
  helm are started with request limits and end or fail.
* `Guardrails`: weak fairness of a loop's tick, of the end of a training and of a command under
  way. The loop is a spawned task with a 5 s interval that is never cancelled, and its measurements
  are local calls. Not of the user, nor of the child.
* `LocalInference`: weak fairness of the watcher, a spawned task that waits for the process, and of
  commands under way, which wait for a port with a limit. Not of the process.
* `MCHostLive` states the fairness of these four parts for the one that runs; a part that does not
  run owes no step.

## 4. Findings

Seven runs show where the code and its own comments disagree; `PROJECT.json` quotes them.

1. `serving_stop_error`: the comment above `run_serving_reader` relies on the slot being emptied
   right after the signal. It is emptied after the wait, and the reader is usually faster.
2. `serving_unprotected`: check and clearing in `run_serving_reader` are under separate locks.
3. `serving_late_record`: so are the check and the record in `record_serving_success`.
4. `training_killed_alive`: the optimistic `killed` is taken back only in the slot it is found in.
5. `training_dangling_path`: the rollback of a failed start restores a slot from before its awaits.
6. `bundle_limit`: the writer bounds the source of a log, not what masking makes of it; the
   verifier says the writer never emits such a file.
7. `forwards_left`: the panel drops a forward that does not answer without ending it, and a stop asks
   pgrep for the deploy target's context only; the comment in `stop_port_forward` says a stop leaves
   nothing the app started.

### Observations

Seen while modelling and in the models as transitions or exceptions, without a run of their own. Most are
claimed otherwise by no text of the repository; where one is, it is named:

* `stop_prefect_runner` during the reservation signals group 0, the program's own
  (`prefect.rs:516`). A deliberate stop is recorded as "exited unexpectedly", since the slot is
  emptied last. `run_runner_reader` looks and clears in two lock scopes, as its MLX sibling does.
  `terminate_process_group` sends SIGKILL only when the leader survived.
* Two stops of training: one whose pid was given to the next run meanwhile fails late and turns the
  other's `killed` into `error`, also when that run is being promoted; `finalize` then leaves the
  error beside a promoted attempt. `unstopped` is the history of such runs, and
  `PublishedSlotMatchesAttempt` excepts them.
* Two overlapping starts of the oMLX runtime, or of the relay, each pass the check; the first one
  started is then unknown to the program. A start clears the stop mark of a stop that still waits.
* A pause and a resume in flight may write their statuses in the other order than their signals
  were sent. A resume that stores its override only after other commands have paused and resumed the
  same training is not in the copy of a measurement under way, which may pause for that cause once
  more; `wished` counts the resumes whose pause was still standing.
* Overlapping forward commands may lose a child. A pgrep that fails counts as "no forwards"
  (`port_forward.rs:61-72`), so a stop may also leave a forward of the deploy target that had left the tables.
* The orphan scan removes a marker when the leader is dead although its group survives; a marker
  is removed by its path, and may be a successor's.
* Detection: when the context is changed under it, the late answer is put into the card of the new
  context (`useDeployTarget.ts:111-119`), from where a save and a deployment take it. Two comments say
  otherwise: `useDeployTarget.ts:71` ("이전 대상의 사전점검·브리지 검증 결과는 무효다": what was verified for the
  previous target is void) and `deploy_target.rs:34` ("클러스터 **내부에서** 실제로 도달을 확인한 주소만": only an
  address that was reached from inside the cluster). `OnlyReachedAddresses` holds outside that race (`moved`).
  A target file that does not parse cannot be chosen anew in the card, which has no target then.
  "Open kagent" may lead to another context than the panel's.
* Authority: `validate_exact_approval` compares the digest an invocation carries and its scope;
  nothing makes the digest again from the arguments, and the policy version is compared only when
  the grant is issued (`agent_execution_security.rs:286-294`, `305-307`). An invocation whose public
  fields were changed after it was resolved passes for the one it was. `RunsWhatWasGranted` says so: it is
  about invocations whose digest is that of what they say (`Intact`).
* A memory limit measured as 0 denies every load of known size (`local_inference_ops.rs:348-354`),
  while the card shows a limit of 0 as one that is not available (`LocalInferenceOpsCard.tsx:205`).
* A clean-up may run while the runtime does, when the card's status is old.
* Model hub: the directory of a model is not injective (`a/b__c`, `a__b/c`), so that one download
  may write into another (`DownloadsAreWhole` is stated for repos that are `Alone`); an upload during a
  download stores what is there; a half-downloaded model is listed as local.
* Bundle: a log whose name has `:` or `\` fails the verification, as does a `.DS_Store` left by Finder.
* `get_mlx_status` clears the reverification flags of an empty slot (`docs/02-requirements.md:187`
  asks for more). Two unknown cache identities count as unchanged.

## 5. Proofs

`AdapterStaging_proofs` proves, for any numbers of processes, attempts and names, and assuming
only that the special values are none of them (`SpecialValues`):

* `TypeCorrect`, `Invariant`: `Spec => []IInv`.
* `StagingIsKept`, `PublishedNotFailed`, `PromotedLeft`, `AlwaysRecognised`: the state
  properties of the run, from `IInv`.
* `NoOverwrite`, `PublishesVerified`, `TerminalStays`: the action properties, from `IInv` and the
  one action that can disturb each.
* `Refinement`: `Spec` implements `AdapterStore!StoreSpec` under `verdict <- StagedVerdict`;
  `StorePromise`: what the store gives to its users.

None of the four state properties is inductive. That a published attempt is not failed needs to
know that the code that records failures is never reached after the rename; that recovery writes
`promoted` only for an attempt that left staging needs that a record says verified whenever
its out/ is gone; and both need that the value in memory is the one on disk where the code goes
on from it, in spite of writes that land and report an error. `IInv` says just that: where the
driving code stands (`PhaseAgreesWithFiles`) determines the record, the value in memory, and
whether out/ is there, and a name held by an attempt comes with its record
(`NamesAgreeWithRecords`). TLC checks `IInv` first (run `staging`), then one lemma per action
shows that the action keeps it.

For the refinement, the rename maps to `Publish` and needs `IInv` at the phase `rename`; the
write that lands as verified maps to `Seal`, a failure record to `Reject`, and all else
stutters, among them the record that says promoted.

Of `DeployOperations`, `Deploy_proofs` proves, for any numbers of calls, ids, targets and lifecycle commands,
from `ColimaIsATarget` and `NoneIsNothing`:

* `TypeCorrect`, `Invariant`: `Spec => []IInv`.
* `TargetsAreExclusive`, `ConfirmedIsApplied`, `IdsRunOnce`, `CachedWasDone`,
  `LifecycleIsExclusive`: the safety properties (run `host`), the last three as `OperationsExcludeAlways`.
* `NothingLeaks`: every target and every id that is taken belongs to a call at work.

Here the properties speak of calls and the guard of sets, so `IInv` ties the two. A call at work
has its target and its id in the sets, and shares neither (`GuardsAreHeld`): without the first
half the test of `in_flight` would not exclude the calls at work, without the second the release
by one call would free what another holds. That an id completes once rests on
`RunsAreRemembered`: an id that completed has an entry until its count is forgotten with it, and
an id at work has none; it needs the ids of calls at work to differ. `BeginEffect` and
`BeginForgets` say once what `acquire_deploy_guard` takes and what it forgets; each later
lemma keeps one part of `IInv` with one step per action.

Of `ExecutionAuthority`, `Processes_proofs` proves, for any sessions, grants, approvals and executors:

* `ExecutionInvariant`: every grant lies in its session (attenuation), a claim under way has the
  digest, resolution and scope of its grant and its approval, and so has all that ran; an approval
  that ran is consumed.
* `ExecutionIsAuthorisedThm`: what ran was within its session's scope, policy and window, approved if it
  had to be, and once per approval; and it is the granted invocation, if both are as they were resolved.
  The invocations presented are any set, changed ones included. None of the parts is inductive: the
  executor checks windows and coverage, and marks the approval only in a later step, so the
  invariant carries the checks over the gap, and the ledger, not the check, is what makes two claims
  exclude each other. That equal digests mean equal invocations (`SameDigestSameInvocation`) is where
  `Intact` is needed: a digest is compared, never made again.

`TrainingLifecycle_proofs` proves, for any runs, pids, names and any number of stop commands, from
`NobodyIsNobody`:

* `TrainingInvariant`: `Spec => []TrInv`; from it `SlotAlwaysTrue`, `StopAlwaysHolds`,
  `WorkloadsAlwaysExclude` and `PromotedAlwaysSurvives`, the four safety properties of the run
  `training`. The run has one stop command and two runs; the theorems have no such bound.

The properties speak of runs, children and attempts; the code looks at a slot and at pids that are
used again. `TrInv` ties them. `SlotIsSane`: a slot with a pid is that of its run, and the stop
object belongs to the same run, so the comparison by pid in `owned_slot` is one of runs.
`ReservationStands`: from the reservation to the publication nobody else writes the slot, so the
rollback puts back what is still true. `SlotShowsRunner`: whoever runs unasked has a slot that counts
as in progress, which is what start and benchmark look at. `AskedIsStopped`: a run that was asked
never gets such a slot back, so the decision of finalize cannot miss the stop. `PromotingOwns`: as
finalize holds the admission lock, a run that is being promoted keeps its slot.

`ServingLifecycle_proofs` proves, for any servers, adapters, requests and commands, from `NamesDiffer`
and `RequestsAreRequests`: `SlotAlwaysSound`, `ServedAdapterAlwaysKept`, `RevertAlwaysSafe` and
`CrashAlwaysReported`, the four properties of `serving_safety`, outside the reader's gap (`wiped`) as
they are stated. `SlotIsHeld` says that from its reservation on a server has the slot as long as it
lives: stops empty it when the process is gone, a failed start only its own. It is what one server
at a time, the benchmark and the report of a crash rest on. `PathIsKept` follows an adapter through
the lock that deletion holds: named by the reservation, found by the spawn, not being deleted in
between; `GoodIsKept` carries that over to the last known good one at the moment of the record, and from
the second look of a deletion on says that what it removes is not that one: an adapter that moved from
the slot to the record after the first look is met by the second, in this order of the two only.
`CommandsAgree`: one revert has a goal, and the server a stop aims at counts as asked until its
reader is through.

`Guardrails_proofs` proves, for any trainings, commands and settings, `PausedAlwaysMeansStopped`,
`OverridesAlwaysHold` and `FinishedAlwaysStays`. `LastSignalWrites`: as long as no signal crossed an
unwritten status, the one still to be written is that of the last signal. `WishesAreStored`: what
the user wished is in the overrides until the loop ends and in its copy while it measures, since a
loop never measures a training it has paused (`SlotAgrees`).

Of `LocalInference`, `LocalRuntime_proofs` proves, for any processes and commands, `RunningIsManaged` and `EvidenceIsTrue`.
Neither is inductive. The first needs that, until two starts overlap, one start at a time is between
its look at the slot and its spawn, with nothing running meanwhile (`StartsAlone`); the second, that
what was spawned is not watched yet (`SpawnedIsNew`), that a watcher gets past its wait only for a
process that is gone (`WatchedIsGone`), and that the mark of a stop is where the watcher will look
unless another command took it away (`MarksAreKept`).

Of `PrefectRunner`, `Processes_proofs` proves `RunnerAlwaysReachable`, for any runners, commands and environments: a
reservation stands until its start publishes (`ReservationHolds`), and the slot is emptied only of
runners that ended (`EmptiedIsGone`), outside the two gaps that `crossed` and `struckSelf` record.

Of `DeployTargets`, `Deploy_proofs` proves `CachesAlwaysFollowFile`, `OnlyReachedAddressesEver` and
`RelayIsAlwaysOwned`, for any clusters, interfaces, calls of get and relays. The first speaks of a
state at rest, so `CallsAgree` says what is true on the way there: a call that runs alone has
cached what it has set so far (`LoneCalls`), what a save wrote is the file and a get that counts has
read it (`CallsTellFile`), and the caches are right whenever no save is in between (`CachesAgree`).
`AddressesAreReached` follows an address from the probe to the card, through the calls into the file,
the cache, a manifest and a bound relay: each place where a copy lies has to be in the invariant,
because the code checks the address once and passes it on. The cluster of an address is kept
until the context is changed under a detection (`moved`). `RelaysAreOwned` needs, beside its
property, that nobody listens while a start binds.

Of `PortForwards` it proves `ForwardsAreAlwaysKnown`, for any jobs, port ranges, contexts, commands and
processes. Where no two commands overlapped, a forward that runs is in a table, in the hands of a
command, or given up (`NothingIsLost`); what a stop or a start has swept is empty where the code is
about to write (`TablesAreEmptied`), or the write would drop a child; and at most one command is
between two of its steps (`CallsStandAlone`), without which neither is kept. `NewIdFacts` says that a
process id comes from those that nothing refers to. Of a stop that is through, the theorem says what is
true: all the tables held is gone, of every context; of the active target, all that pgrep listed, for any
answers of pgrep. That a stop leaves nothing at all is refuted by `forwards_left`.

Of `RuntimeRules` and `RuntimeClient`, `LocalRuntime_proofs` proves `PreflightNeverRelents`, for every
report, limit and size, including the `u64` that saturates, a limit measured as 0 and one that could not
be measured: a worse report never makes the decision
milder. `DecisionIsWorstCheck` turns the sequence of checks into the worst of four answers, and each
answer is monotone by itself. `LoadsAreAlwaysJudged` combines it with `RcInv`: a request is judged
once and on its own evidence, a denied load never reaches the send, and what the server did was sent
(`ActsAreKnown`). Of `CacheCleanup` it proves `RemovalsNeverLoseWhatIsInUse` for any tree; the
property is about steps, and needs that a walk that goes on has a directory open, that every entry
is in a directory that is there, and that the file in hand was expired when it was looked at.

Of `CheckpointResume`, `Stores_proofs` proves `CheckpointsAreAlwaysGenuine`, for any attempts, steps and
harms. `PinsAreDurable`: what a record, or the reader's copy of it, names was synced before, and is
the pinned content as long as nothing was harmed; a recording that has not synced is of a step that is not
durable, so that a loss of power and a retry cannot take what is pinned. `ResumesArePinned`: the
source of a resume has ended and its pin stands still, so that the check after the copy is against
the pin that the record has when the trainer starts.

Of `ModelHub` it proves `DownloadsAreAlwaysWhole`, for any repos, tasks, uploads and files. A task at
work is the only one of its repo (`TasksAgree`), its status counts what is whole on disk
(`CountsAgree`), and an upload without a download of its directory has stored a prefix of it
(`UploadsAgree`). Of `SupportBundle` it proves `BundleAlwaysTellsTheTruth`, for any fixed files, logs
and damage: what was written is listed (`BundleIsListed`), each log seen is in exactly one place
(`LogsAreAccounted`), and the verifier's two answers are backed on the way by what it went through
(`FoundIsThere`) and by what it met (`BadHasCause`).

Of `OrphanMarkers`, `Processes_proofs` proves `OnlyOrphansAreEverStruck` and
`OrphansAlwaysKeepTheirMarker`, for any pids, instances and births. The code compares what it read at one
time with what it looks at later, and pids are used again in between. `Ages` says what every step
leaves alone: what was born keeps its origin, what is gone stays gone, what comes is new. With it,
what an operation holds stays true without looking at each step again (`OpsAreHonest`): the start
time it found is that of a process of the marker's owner, who was dead, so it is nobody's child
now. `MarksAreGenuine` is where such a start time comes from, `KidsAreOwn` keeps the children of
running instances apart from it. `MarkersStay` is `OrphanKeepsMarker` for all processes with a
marker, orphans or not: a process becomes an orphan by the death of another.
This proof showed that a first form of the model never reached the last signal of `terminate_pid`: a
group counted as alive only after its leader's death, and was then never in the copy the code takes
before. `GroupForks` now lets the wrapper have its child while it runs.

**Assumptions.** Each module names what it asks of its constants, and TLC evaluates it in the runs: that
special values are no members of the sets they are added to, that jobs and fixed file names are
lists without repetition, that a job's port range has a least port, that what an entry of the cache
lies in is a directory, and that bounds are numbers. None of them makes a set finite.

**Only model-checked**: liveness (`AdmissionIsReleased`, `ExitIsRecorded`, `DeadServerLeavesSlot`,
`RevertIsReleased`, `TargetIsReleased`, `GuardLoopEnds`, `DeadRuntimeLeavesSlot`), which is out of
reach of the provers, and the properties the seven other runs find violated. Every safety and action
property of a passing run is stated by a theorem.

## 6. Not modelled

* A loss of power, outside `CheckpointResume`: what a process has handed to the kernel stays.
  `rename` into `adapters/` is followed by a sync of that directory whose failure the code only
  reports.
* A partial `remove_dir_all`: the removal of a directory succeeds or fails as a whole. What comes before
  it in a deletion, the looks at the slots, are steps of their own.
* The MLflow reconciliation after a run (one request, no state), the sleep detection (two clocks
  and an event), the evaluation trigger of Prefect, the agent toggles and ModelConfig updates of
  kagent (single kubectl calls).
* Pure functions: path rules, the masks of the redaction, cache identity, the parsers of process
  lists and probes. Pure I/O: read-only probes, RAG, data ingest, installers.
* The frontend except the two cards whose own state decides what is sent, the Python wrapper and
  the scripts, which are the environment of the models. `PROJECT.json` says why one by one.

## 7. What could follow

The plan this project was built along, most important first: `AdapterStore` and `AdapterStaging`,
`TrainingLifecycle`, `ServingLifecycle`, `DeployOperations` and `Guardrails`, each with its proofs,
`CheckpointResume`, `OrphanMarkers`, the process slots, the deploy target, and the rest of the host,
and then proofs of all of these. Left: an abstract process slot (free, reserved, occupied) for
training, serving and the runner to implement, proved step by step as that of `AdapterStore`.
