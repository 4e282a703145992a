---------------------------- MODULE PrefectRunner ----------------------------
\* commands/prefect.rs: the one Prefect runner process, leader of a
\* process group of its own, with the commands that start and stop it, the reader
\* that waits for it, and the two pip installations of its environment.
EXTENDS Naturals

CONSTANTS Runner,    \* runner processes, each with a pid of its own
          RunCall,   \* start_prefect_runner and stop_prefect_runner calls
          NoRunner,  \* None
          Starting,  \* Some(0), the reservation of a start
          Setups     \* the environments that are installed: prefect, eval

ASSUME PrefectRunnerAssumption == NoRunner # Starting /\ {NoRunner, Starting} \cap Runner = {}

VARIABLES
  runnerPid,   \* PrefectState.runner_pid
  runnerError, \* PrefectState.last_runner_error
  runner,      \* each process: "new", "running", "gone"
  rdr,         \* each process's run_runner_reader
  runCall,     \* each command
  setup,       \* env_setup and eval_env_setup
  pip,         \* ghost: pip processes of each installation
  crossed,     \* ghost: a reader emptied the slot of a later owner
  struckSelf   \* ghost: SIGTERM went to group 0, the program's own
prVars == <<runnerPid, runnerError, runner, rdr, runCall, setup, pip, crossed, struckSelf>>

QuietRun == [pc |-> "idle", pid |-> NoRunner]

PrInit ==
  /\ runnerPid = NoRunner /\ runnerError = "none"
  /\ runner = [r \in Runner |-> "new"]
  /\ rdr = [r \in Runner |-> "off"]
  /\ runCall = [c \in RunCall |-> QuietRun]
  /\ setup = [k \in Setups |-> "idle"] /\ pip = [k \in Setups |-> 0]
  /\ crossed = FALSE /\ struckSelf = FALSE

RunGoes(c, pc, p) == runCall' = [runCall EXCEPT ![c] = [pc |-> pc, pid |-> p]]
-----------------------------------------------------------------------------
\* Mutant of ReserveRunner: the check and the reservation are two steps.
ReserveRunnerLate(c) ==
  /\ runCall[c].pc = "idle" /\ runnerPid = NoRunner
  /\ RunGoes(c, "start", NoRunner)
  /\ UNCHANGED <<runnerPid, runnerError, runner, rdr, setup, pip, crossed, struckSelf>>

\* The check and the reservation are one step under the lock.
ReserveRunner(c) ==
  /\ runCall[c].pc = "idle" /\ runnerPid = NoRunner
  /\ runnerPid' = Starting
  /\ RunGoes(c, "start", NoRunner)
  /\ UNCHANGED <<runnerError, runner, rdr, setup, pip, crossed, struckSelf>>

\* No venv, no script or no process: back to what the slot was, which is None.
StartRunnerFails(c) ==
  /\ runCall[c].pc = "start"
  /\ runnerPid' = NoRunner
  /\ RunGoes(c, "idle", NoRunner)
  /\ UNCHANGED <<runnerError, runner, rdr, setup, pip, crossed, struckSelf>>

SpawnRunner(c, r) ==
  /\ runCall[c].pc = "start" /\ runner[r] = "new"
  /\ runner' = [runner EXCEPT ![r] = "running"]
  /\ RunGoes(c, "publish", r)
  /\ UNCHANGED <<runnerPid, runnerError, rdr, setup, pip, crossed, struckSelf>>

PublishRunner(c) ==
  /\ runCall[c].pc = "publish"
  /\ runnerPid' = runCall[c].pid
  /\ RunGoes(c, "clear", runCall[c].pid)
  /\ UNCHANGED <<runnerError, runner, rdr, setup, pip, crossed, struckSelf>>

\* The error of an earlier runner goes; the reader takes the child.
ClearRunnerError(c) ==
  /\ runCall[c].pc = "clear"
  /\ runnerError' = "none"
  /\ rdr' = [rdr EXCEPT ![runCall[c].pid] = "waiting"]
  /\ RunGoes(c, "idle", NoRunner)
  /\ UNCHANGED <<runnerPid, runner, setup, pip, crossed, struckSelf>>

\* A runner ends, by itself or by a signal.
RunnerEnds(r) ==
  /\ runner[r] = "running"
  /\ runner' = [runner EXCEPT ![r] = "gone"]
  /\ UNCHANGED <<runnerPid, runnerError, rdr, runCall, setup, pip, crossed, struckSelf>>

\* run_runner_reader: still the current one, then the slot, then the error.
\* The look and the emptying take the lock one after the other: the slot may
\* have been given up and taken again in between.
RdrLooks(r) ==
  /\ rdr[r] = "waiting" /\ runner[r] = "gone"
  /\ rdr' = [rdr EXCEPT ![r] = IF runnerPid = r THEN "current" ELSE "done"]
  /\ UNCHANGED <<runnerPid, runnerError, runner, runCall, setup, pip, crossed, struckSelf>>

RdrClears(r) ==
  /\ rdr[r] = "current"
  /\ runnerPid' = NoRunner
  /\ rdr' = [rdr EXCEPT ![r] = "report"]
  /\ crossed' = (crossed \/ runnerPid \notin {r, NoRunner})
  /\ UNCHANGED <<runnerError, runner, runCall, setup, pip, struckSelf>>

RdrReports(r) ==
  /\ rdr[r] = "report"
  /\ \E clean \in BOOLEAN : runnerError' = IF clean THEN "none" ELSE "unexpected"
  /\ rdr' = [rdr EXCEPT ![r] = "done"]
  /\ UNCHANGED <<runnerPid, runner, runCall, setup, pip, crossed, struckSelf>>

\* stop_prefect_runner: the pid is read; a second of terminate_process_group;
\* the slot, if it still is that pid's.
StopRunner(c) ==
  /\ runCall[c].pc = "idle" /\ runnerPid # NoRunner
  /\ RunGoes(c, "term", runnerPid)
  /\ UNCHANGED <<runnerPid, runnerError, runner, rdr, setup, pip, crossed, struckSelf>>

\* kill(-0) reaches the program's own group: it is over.
TermRunner(c) ==
  LET p == runCall[c].pid IN
  /\ runCall[c].pc = "term"
  /\ struckSelf' = (p = Starting)
  /\ RunGoes(c, "kill", p)
  /\ UNCHANGED <<runnerPid, runnerError, runner, rdr, setup, pip, crossed>>

\* SIGKILL for the whole group, if its leader is left by then.
KillRunner(c) ==
  LET p == runCall[c].pid IN
  /\ runCall[c].pc = "kill"
  /\ runner' = [runner EXCEPT ![p] = "gone"]
  /\ RunGoes(c, "forget", p)
  /\ UNCHANGED <<runnerPid, runnerError, rdr, setup, pip, crossed, struckSelf>>

ForgetRunner(c) ==
  /\ runCall[c].pc = "forget"
  /\ runnerPid' = IF runnerPid = runCall[c].pid THEN NoRunner ELSE runnerPid
  /\ RunGoes(c, "idle", NoRunner)
  /\ UNCHANGED <<runnerError, runner, rdr, setup, pip, crossed, struckSelf>>

\* setup_prefect_env, setup_eval_env: refused while one runs; pip's end is the status.
SetUp(k) ==
  /\ setup[k] # "installing"
  /\ setup' = [setup EXCEPT ![k] = "installing"]
  /\ pip' = [pip EXCEPT ![k] = @ + 1]
  /\ UNCHANGED <<runnerPid, runnerError, runner, rdr, runCall, crossed, struckSelf>>

SetUpEnds(k) ==
  /\ pip[k] > 0
  /\ pip' = [pip EXCEPT ![k] = @ - 1]
  /\ \E ended \in {"done", "error"} : setup' = [setup EXCEPT ![k] = ended]
  /\ UNCHANGED <<runnerPid, runnerError, runner, rdr, runCall, crossed, struckSelf>>

PrNext ==
  /\ ~struckSelf
  /\ \/ \E c \in RunCall :
          \/ ReserveRunner(c) \/ StartRunnerFails(c) \/ PublishRunner(c) \/ ClearRunnerError(c)
          \/ StopRunner(c) \/ TermRunner(c) \/ KillRunner(c) \/ ForgetRunner(c)
          \/ \E r \in Runner : SpawnRunner(c, r)
     \/ \E r \in Runner :
          RunnerEnds(r) \/ RdrLooks(r) \/ RdrClears(r) \/ RdrReports(r)
     \/ \E k \in Setups : SetUp(k) \/ SetUpEnds(k)

PrSpec == PrInit /\ [][PrNext]_prVars
-----------------------------------------------------------------------------
\* A runner that runs is the one the slot names, or the one a start is about
\* to publish: there is never a second, and none that no stop can reach,
\* unless a reader emptied the slot after it had changed hands. And no
\* environment is installed into twice at once.
RunnerIsReachable ==
  /\ \A r \in Runner : ~crossed /\ runner[r] = "running" =>
       \/ runnerPid = r
       \/ \E c \in RunCall : runCall[c].pc = "publish" /\ runCall[c].pid = r
  /\ \A r, q \in Runner : ~crossed /\ runner[r] = "running" /\ runner[q] = "running" => r = q
  /\ \A k \in Setups : pip[k] = IF setup[k] = "installing" THEN 1 ELSE 0

=============================================================================
