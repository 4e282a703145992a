------------------------------- MODULE Guardrails -------------------------------
(***************************************************************************)
(* commands/guardrails.rs: the user pauses and resumes a training, a loop  *)
(* per training pauses it under memory, battery or thermal pressure, and   *)
(* both send a signal first and write the status of the slot afterwards.   *)
(***************************************************************************)
EXTENDS Naturals

CONSTANTS Trainer,   \* training processes, each with a pid of its own
          GuardCmd,  \* pause_mlx_training and resume_mlx_training calls
          GuardConfigs, \* the settings the user chooses from
          NoTrainer  \* no training in the slot, no overrides stored

ASSUME NoTrainerIsNone == NoTrainer \notin Trainer
ASSUME GuardConfigsAre == GuardConfigs \subseteq [battery : BOOLEAN, thermal : BOOLEAN]

VARIABLES
  gSlot,      \* MlxState.training: pid and status; a cause c stands for "paused_<c>"
  gProc,      \* each training process
  overrides,  \* GuardrailState.resume_overrides
  gConfig,    \* battery_pause_enabled, thermal_pause_enabled
  critical,   \* memory pressure is critical, and stays so
  gLoop,      \* each guard loop: where it stands, its copy of the overrides
  gCmd,       \* each command
  gCrossed,    \* history: a signal was sent while another one's status was unwritten
  wished,     \* history: causes from which the user resumed each living training while it was
              \* paused for them
  taken       \* history: trainings whose stored overrides another one cleared or replaced

guardVars == <<gSlot, gProc, overrides, gConfig, critical, gLoop, gCmd,
               gCrossed, wished, taken>>
guardHistory == <<gCrossed, wished, taken>>

Cause == {"memory_pressure", "battery", "thermal"}
Paused == {"paused"} \cup Cause
Live == {"running"} \cup Paused

NoOverrides == [pid |-> NoTrainer, causes |-> {}]
IdleLoop == [pc |-> "off", seen |-> {}, cause |-> "thermal", urgent |-> FALSE]
IdleCmd == [pc |-> "idle", pid |-> NoTrainer, status |-> "running"]

GuardInit ==
  /\ gSlot = [pid |-> NoTrainer, status |-> "done"]
  /\ gProc = [t \in Trainer |-> "new"]
  /\ overrides = NoOverrides
  /\ gConfig \in GuardConfigs
  /\ critical = FALSE
  /\ gLoop = [t \in Trainer |-> IdleLoop]
  /\ gCmd = [c \in GuardCmd |-> IdleCmd]
  /\ gCrossed = [t \in Trainer |-> FALSE]
  /\ wished = [t \in Trainer |-> {}]
  /\ taken = {}
----------------------------------------------------------------------------
(* What a measurement can answer, and the decisions taken on it. *)
Levels == IF critical THEN {"critical"} ELSE {"normal", "warn", "unknown"}
Hot == {"serious", "critical"}
Thermal == {"nominal", "fair", "serious", "critical", "none"}

SpawnAdmitted(level, thermal) ==
  /\ level \notin {"critical", "unknown"}
  /\ ~(gConfig.thermal /\ thermal \in Hot)

MemoryPauses(level, seen) ==
  \/ level = "critical"
  \/ level = "warn" /\ "memory_pressure" \notin seen

BatteryPauses(onBattery, seen) == gConfig.battery /\ onBattery /\ "battery" \notin seen

ThermalPauses(thermal, seen) ==
  gConfig.thermal /\ thermal \in Hot /\ "thermal" \notin seen

(* get_guardrail_status *)
TrainingPaused == gSlot.status \in Paused

\* Mutant of Transition: the pid is compared and the status is not.
TransitionWhateverStatus(t, status) ==
  IF gSlot.pid = t THEN [gSlot EXCEPT !.status = status] ELSE gSlot

\* Mutant of Transition: the status is looked at and the pid is not.
TransitionOfSlot(t, status) ==
  IF gSlot.status \in Live THEN [gSlot EXCEPT !.status = status] ELSE gSlot

(* The status after a signal: only of the same, unfinished training. *)
Transition(t, status) ==
  IF gSlot.pid = t /\ gSlot.status \in Live THEN [gSlot EXCEPT !.status = status] ELSE gSlot

(* kill(-pid, sig): it fails when no process of the group is left. *)
SignalGroup(t, state) ==
  /\ gProc[t] \in {"running", "stopped"}
  /\ gProc' = [gProc EXCEPT ![t] = state]
  /\ gCrossed' = [gCrossed EXCEPT ![t] = @ \/ gLoop[t].pc = "record"
                     \/ \E c \in GuardCmd : gCmd[c].pc = "record" /\ gCmd[c].pid = t]

loopAt(t, pc) == gLoop' = [gLoop EXCEPT ![t].pc = pc]
nextTick(t) == gLoop' = [gLoop EXCEPT ![t] = [IdleLoop EXCEPT !.pc = "tick"]]
----------------------------------------------------------------------------
(* run_mlx_finetune up to the spawn of the guard loop. *)
GuardSpawn(t) ==
  /\ gProc[t] = "new"
  /\ gSlot.status \notin Live
  /\ \E level \in Levels, thermal \in Thermal : SpawnAdmitted(level, thermal)
  /\ gSlot' = [pid |-> t, status |-> "running"]
  /\ gProc' = [gProc EXCEPT ![t] = "running"]
  /\ loopAt(t, "start")
  /\ UNCHANGED <<overrides, gConfig, critical, gCmd, guardHistory>>

(* The process ends, by itself or by the stop command; its waiter writes the *)
(* final status later.                                                       *)
GuardExit(t) ==
  /\ gProc[t] \in {"running", "stopped"}
  /\ gProc' = [gProc EXCEPT ![t] = "gone"]
  /\ gCrossed' = [gCrossed EXCEPT ![t] = FALSE] /\ wished' = [wished EXCEPT ![t] = {}]
  /\ UNCHANGED <<gSlot, overrides, gConfig, critical, gLoop, gCmd, taken>>

GuardFinalize(t) ==
  /\ gProc[t] = "gone" /\ gSlot.pid = t /\ gSlot.status \in Live
  /\ gSlot' = [gSlot EXCEPT !.status = "done"]
  /\ UNCHANGED <<gProc, overrides, gConfig, critical, gLoop, gCmd, guardHistory>>

SetGuardConfig ==
  /\ gConfig' \in GuardConfigs
  /\ UNCHANGED <<gSlot, gProc, overrides, critical, gLoop, gCmd, guardHistory>>

PressureRises ==
  /\ ~critical /\ critical' = TRUE
  /\ UNCHANGED <<gSlot, gProc, overrides, gConfig, gLoop, gCmd, guardHistory>>
----------------------------------------------------------------------------
(* guardrail_loop of training t. *)
ClearOverrides(mine) ==
  IF overrides.pid # NoTrainer /\ mine THEN NoOverrides ELSE overrides

LoopStart(t) ==
  /\ gLoop[t].pc = "start" /\ loopAt(t, "tick")
  /\ overrides' = ClearOverrides(overrides.pid # t)
  /\ taken' = taken \cup ({overrides.pid} \ {t, NoTrainer})
  /\ UNCHANGED <<gSlot, gProc, gConfig, critical, gCmd, gCrossed, wished>>

\* Mutant of Over: a training that replaced this one is taken for it.
OverByStatus(t) == gSlot.status \notin Live

Over(t) == gSlot.pid # t \/ gSlot.status \notin Live

LoopEnds(t) ==
  /\ gLoop[t].pc = "tick" /\ Over(t)
  /\ loopAt(t, "ended")
  /\ overrides' = ClearOverrides(overrides.pid = t)
  /\ UNCHANGED <<gSlot, gProc, gConfig, critical, gCmd, guardHistory>>

ActiveOverrides(t) == IF overrides.pid = t THEN overrides.causes ELSE {}

(* Only a running training is measured, with the overrides of this moment. *)
LoopTick(t) ==
  /\ gLoop[t].pc = "tick"
  /\ gSlot.pid = t /\ gSlot.status = "running"
  /\ gLoop' = [gLoop EXCEPT ![t].pc = "measure", ![t].seen = ActiveOverrides(t)]
  /\ UNCHANGED <<gSlot, gProc, overrides, gConfig, critical, gCmd, guardHistory>>

\* Mutant of PauseCauses: the copy of the overrides is not consulted.
PauseCausesForgetful(level, onBattery, thermal, seen) ==
  IF MemoryPauses(level, {}) THEN {"memory_pressure"}
  ELSE IF BatteryPauses(onBattery, {}) THEN {"battery"}
  ELSE IF ThermalPauses(thermal, {}) THEN {"thermal"} ELSE {}

(* The first of the three measurements that asks for a pause names its cause. *)
PauseCauses(level, onBattery, thermal, seen) ==
  CASE MemoryPauses(level, seen) -> {"memory_pressure"}
    [] ~MemoryPauses(level, seen) /\ BatteryPauses(onBattery, seen) -> {"battery"}
    [] ~MemoryPauses(level, seen) /\ ~BatteryPauses(onBattery, seen)
         /\ ThermalPauses(thermal, seen) -> {"thermal"}
    [] OTHER -> {}

(* The measurements are over: no reason, or the group is signalled (pause_pid); *)
(* the status follows in LoopRecord.                                            *)
LoopMeasure(t) ==
  /\ gLoop[t].pc = "measure"
  /\ \E level \in Levels, onBattery \in BOOLEAN, thermal \in Thermal :
       LET causes == PauseCauses(level, onBattery, thermal, gLoop[t].seen) IN
       \/ /\ causes = {} \/ gProc[t] = "gone"
          /\ nextTick(t) /\ UNCHANGED <<gProc, gCrossed>>
       \/ \E cause \in causes :
            /\ SignalGroup(t, "stopped")
            /\ gLoop' = [gLoop EXCEPT ![t] = [pc |-> "record", seen |-> {}, cause |-> cause,
                                             urgent |-> level = "critical"]]
  /\ UNCHANGED <<gSlot, overrides, gConfig, critical, gCmd, wished, taken>>

LoopRecord(t) ==
  /\ gLoop[t].pc = "record" /\ nextTick(t)
  /\ gSlot' = Transition(t, gLoop[t].cause)
  /\ UNCHANGED <<gProc, overrides, gConfig, critical, gCmd, guardHistory>>
----------------------------------------------------------------------------
(* pause_mlx_training and resume_mlx_training. *)
PauseBegin(c) ==
  /\ gCmd[c].pc = "idle" /\ gSlot.status = "running"
  /\ gCmd' = [gCmd EXCEPT ![c] = [pc |-> "signal", pid |-> gSlot.pid, status |-> "paused"]]
  /\ UNCHANGED <<gSlot, gProc, overrides, gConfig, critical, gLoop, guardHistory>>

(* A resume remembers the status it found until the overrides are written. *)
ResumeBegin(c) ==
  /\ gCmd[c].pc = "idle" /\ TrainingPaused
  /\ gCmd' = [gCmd EXCEPT ![c] = [pc |-> IF gSlot.status = "paused" THEN "signal" ELSE "override",
                                  pid |-> gSlot.pid,
                                  status |-> IF gSlot.status = "paused" THEN "running"
                                             ELSE gSlot.status]]
  /\ UNCHANGED <<gSlot, gProc, overrides, gConfig, critical, gLoop, guardHistory>>

ResumeOverride(c) ==
  LET t == gCmd[c].pid  cause == gCmd[c].status IN
  /\ gCmd[c].pc = "override"
  /\ overrides' = [pid |-> t, causes |-> ActiveOverrides(t) \cup {cause}]
  /\ wished' = [wished EXCEPT ![t] = IF gProc[t] # "gone" /\ gSlot = [pid |-> t, status |-> cause]
                                     THEN @ \cup {cause} ELSE @]
  /\ taken' = taken \cup ({overrides.pid} \ {t, NoTrainer})
  /\ gCmd' = [gCmd EXCEPT ![c].pc = "signal", ![c].status = "running"]
  /\ UNCHANGED <<gSlot, gProc, gConfig, critical, gLoop, gCrossed>>

CmdSignal(c) ==
  LET t == gCmd[c].pid IN
  /\ gCmd[c].pc = "signal"
  /\ \/ /\ SignalGroup(t, IF gCmd[c].status = "running" THEN "running" ELSE "stopped")
        /\ gCmd' = [gCmd EXCEPT ![c].pc = "record"]
     \/ /\ gProc[t] = "gone"
        /\ gCmd' = [gCmd EXCEPT ![c] = IdleCmd]
        /\ UNCHANGED <<gProc, gCrossed>>
  /\ UNCHANGED <<gSlot, overrides, gConfig, critical, gLoop, wished, taken>>

CmdRecord(c) ==
  /\ gCmd[c].pc = "record"
  /\ gSlot' = Transition(gCmd[c].pid, gCmd[c].status)
  /\ gCmd' = [gCmd EXCEPT ![c] = IdleCmd]
  /\ UNCHANGED <<gProc, overrides, gConfig, critical, gLoop, guardHistory>>
----------------------------------------------------------------------------
LoopStep(t) == \/ LoopStart(t) \/ LoopEnds(t) \/ LoopTick(t) \/ LoopMeasure(t) \/ LoopRecord(t)
CmdStep(c) == ResumeOverride(c) \/ CmdSignal(c) \/ CmdRecord(c)

GuardNext ==
  \/ \E t \in Trainer : \/ GuardSpawn(t) \/ GuardExit(t) \/ GuardFinalize(t) \/ LoopStep(t)
  \/ \E c \in GuardCmd : PauseBegin(c) \/ ResumeBegin(c) \/ CmdStep(c)
  \/ SetGuardConfig \/ PressureRises

(* The runtime polls the loops, the commands and the waiters; the processes *)
(* and the user owe nothing.                                                *)
GuardFairness ==
  /\ \A t \in Trainer : WF_guardVars(LoopStep(t)) /\ WF_guardVars(GuardFinalize(t))
  /\ \A c \in GuardCmd : WF_guardVars(CmdStep(c))

GuardSpec == GuardInit /\ [][GuardNext]_guardVars /\ GuardFairness
----------------------------------------------------------------------------
Settled(t) == /\ gLoop[t].pc # "record"
              /\ \A c \in GuardCmd : gCmd[c].pid = t => gCmd[c].pc # "record"

(* When no status is waiting to be written, and no two signals of a training *)
(* ever crossed, the slot says paused exactly while the process is stopped.  *)
PausedMeansStopped ==
  (gSlot.pid # NoTrainer /\ gProc[gSlot.pid] # "gone"
     /\ Settled(gSlot.pid) /\ ~gCrossed[gSlot.pid])
  => (TrainingPaused <=> gProc[gSlot.pid] = "stopped")

(* An automatic pause that is not for critical memory never repeats a cause  *)
(* the user resumed this training from, although the loop works on a copy of *)
(* the overrides taken before its measurements; only the late start of the   *)
(* loop, or the late resume, of another training can make it forget.         *)
UserOverridesHold ==
  [][\A t \in Trainer : (gLoop[t].pc = "measure" /\ gLoop'[t].pc = "record"
                           /\ ~gLoop'[t].urgent /\ t \notin taken)
                         => gLoop'[t].cause \notin wished[t]]_guardVars

(* No pause or resume that was on its way brings a finished training back,   *)
(* and none changes the status of the training that followed: a step that    *)
(* makes the slot live again starts a new process.                           *)
FinishedStaysFinished ==
  [][(gSlot.status \notin Live /\ gSlot'.status \in Live)
       => gProc[gSlot'.pid] = "new"]_guardVars

(* The guard loop of a training that is over, or was replaced, ends. *)
GuardLoopEnds ==
  \A t \in Trainer : (gProc[t] = "gone") ~> (gLoop[t].pc = "ended")
=============================================================================
