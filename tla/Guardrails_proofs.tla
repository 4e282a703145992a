---------------------------- MODULE Guardrails_proofs ----------------------------
\* Pauses, resumes and the guard loops, for any trainings, commands and settings.
EXTENDS Guardrails, TLAPS

LoopState == [pc : {"off", "start", "tick", "measure", "record", "ended"},
              seen : SUBSET Cause, cause : Cause, urgent : BOOLEAN]

GuardTypeOK ==
  /\ gSlot \in [pid : Trainer \cup {NoTrainer}, status : Live \cup {"done"}]
  /\ gProc \in [Trainer -> {"new", "running", "stopped", "gone"}]
  /\ overrides \in [pid : Trainer \cup {NoTrainer}, causes : SUBSET Cause]
  /\ gLoop \in [Trainer -> LoopState]
  /\ gCmd \in [GuardCmd -> [pc : {"idle", "override", "signal", "record"},
                            pid : Trainer \cup {NoTrainer}, status : Live]]
  /\ gCrossed \in [Trainer -> BOOLEAN]
  /\ wished \in [Trainer -> SUBSET Cause]
  /\ taken \subseteq Trainer

\* A command at work has the pid of a training that was started, and what it is
\* about to write.
CmdAgrees ==
  \A c \in GuardCmd :
    /\ gCmd[c].pc = "idle" => gCmd[c].pid = NoTrainer
    /\ gCmd[c].pc # "idle" => gCmd[c].pid \in Trainer /\ gProc[gCmd[c].pid] # "new"
    /\ gCmd[c].pc = "override" => gCmd[c].status \in Cause
    /\ gCmd[c].pc \in {"signal", "record"} => gCmd[c].status \in {"running", "paused"}

\* The slot is live for a training that was started, and over for one that ended;
\* a loop begins with its training, and measures no training it has paused.
SlotAgrees ==
  /\ gSlot.status \in Live => gSlot.pid \in Trainer
  /\ gSlot.pid \in Trainer => gProc[gSlot.pid] # "new"
  /\ gSlot.pid \in Trainer /\ gSlot.status \notin Live => gProc[gSlot.pid] = "gone"
  /\ \A t \in Trainer : gProc[t] = "new" => gLoop[t].pc = "off"
  /\ gSlot.status \in Cause => gLoop[gSlot.pid].pc \in {"tick", "ended"}

\* The one whose status is still to be written has sent the last signal.
Pending(c, t) == gCmd[c].pc = "record" /\ gCmd[c].pid = t

LastSignalWrites ==
  \A t \in Trainer : ~gCrossed[t] /\ gProc[t] # "gone" =>
    /\ gLoop[t].pc = "record" => gProc[t] = "stopped" /\ \A c \in GuardCmd : ~Pending(c, t)
    /\ \A c \in GuardCmd : Pending(c, t) =>
         gProc[t] = IF gCmd[c].status = "running" THEN "running" ELSE "stopped"
    /\ \A c, d \in GuardCmd : Pending(c, t) /\ Pending(d, t) => c = d

\* What the user wished is stored as long as the loop looks, and in its copy.
WishesAreStored ==
  \A t \in Trainer \ taken :
    /\ gLoop[t].pc # "ended" => wished[t] \subseteq ActiveOverrides(t)
    /\ gLoop[t].pc = "measure" => wished[t] \subseteq gLoop[t].seen

GuardInv ==
  /\ GuardTypeOK /\ CmdAgrees /\ SlotAgrees /\ LastSignalWrites /\ PausedMeansStopped
  /\ WishesAreStored
-----------------------------------------------------------------------------
\* A loop that moves on stays a loop.
LEMMA LoopMoves ==
  ASSUME GuardTypeOK, NEW t \in Trainer,
         NEW at \in {"off", "start", "tick", "measure", "record", "ended"}, loopAt(t, at)
  PROVE  gLoop' \in [Trainer -> LoopState]
<1>1. gLoop[t] \in LoopState
  BY DEF GuardTypeOK
<1>2. [gLoop[t] EXCEPT !.pc = at] \in LoopState
  BY <1>1 DEF LoopState
<1>3. QED
  BY <1>2 DEF GuardTypeOK, loopAt

\* A loop that waits for its next tick remembers nothing.
LEMMA LoopWaits ==
  ASSUME GuardTypeOK, NEW t \in Trainer, nextTick(t)
  PROVE  /\ gLoop' \in [Trainer -> LoopState]
         /\ gLoop'[t].pc = "tick"
         /\ \A s \in Trainer : s # t => gLoop'[s] = gLoop[s]
<1>1. [IdleLoop EXCEPT !.pc = "tick"] \in LoopState
  BY DEF IdleLoop, LoopState, Cause
<1>2. [IdleLoop EXCEPT !.pc = "tick"].pc = "tick"
  BY DEF IdleLoop
<1>3. QED
  BY <1>1, <1>2 DEF GuardTypeOK, nextTick

\* A signal leaves its mark on the process, and finds whose status is unwritten.
LEMMA SignalMarks ==
  ASSUME GuardTypeOK, NEW t \in Trainer, NEW state \in {"running", "stopped"}, SignalGroup(t, state)
  PROVE  /\ gProc' \in [Trainer -> {"new", "running", "stopped", "gone"}]
         /\ gCrossed' \in [Trainer -> BOOLEAN]
         /\ gProc[t] \in {"running", "stopped"} /\ gProc'[t] = state
         /\ \A s \in Trainer : s # t => gProc'[s] = gProc[s] /\ gCrossed'[s] = gCrossed[s]
         /\ ~gCrossed'[t] =>
              ~gCrossed[t] /\ gLoop[t].pc # "record" /\ \A c \in GuardCmd : ~Pending(c, t)
<1>1. gProc' \in [Trainer -> {"new", "running", "stopped", "gone"}] /\ gProc'[t] = state
      /\ \A s \in Trainer : s # t => gProc'[s] = gProc[s]
  BY DEF GuardTypeOK, SignalGroup
<1>2. DEFINE found == gCrossed[t] \/ gLoop[t].pc = "record" \/ \E c \in GuardCmd : Pending(c, t)
<1>3. gCrossed' = [gCrossed EXCEPT ![t] = found]
  BY DEF GuardTypeOK, SignalGroup, Pending
<1>4. found \in BOOLEAN
  BY DEF GuardTypeOK
<1>5. gCrossed' \in [Trainer -> BOOLEAN] /\ gCrossed'[t] = found
      /\ \A s \in Trainer : s # t => gCrossed'[s] = gCrossed[s]
  BY <1>3, <1>4 DEF GuardTypeOK
<1>6. QED
  BY <1>1, <1>5 DEF SignalGroup

\* What a measurement comes to: the loop waits, or it has stopped the group.
LEMMA MeasureEnds ==
  ASSUME GuardTypeOK, NEW t \in Trainer, LoopMeasure(t)
  PROVE  \/ nextTick(t) /\ UNCHANGED <<gProc, gCrossed>>
         \/ /\ SignalGroup(t, "stopped")
            /\ gLoop' \in [Trainer -> LoopState] /\ gLoop'[t].pc = "record"
            /\ \A s \in Trainer : s # t => gLoop'[s] = gLoop[s]
<1>1. CASE nextTick(t) /\ UNCHANGED <<gProc, gCrossed>>
  BY <1>1
<1>2. CASE ~(nextTick(t) /\ UNCHANGED <<gProc, gCrossed>>)
  <2>1. PICK level \in Levels, onBattery \in BOOLEAN, thermal \in Thermal :
          \E cause \in PauseCauses(level, onBattery, thermal, gLoop[t].seen) :
            /\ SignalGroup(t, "stopped")
            /\ gLoop' = [gLoop EXCEPT ![t] = [pc |-> "record", seen |-> {}, cause |-> cause,
                                             urgent |-> level = "critical"]]
    BY <1>2 DEF LoopMeasure
  <2>2. PICK cause \in PauseCauses(level, onBattery, thermal, gLoop[t].seen) :
            /\ SignalGroup(t, "stopped")
            /\ gLoop' = [gLoop EXCEPT ![t] = [pc |-> "record", seen |-> {}, cause |-> cause,
                                             urgent |-> level = "critical"]]
    BY <2>1
  <2>3. cause \in Cause
    BY <2>2 DEF PauseCauses, Cause
  <2>4. [pc |-> "record", seen |-> {}, cause |-> cause, urgent |-> level = "critical"] \in LoopState
    BY <2>3 DEF LoopState
  <2>5. QED
    BY <2>2, <2>4 DEF GuardTypeOK
<1>3. QED
  BY <1>1, <1>2
-----------------------------------------------------------------------------
\* At the start nothing runs and no command is under way.
LEMMA GuardInitInv == GuardInit => GuardInv
<1> SUFFICES ASSUME GuardInit PROVE GuardInv
  OBVIOUS
<1>1. GuardTypeOK
  BY DEF GuardInit, GuardTypeOK, LoopState, NoOverrides, IdleLoop, IdleCmd, Live, Paused, Cause
<1>2. CmdAgrees /\ SlotAgrees
  BY NoTrainerIsNone DEF GuardInit, CmdAgrees, SlotAgrees, IdleLoop, IdleCmd, Live, Paused, Cause
<1>3. LastSignalWrites /\ PausedMeansStopped
  BY DEF GuardInit, LastSignalWrites, PausedMeansStopped, Pending, IdleLoop, IdleCmd
<1>4. WishesAreStored
  BY DEF GuardInit, WishesAreStored
<1>5. QED
  BY <1>1, <1>2, <1>3, <1>4 DEF GuardInv

\* A training is spawned into a slot that is over.
LEMMA GuardSpawnInv ==
  ASSUME GuardInv, NEW t \in Trainer, GuardSpawn(t)
  PROVE  GuardInv'
<1>1. GuardTypeOK'
  <2>1. gLoop' \in [Trainer -> LoopState]
    BY LoopMoves DEF GuardInv, GuardSpawn
  <2>2. QED
    BY <2>1 DEF GuardInv, GuardTypeOK, GuardSpawn, guardHistory, Live, Paused
<1>2. CmdAgrees' /\ SlotAgrees' /\ LastSignalWrites' /\ PausedMeansStopped'
  BY DEF GuardInv, GuardSpawn, CmdAgrees, Cause, Live, loopAt, GuardTypeOK, SlotAgrees,
     guardHistory, Pending, LastSignalWrites, Paused, TrainingPaused, PausedMeansStopped
<1>3. WishesAreStored'
  BY DEF GuardInv, GuardSpawn, guardHistory, loopAt, ActiveOverrides, SlotAgrees,
     WishesAreStored
<1>4. QED
  BY <1>1, <1>2, <1>3 DEF GuardInv

\* A training ends.
LEMMA GuardExitInv ==
  ASSUME GuardInv, NEW t \in Trainer, GuardExit(t)
  PROVE  GuardInv'
<1>1. GuardTypeOK'
  BY DEF GuardInv, GuardExit, GuardTypeOK
<1>2. CmdAgrees' /\ SlotAgrees' /\ LastSignalWrites' /\ PausedMeansStopped' /\ WishesAreStored'
  BY DEF GuardInv, GuardExit, CmdAgrees, SlotAgrees, Pending, GuardTypeOK, LastSignalWrites,
     TrainingPaused, Settled, PausedMeansStopped, ActiveOverrides, WishesAreStored
<1>3. QED
  BY <1>1, <1>2 DEF GuardInv

\* The reader writes the final status.
LEMMA GuardFinalizeInv ==
  ASSUME GuardInv, NEW t \in Trainer, GuardFinalize(t)
  PROVE  GuardInv'
<1>1. GuardTypeOK'
  BY DEF GuardInv, GuardFinalize, guardHistory, GuardTypeOK
<1>2. CmdAgrees' /\ SlotAgrees' /\ LastSignalWrites' /\ PausedMeansStopped' /\ WishesAreStored'
  BY DEF GuardInv, GuardFinalize, CmdAgrees, Cause, SlotAgrees, guardHistory, Pending,
     LastSignalWrites, PausedMeansStopped, ActiveOverrides, WishesAreStored
<1>3. QED
  BY <1>1, <1>2 DEF GuardInv

\* The user changes the settings.
LEMMA SetGuardConfigInv ==
  ASSUME GuardInv, SetGuardConfig
  PROVE  GuardInv'
<1>1. GuardTypeOK'
  BY DEF GuardInv, SetGuardConfig, guardHistory, GuardTypeOK
<1>2. CmdAgrees' /\ SlotAgrees' /\ LastSignalWrites' /\ PausedMeansStopped' /\ WishesAreStored'
  BY DEF GuardInv, SetGuardConfig, CmdAgrees, SlotAgrees, guardHistory, Pending,
     LastSignalWrites, TrainingPaused, Settled, PausedMeansStopped, ActiveOverrides,
     WishesAreStored
<1>3. QED
  BY <1>1, <1>2 DEF GuardInv

\* Memory becomes critical.
LEMMA PressureRisesInv ==
  ASSUME GuardInv, PressureRises
  PROVE  GuardInv'
<1>1. GuardTypeOK'
  BY DEF GuardInv, PressureRises, guardHistory, GuardTypeOK
<1>2. CmdAgrees' /\ SlotAgrees' /\ LastSignalWrites' /\ PausedMeansStopped' /\ WishesAreStored'
  BY DEF GuardInv, PressureRises, CmdAgrees, SlotAgrees, guardHistory, Pending,
     LastSignalWrites, TrainingPaused, Settled, PausedMeansStopped, ActiveOverrides,
     WishesAreStored
<1>3. QED
  BY <1>1, <1>2 DEF GuardInv

\* A loop starts and drops the overrides of others.
LEMMA LoopStartInv ==
  ASSUME GuardInv, NEW t \in Trainer, LoopStart(t)
  PROVE  GuardInv'
<1>1. GuardTypeOK'
  <2>1. gLoop' \in [Trainer -> LoopState]
    BY LoopMoves DEF GuardInv, LoopStart
  <2>2. /\ overrides' \in [pid : Trainer \cup {NoTrainer}, causes : SUBSET Cause]
        /\ taken' \subseteq Trainer
    BY DEF GuardInv, GuardTypeOK, LoopStart, ClearOverrides, NoOverrides
  <2>3. QED
    BY <2>1, <2>2 DEF GuardInv, GuardTypeOK, LoopStart
<1>2. CmdAgrees' /\ SlotAgrees' /\ LastSignalWrites' /\ PausedMeansStopped' /\ WishesAreStored'
  BY DEF GuardInv, LoopStart, CmdAgrees, loopAt, SlotAgrees, Pending, LastSignalWrites,
     TrainingPaused, Settled, PausedMeansStopped, ClearOverrides, ActiveOverrides,
     WishesAreStored
<1>3. QED
  BY <1>1, <1>2 DEF GuardInv

\* A loop ends with its training.
LEMMA LoopEndsInv ==
  ASSUME GuardInv, NEW t \in Trainer, LoopEnds(t)
  PROVE  GuardInv'
<1>1. GuardTypeOK'
  <2>1. gLoop' \in [Trainer -> LoopState]
    BY LoopMoves DEF GuardInv, LoopEnds
  <2>2. overrides' \in [pid : Trainer \cup {NoTrainer}, causes : SUBSET Cause]
    BY DEF GuardInv, GuardTypeOK, LoopEnds, ClearOverrides, NoOverrides
  <2>3. QED
    BY <2>1, <2>2 DEF GuardInv, GuardTypeOK, LoopEnds, guardHistory
<1>2. CmdAgrees' /\ SlotAgrees' /\ LastSignalWrites' /\ PausedMeansStopped' /\ WishesAreStored'
  BY DEF GuardInv, LoopEnds, CmdAgrees, loopAt, SlotAgrees, guardHistory, Pending,
     LastSignalWrites, TrainingPaused, Settled, PausedMeansStopped, ClearOverrides,
     ActiveOverrides, GuardTypeOK, WishesAreStored
<1>3. QED
  BY <1>1, <1>2 DEF GuardInv

\* A loop copies the overrides of its running training.
LEMMA LoopTickInv ==
  ASSUME GuardInv, NEW t \in Trainer, LoopTick(t)
  PROVE  GuardInv'
<1>1. GuardTypeOK'
  <2>1. ActiveOverrides(t) \in SUBSET Cause /\ gLoop[t] \in LoopState
    BY DEF GuardInv, GuardTypeOK, ActiveOverrides
  <2>2. [gLoop[t] EXCEPT !.pc = "measure", !.seen = ActiveOverrides(t)] \in LoopState
    BY <2>1 DEF LoopState
  <2>3. gLoop' \in [Trainer -> LoopState]
    BY <2>2 DEF GuardInv, GuardTypeOK, LoopTick
  <2>4. QED
    BY <2>3 DEF GuardInv, GuardTypeOK, LoopTick, guardHistory
<1>2. CmdAgrees' /\ SlotAgrees' /\ LastSignalWrites' /\ PausedMeansStopped' /\ WishesAreStored'
  BY DEF GuardInv, LoopTick, CmdAgrees, Cause, GuardTypeOK, SlotAgrees, guardHistory,
     Pending, LastSignalWrites, TrainingPaused, Settled, PausedMeansStopped,
     ActiveOverrides, WishesAreStored
<1>3. QED
  BY <1>1, <1>2 DEF GuardInv

\* A loop has measured: it sends the signal, or goes on.
LEMMA LoopMeasureInv ==
  ASSUME GuardInv, NEW t \in Trainer, LoopMeasure(t)
  PROVE  GuardInv'
<1>1. GuardTypeOK'
  <2>1. CASE nextTick(t) /\ UNCHANGED <<gProc, gCrossed>>
    BY <2>1, LoopWaits DEF GuardInv, GuardTypeOK, LoopMeasure
  <2>2. CASE SignalGroup(t, "stopped") /\ gLoop' \in [Trainer -> LoopState]
    BY <2>2, SignalMarks DEF GuardInv, GuardTypeOK, LoopMeasure
  <2>3. QED
    BY <2>1, <2>2, MeasureEnds DEF GuardInv
<1>2. CmdAgrees' /\ WishesAreStored'
  BY DEF GuardInv, LoopMeasure, SignalGroup, GuardTypeOK, CmdAgrees, IdleLoop, nextTick,
     ActiveOverrides, WishesAreStored
<1>3. SlotAgrees'
  <2>1. gLoop'[t].pc \in {"tick", "record"} /\ \A s \in Trainer : s # t => gLoop'[s] = gLoop[s]
    BY LoopWaits, MeasureEnds DEF GuardInv
  <2>2. gProc' = gProc \/ SignalGroup(t, "stopped")
    BY MeasureEnds DEF GuardInv
  <2>3. \A s \in Trainer :
          gProc[s] \in {"new", "gone"} \/ gProc'[s] \in {"new", "gone"} => gProc'[s] = gProc[s]
    BY <2>2, SignalMarks DEF GuardInv
  <2>4. QED
    BY <2>1, <2>3, NoTrainerIsNone DEF GuardInv, GuardTypeOK, SlotAgrees, LoopMeasure, Live,
       Paused, Cause
<1>4. LastSignalWrites'
  <2>1. CASE nextTick(t) /\ UNCHANGED <<gProc, gCrossed>>
    BY <2>1, LoopWaits DEF GuardInv, LastSignalWrites, Pending, LoopMeasure
  <2>2. CASE /\ SignalGroup(t, "stopped") /\ gLoop'[t].pc = "record"
             /\ \A s \in Trainer : s # t => gLoop'[s] = gLoop[s]
    BY <2>2, SignalMarks DEF GuardInv, LastSignalWrites, Pending, LoopMeasure
  <2>3. QED
    BY <2>1, <2>2, MeasureEnds DEF GuardInv
<1>5. PausedMeansStopped'
  <2>1. CASE nextTick(t) /\ UNCHANGED <<gProc, gCrossed>>
    BY <2>1, LoopWaits, NoTrainerIsNone DEF GuardInv, GuardTypeOK, PausedMeansStopped, Settled,
       TrainingPaused, LoopMeasure
  <2>2. CASE /\ SignalGroup(t, "stopped") /\ gLoop'[t].pc = "record"
             /\ \A s \in Trainer : s # t => gLoop'[s] = gLoop[s]
    BY <2>2, SignalMarks, NoTrainerIsNone DEF GuardInv, GuardTypeOK, PausedMeansStopped,
       Settled, TrainingPaused, LoopMeasure
  <2>3. QED
    BY <2>1, <2>2, MeasureEnds DEF GuardInv
<1>6. QED
  BY <1>1, <1>2, <1>3, <1>4, <1>5 DEF GuardInv

\* A loop writes the pause it signalled.
LEMMA LoopRecordInv ==
  ASSUME GuardInv, NEW t \in Trainer, LoopRecord(t)
  PROVE  GuardInv'
<1>1. GuardTypeOK'
  BY DEF GuardInv, LoopRecord, Cause, Paused, Live, IdleLoop, guardHistory, Transition,
     nextTick, LoopState, GuardTypeOK
<1>2. CmdAgrees' /\ SlotAgrees' /\ LastSignalWrites' /\ WishesAreStored'
  BY DEF GuardInv, LoopRecord, CmdAgrees, Paused, Live, Transition, nextTick, LoopState,
     GuardTypeOK, SlotAgrees, guardHistory, Pending, LastSignalWrites, ActiveOverrides,
     WishesAreStored
<1>3. PausedMeansStopped'
  BY DEF GuardInv, LoopRecord, Paused, guardHistory, TrainingPaused, Transition, nextTick,
     Settled, LoopState, GuardTypeOK, SlotAgrees, LastSignalWrites, PausedMeansStopped
<1>4. QED
  BY <1>1, <1>2, <1>3 DEF GuardInv

\* A pause finds a running training.
LEMMA PauseBeginInv ==
  ASSUME GuardInv, NEW c \in GuardCmd, PauseBegin(c)
  PROVE  GuardInv'
<1>1. GuardTypeOK'
  BY DEF GuardInv, PauseBegin, Paused, Live, guardHistory, GuardTypeOK
<1>2. CmdAgrees'
  BY DEF GuardInv, PauseBegin, Live, SlotAgrees, CmdAgrees
<1>3. SlotAgrees' /\ LastSignalWrites' /\ PausedMeansStopped' /\ WishesAreStored'
  BY DEF GuardInv, PauseBegin, SlotAgrees, guardHistory, Pending, LastSignalWrites,
     TrainingPaused, Settled, PausedMeansStopped, ActiveOverrides, WishesAreStored
<1>4. QED
  BY <1>1, <1>2, <1>3 DEF GuardInv

\* A resume finds a paused training.
LEMMA ResumeBeginInv ==
  ASSUME GuardInv, NEW c \in GuardCmd, ResumeBegin(c)
  PROVE  GuardInv'
<1>1. GuardTypeOK'
  BY DEF GuardInv, ResumeBegin, Live, guardHistory, TrainingPaused, GuardTypeOK
<1>2. CmdAgrees'
  BY DEF GuardInv, ResumeBegin, Paused, Live, TrainingPaused, SlotAgrees, CmdAgrees
<1>3. SlotAgrees' /\ LastSignalWrites' /\ PausedMeansStopped' /\ WishesAreStored'
  BY DEF GuardInv, ResumeBegin, SlotAgrees, guardHistory, Pending, LastSignalWrites,
     TrainingPaused, Settled, PausedMeansStopped, ActiveOverrides, WishesAreStored
<1>4. QED
  BY <1>1, <1>2, <1>3 DEF GuardInv

\* A resume stores its override.
LEMMA ResumeOverrideInv ==
  ASSUME GuardInv, NEW c \in GuardCmd, ResumeOverride(c)
  PROVE  GuardInv'
<1>1. GuardTypeOK'
  BY DEF GuardInv, ResumeOverride, Cause, CmdAgrees, GuardTypeOK
<1>2. CmdAgrees' /\ SlotAgrees' /\ LastSignalWrites' /\ PausedMeansStopped'
  BY DEF GuardInv, ResumeOverride, GuardTypeOK, CmdAgrees, SlotAgrees, Pending,
     LastSignalWrites, TrainingPaused, Settled, PausedMeansStopped
<1>3. WishesAreStored'
  BY DEF GuardInv, ResumeOverride, Cause, GuardTypeOK, CmdAgrees, WishesAreStored
<1>4. QED
  BY <1>1, <1>2, <1>3 DEF GuardInv

\* A command sends its signal.
LEMMA CmdSignalInv ==
  ASSUME GuardInv, NEW c \in GuardCmd, CmdSignal(c)
  PROVE  GuardInv'
<1>1. GuardTypeOK'
  <2>1. CASE /\ gProc[gCmd[c].pid] = "gone" /\ gCmd' = [gCmd EXCEPT ![c] = IdleCmd]
             /\ UNCHANGED <<gProc, gCrossed>>
    BY <2>1, NoTrainerIsNone DEF GuardInv, GuardTypeOK, Live, CmdSignal, IdleCmd
  <2>2. CASE /\ gCmd' = [gCmd EXCEPT ![c].pc = "record"]
             /\ SignalGroup(gCmd[c].pid, IF gCmd[c].status = "running" THEN "running" ELSE "stopped")
    <3>1. gCmd[c].pid \in Trainer /\ gCmd[c].pc = "signal"
      BY DEF GuardInv, CmdAgrees, CmdSignal
    <3>2. QED
      BY <2>2, <3>1, SignalMarks, NoTrainerIsNone DEF GuardInv, GuardTypeOK, CmdSignal
  <2>3. QED
    BY <2>1, <2>2 DEF CmdSignal
<1>2. CmdAgrees' /\ SlotAgrees' /\ WishesAreStored'
  BY DEF GuardInv, CmdSignal, IdleCmd, SignalGroup, GuardTypeOK, CmdAgrees, SlotAgrees,
     ActiveOverrides, WishesAreStored
<1>3. LastSignalWrites'
  <2>1. CASE /\ gProc[gCmd[c].pid] = "gone" /\ gCmd' = [gCmd EXCEPT ![c] = IdleCmd]
             /\ UNCHANGED <<gProc, gCrossed>>
    BY <2>1, NoTrainerIsNone DEF GuardInv, GuardTypeOK, LastSignalWrites, Pending, CmdSignal,
       IdleCmd
  <2>2. CASE /\ gCmd' = [gCmd EXCEPT ![c].pc = "record"]
             /\ SignalGroup(gCmd[c].pid, IF gCmd[c].status = "running" THEN "running" ELSE "stopped")
    <3>1. gCmd[c].pid \in Trainer /\ gCmd[c].pc = "signal"
      BY DEF GuardInv, CmdAgrees, CmdSignal
    <3>2. QED
      BY <2>2, <3>1, SignalMarks, NoTrainerIsNone DEF GuardInv, GuardTypeOK, LastSignalWrites,
         Pending, CmdSignal
  <2>3. QED
    BY <2>1, <2>2 DEF CmdSignal
<1>4. PausedMeansStopped'
  <2>1. CASE /\ gProc[gCmd[c].pid] = "gone" /\ gCmd' = [gCmd EXCEPT ![c] = IdleCmd]
             /\ UNCHANGED <<gProc, gCrossed>>
    BY <2>1, NoTrainerIsNone DEF GuardInv, GuardTypeOK, PausedMeansStopped, Settled,
       TrainingPaused, CmdSignal, IdleCmd
  <2>2. CASE /\ gCmd' = [gCmd EXCEPT ![c].pc = "record"]
             /\ SignalGroup(gCmd[c].pid, IF gCmd[c].status = "running" THEN "running" ELSE "stopped")
    <3>1. gCmd[c].pid \in Trainer /\ gCmd[c].pc = "signal"
      BY DEF GuardInv, CmdAgrees, CmdSignal
    <3>2. QED
      BY <2>2, <3>1, SignalMarks, NoTrainerIsNone DEF GuardInv, GuardTypeOK, PausedMeansStopped,
         Settled, TrainingPaused, CmdSignal
  <2>3. QED
    BY <2>1, <2>2 DEF CmdSignal
<1>5. QED
  BY <1>1, <1>2, <1>3, <1>4 DEF GuardInv

\* A command writes its status.
LEMMA CmdRecordInv ==
  ASSUME GuardInv, NEW c \in GuardCmd, CmdRecord(c)
  PROVE  GuardInv'
<1>1. GuardTypeOK'
  BY DEF GuardInv, CmdRecord, Live, IdleCmd, guardHistory, Transition, GuardTypeOK
<1>2. CmdAgrees' /\ LastSignalWrites' /\ WishesAreStored'
  BY DEF GuardInv, CmdRecord, IdleCmd, CmdAgrees, guardHistory, Pending, LastSignalWrites,
     ActiveOverrides, WishesAreStored
<1>3. SlotAgrees'
  BY DEF GuardInv, CmdRecord, Cause, Paused, Live, Transition, CmdAgrees, SlotAgrees
<1>4. PausedMeansStopped'
  BY DEF GuardInv, CmdRecord, Cause, Paused, Live, guardHistory, TrainingPaused, Transition,
     Settled, Pending, GuardTypeOK, SlotAgrees, LastSignalWrites, PausedMeansStopped
<1>5. QED
  BY <1>1, <1>2, <1>3, <1>4 DEF GuardInv

\* Every step keeps the invariant: one case for each action.
LEMMA GuardNextInv == GuardInv /\ [GuardNext]_guardVars => GuardInv'
<1> SUFFICES ASSUME GuardInv, [GuardNext]_guardVars PROVE GuardInv'
  OBVIOUS
<1>1. ASSUME NEW t \in Trainer, GuardSpawn(t) PROVE GuardInv'
  BY <1>1, GuardSpawnInv
<1>2. ASSUME NEW t \in Trainer, GuardExit(t) PROVE GuardInv'
  BY <1>2, GuardExitInv
<1>3. ASSUME NEW t \in Trainer, GuardFinalize(t) PROVE GuardInv'
  BY <1>3, GuardFinalizeInv
<1>4. ASSUME SetGuardConfig PROVE GuardInv'
  BY <1>4, SetGuardConfigInv
<1>5. ASSUME PressureRises PROVE GuardInv'
  BY <1>5, PressureRisesInv
<1>6. ASSUME NEW t \in Trainer, LoopStart(t) PROVE GuardInv'
  BY <1>6, LoopStartInv
<1>7. ASSUME NEW t \in Trainer, LoopEnds(t) PROVE GuardInv'
  BY <1>7, LoopEndsInv
<1>8. ASSUME NEW t \in Trainer, LoopTick(t) PROVE GuardInv'
  BY <1>8, LoopTickInv
<1>9. ASSUME NEW t \in Trainer, LoopMeasure(t) PROVE GuardInv'
  BY <1>9, LoopMeasureInv
<1>10. ASSUME NEW t \in Trainer, LoopRecord(t) PROVE GuardInv'
  BY <1>10, LoopRecordInv
<1>11. ASSUME NEW c \in GuardCmd, PauseBegin(c) PROVE GuardInv'
  BY <1>11, PauseBeginInv
<1>12. ASSUME NEW c \in GuardCmd, ResumeBegin(c) PROVE GuardInv'
  BY <1>12, ResumeBeginInv
<1>13. ASSUME NEW c \in GuardCmd, ResumeOverride(c) PROVE GuardInv'
  BY <1>13, ResumeOverrideInv
<1>14. ASSUME NEW c \in GuardCmd, CmdSignal(c) PROVE GuardInv'
  BY <1>14, CmdSignalInv
<1>15. ASSUME NEW c \in GuardCmd, CmdRecord(c) PROVE GuardInv'
  BY <1>15, CmdRecordInv
<1>16. CASE UNCHANGED guardVars
  BY <1>16 DEF guardVars, GuardInv, GuardTypeOK, CmdAgrees, SlotAgrees, LastSignalWrites, Pending,
     PausedMeansStopped, Settled, TrainingPaused, WishesAreStored, ActiveOverrides
<1>17. QED
  BY <1>1, <1>2, <1>3, <1>4, <1>5, <1>6, <1>7, <1>8, <1>9, <1>10, <1>11, <1>12,
   <1>13, <1>14, <1>15, <1>16 DEF GuardNext, LoopStep, CmdStep

\* The invariant holds throughout, for any trainings, commands and settings.
THEOREM GuardInvariant == GuardSpec => []GuardInv
BY GuardInitInv, GuardNextInv, PTL DEF GuardSpec

\* PausedMeansStopped: with no status left to write and no crossed signals, the
\* slot says paused exactly while the process is stopped (apply_signal_transition).
THEOREM PausedAlwaysMeansStopped == GuardSpec => []PausedMeansStopped
<1>1. GuardInv => PausedMeansStopped
  BY DEF GuardInv
<1>2. QED
  BY <1>1, GuardInvariant, PTL

\* A measurement that asks for a pause names a cause that is not overridden,
\* unless memory is critical.
LEMMA CauseIsNotSeen ==
  ASSUME NEW level, NEW onBattery, NEW thermal, NEW seen, level # "critical",
         NEW cause \in PauseCauses(level, onBattery, thermal, seen)
  PROVE  cause \notin seen
<1>1. CASE MemoryPauses(level, seen)
  BY <1>1 DEF PauseCauses, MemoryPauses
<1>2. CASE ~MemoryPauses(level, seen) /\ BatteryPauses(onBattery, seen)
  BY <1>2 DEF PauseCauses, BatteryPauses
<1>3. CASE ~MemoryPauses(level, seen) /\ ~BatteryPauses(onBattery, seen) /\ ThermalPauses(thermal, seen)
  BY <1>3 DEF PauseCauses, ThermalPauses
<1>4. QED
  BY <1>1, <1>2, <1>3 DEF PauseCauses

\* A loop that has measured pauses for no cause that the user resumed from.
LEMMA StepHoldsOverrides ==
  ASSUME GuardInv, [GuardNext]_guardVars, NEW t \in Trainer,
         gLoop[t].pc = "measure", gLoop'[t].pc = "record", ~gLoop'[t].urgent, t \notin taken
  PROVE  gLoop'[t].cause \notin wished[t]
<1>1. LoopMeasure(t)
  <2>1. ASSUME NEW s \in Trainer, LoopMeasure(s), s # t PROVE FALSE
    BY <2>1 DEF GuardInv, GuardTypeOK, LoopMeasure, nextTick
  <2>2. ASSUME NEW s \in Trainer, \/ GuardSpawn(s) \/ LoopStart(s) \/ LoopEnds(s)
                                  \/ LoopTick(s) \/ LoopRecord(s)
        PROVE  FALSE
    BY <2>2 DEF GuardInv, GuardTypeOK, SlotAgrees, GuardSpawn, LoopStart, LoopEnds, LoopTick,
       LoopRecord,
       loopAt, nextTick, IdleLoop
  <2>3. CASE UNCHANGED gLoop
    BY <2>3
  <2>4. QED
    BY <2>1, <2>2, <2>3 DEF GuardNext, guardVars, LoopStep, CmdStep, GuardExit, GuardFinalize,
       PauseBegin,
       ResumeBegin, ResumeOverride, CmdSignal, CmdRecord, SetGuardConfig, PressureRises
<1>2. PICK level \in Levels, onBattery \in BOOLEAN, thermal \in Thermal :
        \E cause \in PauseCauses(level, onBattery, thermal, gLoop[t].seen) :
          gLoop'[t].cause = cause /\ gLoop'[t].urgent = (level = "critical")
  BY <1>1 DEF LoopMeasure, nextTick, IdleLoop, GuardInv, GuardTypeOK
<1>3. gLoop'[t].cause \notin gLoop[t].seen
  BY <1>2, CauseIsNotSeen
<1>4. QED
  BY <1>3 DEF GuardInv, WishesAreStored

\* UserOverridesHold: an automatic pause, memory not critical, never repeats a
\* cause the user resumed the training from (guardrail_loop, resume_overrides).
THEOREM OverridesAlwaysHold == GuardSpec => UserOverridesHold
<1>1. GuardInv /\ [GuardNext]_guardVars =>
        [\A t \in Trainer : (gLoop[t].pc = "measure" /\ gLoop'[t].pc = "record"
                               /\ ~gLoop'[t].urgent /\ t \notin taken)
                             => gLoop'[t].cause \notin wished[t]]_guardVars
  BY StepHoldsOverrides
<1>2. QED
  BY <1>1, GuardInvariant, PTL DEF GuardSpec, UserOverridesHold

\* FinishedStaysFinished: no pause or resume that was on its way makes a slot
\* live again; only a new process does (apply_signal_transition).
THEOREM FinishedAlwaysStays == GuardSpec => FinishedStaysFinished
<1>1. ASSUME GuardInv, [GuardNext]_guardVars, gSlot.status \notin Live, gSlot'.status \in Live
      PROVE  gProc[gSlot'.pid] = "new"
  <2>1. ASSUME NEW t \in Trainer, GuardSpawn(t) PROVE gProc[gSlot'.pid] = "new"
    BY <2>1 DEF GuardSpawn
  <2>2. ASSUME NEW t \in Trainer, GuardFinalize(t) PROVE FALSE
    BY <1>1, <2>2 DEF GuardFinalize
  <2>3. ASSUME NEW t, NEW status, gSlot' = Transition(t, status) PROVE FALSE
    BY <1>1, <2>3 DEF Transition
  <2>4. CASE UNCHANGED gSlot
    BY <1>1, <2>4
  <2>5. QED
    BY <1>1, <2>1, <2>2, <2>3, <2>4 DEF GuardNext, guardVars, LoopStep, CmdStep, GuardExit,
       LoopStart,
       LoopEnds, LoopTick, LoopMeasure, LoopRecord, PauseBegin, ResumeBegin, ResumeOverride,
       CmdSignal,
       CmdRecord, SetGuardConfig, PressureRises
<1>2. GuardInv /\ [GuardNext]_guardVars =>
        [(gSlot.status \notin Live /\ gSlot'.status \in Live) => gProc[gSlot'.pid] = "new"]_guardVars
  BY <1>1
<1>3. QED
  BY <1>2, GuardInvariant, PTL DEF GuardSpec, FinishedStaysFinished
=============================================================================
