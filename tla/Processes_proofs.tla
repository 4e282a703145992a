-------------------------- MODULE Processes_proofs --------------------------
\* Processes and who may start or stop them: the Prefect runner, the authority of
\* executions, orphans and their markers.
EXTENDS PrefectRunner, ExecutionAuthority, OrphanMarkers, TLAPS

-----------------------------------------------------------------------------
\* The Prefect runner, for any processes, commands and environments.

SlotOwners == Runner \cup {NoRunner, Starting}

PrTypeOK ==
  /\ runnerPid \in SlotOwners
  /\ runner \in [Runner -> {"new", "running", "gone"}]
  /\ rdr \in [Runner -> {"off", "waiting", "current", "report", "done"}]
  /\ runCall \in [RunCall -> [pc : {"idle", "start", "publish", "clear", "term", "kill", "forget"},
                              pid : SlotOwners]]
  /\ crossed \in BOOLEAN /\ struckSelf \in BOOLEAN

Reserves(c) == runCall[c].pc \in {"start", "publish"}

\* Until a reader empties the slot of a later owner, a start that reserved the
\* slot finds it reserved when it publishes, and is the only one.
ReservationHolds ==
  ~crossed =>
    /\ \A c \in RunCall : Reserves(c) => runnerPid = Starting
    /\ \A c, d \in RunCall : Reserves(c) /\ Reserves(d) => c = d

\* What a start spawned is a runner of its own.
SpawnedIsRunner == \A c \in RunCall : runCall[c].pc = "publish" => runCall[c].pid \in Runner

\* The slot is emptied of processes that have ended: by their readers, and by a
\* stop after it killed the group.
EmptiedIsGone ==
  /\ \A r \in Runner : rdr[r] = "current" => runner[r] = "gone"
  /\ \A c \in RunCall : runCall[c].pc = "forget" /\ runCall[c].pid \in Runner
                          => runner[runCall[c].pid] = "gone"

\* A stop that found a reservation has ended the program itself.
GroupZero ==
  /\ \A c \in RunCall : runCall[c].pc \in {"term", "kill", "forget"} => runCall[c].pid # NoRunner
  /\ \A c \in RunCall : runCall[c].pc = "kill" /\ runCall[c].pid = Starting => struckSelf
  /\ \A c \in RunCall : runCall[c].pc = "forget" => runCall[c].pid # Starting

RunnerIsKnown ==
  ~crossed => \A r \in Runner : runner[r] = "running" =>
    \/ runnerPid = r
    \/ \E c \in RunCall : runCall[c].pc = "publish" /\ runCall[c].pid = r

OnePip ==
  /\ setup \in [Setups -> {"idle", "installing", "done", "error"}]
  /\ pip = [k \in Setups |-> IF setup[k] = "installing" THEN 1 ELSE 0]

PrInv ==
  /\ PrTypeOK /\ ReservationHolds /\ SpawnedIsRunner /\ EmptiedIsGone /\ GroupZero
  /\ RunnerIsKnown /\ OnePip
-----------------------------------------------------------------------------
\* At the start the slot is empty and nothing runs.
LEMMA PrInitInv == PrInit => PrInv
<1> SUFFICES ASSUME PrInit PROVE PrInv
  OBVIOUS
<1>1. PrTypeOK
  BY DEF PrInit, PrTypeOK, SlotOwners, QuietRun
<1>2. ReservationHolds /\ SpawnedIsRunner /\ GroupZero
  BY DEF PrInit, ReservationHolds, SpawnedIsRunner, GroupZero, Reserves, QuietRun
<1>3. EmptiedIsGone /\ RunnerIsKnown
  BY DEF PrInit, EmptiedIsGone, RunnerIsKnown, QuietRun
<1>4. OnePip
  BY DEF PrInit, OnePip
<1>5. QED
  BY <1>1, <1>2, <1>3, <1>4 DEF PrInv

\* A start reserves the empty slot: nothing runs then.
LEMMA ReserveRunnerInv ==
  ASSUME PrInv, NEW c \in RunCall, ReserveRunner(c)
  PROVE  PrInv'
<1>1. PrTypeOK'
  BY PrefectRunnerAssumption DEF PrInv, ReserveRunner, QuietRun, RunGoes, SlotOwners,
     PrTypeOK
<1>2. ReservationHolds'
  BY PrefectRunnerAssumption DEF PrInv, ReserveRunner, QuietRun, RunGoes, Reserves,
     ReservationHolds
<1>3. SpawnedIsRunner'
  BY PrefectRunnerAssumption DEF PrInv, ReserveRunner, QuietRun, RunGoes, SpawnedIsRunner
<1>4. EmptiedIsGone'
  BY PrefectRunnerAssumption DEF PrInv, ReserveRunner, QuietRun, RunGoes, EmptiedIsGone
<1>5. GroupZero'
  BY PrefectRunnerAssumption DEF PrInv, ReserveRunner, QuietRun, RunGoes, GroupZero
<1>6. RunnerIsKnown'
  BY PrefectRunnerAssumption DEF PrInv, ReserveRunner, QuietRun, RunGoes, RunnerIsKnown
<1>7. OnePip'
  BY PrefectRunnerAssumption DEF PrInv, ReserveRunner, QuietRun, OnePip
<1>8. QED
  BY <1>1, <1>2, <1>3, <1>4, <1>5, <1>6, <1>7 DEF PrInv

\* A start fails and gives the slot back.
LEMMA StartRunnerFailsInv ==
  ASSUME PrInv, NEW c \in RunCall, StartRunnerFails(c)
  PROVE  PrInv'
<1>1. PrTypeOK'
  BY PrefectRunnerAssumption DEF PrInv, StartRunnerFails, QuietRun, RunGoes, SlotOwners,
     PrTypeOK
<1>2. ReservationHolds'
  BY PrefectRunnerAssumption DEF PrInv, StartRunnerFails, QuietRun, RunGoes, Reserves,
     PrTypeOK, ReservationHolds
<1>3. SpawnedIsRunner'
  BY PrefectRunnerAssumption DEF PrInv, StartRunnerFails, QuietRun, RunGoes, SpawnedIsRunner
<1>4. EmptiedIsGone'
  BY PrefectRunnerAssumption DEF PrInv, StartRunnerFails, QuietRun, RunGoes, EmptiedIsGone
<1>5. GroupZero'
  BY PrefectRunnerAssumption DEF PrInv, StartRunnerFails, QuietRun, RunGoes, GroupZero
<1>6. RunnerIsKnown'
  BY PrefectRunnerAssumption DEF PrInv, StartRunnerFails, QuietRun, Reserves,
     ReservationHolds, RunnerIsKnown
<1>7. OnePip'
  BY PrefectRunnerAssumption DEF PrInv, StartRunnerFails, QuietRun, OnePip
<1>8. QED
  BY <1>1, <1>2, <1>3, <1>4, <1>5, <1>6, <1>7 DEF PrInv

\* A start spawns a runner, beside which no other runs.
LEMMA SpawnRunnerInv ==
  ASSUME PrInv, NEW c \in RunCall, NEW r \in Runner, SpawnRunner(c, r)
  PROVE  PrInv'
<1>1. PrTypeOK'
  BY PrefectRunnerAssumption DEF PrInv, SpawnRunner, QuietRun, RunGoes, SlotOwners, PrTypeOK
<1>2. ReservationHolds'
  BY PrefectRunnerAssumption DEF PrInv, SpawnRunner, QuietRun, RunGoes, Reserves,
     ReservationHolds
<1>3. SpawnedIsRunner'
  BY PrefectRunnerAssumption DEF PrInv, SpawnRunner, QuietRun, RunGoes, SpawnedIsRunner
<1>4. EmptiedIsGone'
  BY PrefectRunnerAssumption DEF PrInv, SpawnRunner, QuietRun, RunGoes, EmptiedIsGone
<1>5. GroupZero'
  BY PrefectRunnerAssumption DEF PrInv, SpawnRunner, QuietRun, RunGoes, GroupZero
<1>6. RunnerIsKnown'
  BY PrefectRunnerAssumption DEF PrInv, SpawnRunner, QuietRun, RunGoes, PrTypeOK,
     RunnerIsKnown
<1>7. OnePip'
  BY PrefectRunnerAssumption DEF PrInv, SpawnRunner, QuietRun, OnePip
<1>8. QED
  BY <1>1, <1>2, <1>3, <1>4, <1>5, <1>6, <1>7 DEF PrInv

\* A start publishes its runner in the slot it reserved.
LEMMA PublishRunnerInv ==
  ASSUME PrInv, NEW c \in RunCall, PublishRunner(c)
  PROVE  PrInv'
<1>1. PrTypeOK'
  BY PrefectRunnerAssumption DEF PrInv, PublishRunner, QuietRun, RunGoes, PrTypeOK
<1>2. ReservationHolds'
  BY PrefectRunnerAssumption DEF PrInv, PublishRunner, QuietRun, RunGoes, Reserves,
     PrTypeOK, ReservationHolds
<1>3. SpawnedIsRunner'
  BY PrefectRunnerAssumption DEF PrInv, PublishRunner, QuietRun, RunGoes, SpawnedIsRunner
<1>4. EmptiedIsGone'
  BY PrefectRunnerAssumption DEF PrInv, PublishRunner, QuietRun, RunGoes, EmptiedIsGone
<1>5. GroupZero'
  BY PrefectRunnerAssumption DEF PrInv, PublishRunner, QuietRun, RunGoes, GroupZero
<1>6. RunnerIsKnown'
  BY PrefectRunnerAssumption DEF PrInv, PublishRunner, QuietRun, Reserves, ReservationHolds,
     RunnerIsKnown
<1>7. OnePip'
  BY PrefectRunnerAssumption DEF PrInv, PublishRunner, QuietRun, OnePip
<1>8. QED
  BY <1>1, <1>2, <1>3, <1>4, <1>5, <1>6, <1>7 DEF PrInv

\* A start clears the error of an earlier runner and hands over to the reader.
LEMMA ClearRunnerErrorInv ==
  ASSUME PrInv, NEW c \in RunCall, ClearRunnerError(c)
  PROVE  PrInv'
<1>1. PrTypeOK'
  BY PrefectRunnerAssumption DEF PrInv, ClearRunnerError, QuietRun, RunGoes, SlotOwners,
     PrTypeOK
<1>2. ReservationHolds'
  BY PrefectRunnerAssumption DEF PrInv, ClearRunnerError, QuietRun, RunGoes, Reserves,
     ReservationHolds
<1>3. SpawnedIsRunner'
  BY PrefectRunnerAssumption DEF PrInv, ClearRunnerError, QuietRun, RunGoes, SpawnedIsRunner
<1>4. EmptiedIsGone'
  BY PrefectRunnerAssumption DEF PrInv, ClearRunnerError, QuietRun, RunGoes, EmptiedIsGone
<1>5. GroupZero'
  BY PrefectRunnerAssumption DEF PrInv, ClearRunnerError, QuietRun, RunGoes, GroupZero
<1>6. RunnerIsKnown'
  BY PrefectRunnerAssumption DEF PrInv, ClearRunnerError, QuietRun, RunGoes, RunnerIsKnown
<1>7. OnePip'
  BY PrefectRunnerAssumption DEF PrInv, ClearRunnerError, QuietRun, OnePip
<1>8. QED
  BY <1>1, <1>2, <1>3, <1>4, <1>5, <1>6, <1>7 DEF PrInv

\* A runner ends.
LEMMA RunnerEndsInv ==
  ASSUME PrInv, NEW r \in Runner, RunnerEnds(r)
  PROVE  PrInv'
<1>1. PrTypeOK'
  BY PrefectRunnerAssumption DEF PrInv, RunnerEnds, QuietRun, PrTypeOK
<1>2. ReservationHolds'
  BY PrefectRunnerAssumption DEF PrInv, RunnerEnds, QuietRun, Reserves, ReservationHolds
<1>3. SpawnedIsRunner'
  BY PrefectRunnerAssumption DEF PrInv, RunnerEnds, QuietRun, SpawnedIsRunner
<1>4. EmptiedIsGone'
  BY PrefectRunnerAssumption DEF PrInv, RunnerEnds, QuietRun, EmptiedIsGone
<1>5. GroupZero'
  BY PrefectRunnerAssumption DEF PrInv, RunnerEnds, QuietRun, GroupZero
<1>6. RunnerIsKnown'
  BY PrefectRunnerAssumption DEF PrInv, RunnerEnds, QuietRun, RunnerIsKnown
<1>7. OnePip'
  BY PrefectRunnerAssumption DEF PrInv, RunnerEnds, QuietRun, OnePip
<1>8. QED
  BY <1>1, <1>2, <1>3, <1>4, <1>5, <1>6, <1>7 DEF PrInv

\* The reader of a runner that ended compares the slot with its own.
LEMMA RdrLooksInv ==
  ASSUME PrInv, NEW r \in Runner, RdrLooks(r)
  PROVE  PrInv'
<1>1. PrTypeOK'
  BY PrefectRunnerAssumption DEF PrInv, RdrLooks, QuietRun, PrTypeOK
<1>2. ReservationHolds'
  BY PrefectRunnerAssumption DEF PrInv, RdrLooks, QuietRun, Reserves, ReservationHolds
<1>3. SpawnedIsRunner'
  BY PrefectRunnerAssumption DEF PrInv, RdrLooks, QuietRun, SpawnedIsRunner
<1>4. EmptiedIsGone'
  BY PrefectRunnerAssumption DEF PrInv, RdrLooks, QuietRun, EmptiedIsGone
<1>5. GroupZero'
  BY PrefectRunnerAssumption DEF PrInv, RdrLooks, QuietRun, GroupZero
<1>6. RunnerIsKnown'
  BY PrefectRunnerAssumption DEF PrInv, RdrLooks, QuietRun, RunnerIsKnown
<1>7. OnePip'
  BY PrefectRunnerAssumption DEF PrInv, RdrLooks, QuietRun, OnePip
<1>8. QED
  BY <1>1, <1>2, <1>3, <1>4, <1>5, <1>6, <1>7 DEF PrInv

\* The reader empties the slot: another owner, if any, is what crossed records.
LEMMA RdrClearsInv ==
  ASSUME PrInv, NEW r \in Runner, RdrClears(r)
  PROVE  PrInv'
<1>1. PrTypeOK'
  BY PrefectRunnerAssumption DEF PrInv, RdrClears, QuietRun, SlotOwners, PrTypeOK
<1>2. ReservationHolds'
  BY PrefectRunnerAssumption DEF PrInv, RdrClears, QuietRun, Reserves, ReservationHolds
<1>3. SpawnedIsRunner'
  BY PrefectRunnerAssumption DEF PrInv, RdrClears, QuietRun, SpawnedIsRunner
<1>4. EmptiedIsGone'
  BY PrefectRunnerAssumption DEF PrInv, RdrClears, QuietRun, EmptiedIsGone
<1>5. GroupZero'
  BY PrefectRunnerAssumption DEF PrInv, RdrClears, QuietRun, GroupZero
<1>6. RunnerIsKnown'
  BY PrefectRunnerAssumption DEF PrInv, RdrClears, QuietRun, EmptiedIsGone, RunnerIsKnown
<1>7. OnePip'
  BY PrefectRunnerAssumption DEF PrInv, RdrClears, QuietRun, OnePip
<1>8. QED
  BY <1>1, <1>2, <1>3, <1>4, <1>5, <1>6, <1>7 DEF PrInv

\* The reader reports.
LEMMA RdrReportsInv ==
  ASSUME PrInv, NEW r \in Runner, RdrReports(r)
  PROVE  PrInv'
<1>1. PrTypeOK'
  BY PrefectRunnerAssumption DEF PrInv, RdrReports, QuietRun, PrTypeOK
<1>2. ReservationHolds'
  BY PrefectRunnerAssumption DEF PrInv, RdrReports, QuietRun, Reserves, ReservationHolds
<1>3. SpawnedIsRunner'
  BY PrefectRunnerAssumption DEF PrInv, RdrReports, QuietRun, SpawnedIsRunner
<1>4. EmptiedIsGone'
  BY PrefectRunnerAssumption DEF PrInv, RdrReports, QuietRun, EmptiedIsGone
<1>5. GroupZero'
  BY PrefectRunnerAssumption DEF PrInv, RdrReports, QuietRun, GroupZero
<1>6. RunnerIsKnown'
  BY PrefectRunnerAssumption DEF PrInv, RdrReports, QuietRun, RunnerIsKnown
<1>7. OnePip'
  BY PrefectRunnerAssumption DEF PrInv, RdrReports, QuietRun, OnePip
<1>8. QED
  BY <1>1, <1>2, <1>3, <1>4, <1>5, <1>6, <1>7 DEF PrInv

\* A stop reads the slot.
LEMMA StopRunnerInv ==
  ASSUME PrInv, NEW c \in RunCall, StopRunner(c)
  PROVE  PrInv'
<1>1. PrTypeOK'
  BY PrefectRunnerAssumption DEF PrInv, StopRunner, QuietRun, RunGoes, PrTypeOK
<1>2. ReservationHolds'
  BY PrefectRunnerAssumption DEF PrInv, StopRunner, QuietRun, RunGoes, Reserves,
     ReservationHolds
<1>3. SpawnedIsRunner'
  BY PrefectRunnerAssumption DEF PrInv, StopRunner, QuietRun, RunGoes, SpawnedIsRunner
<1>4. EmptiedIsGone'
  BY PrefectRunnerAssumption DEF PrInv, StopRunner, QuietRun, RunGoes, EmptiedIsGone
<1>5. GroupZero'
  BY PrefectRunnerAssumption DEF PrInv, StopRunner, QuietRun, RunGoes, GroupZero
<1>6. RunnerIsKnown'
  BY PrefectRunnerAssumption DEF PrInv, StopRunner, QuietRun, RunGoes, RunnerIsKnown
<1>7. OnePip'
  BY PrefectRunnerAssumption DEF PrInv, StopRunner, QuietRun, OnePip
<1>8. QED
  BY <1>1, <1>2, <1>3, <1>4, <1>5, <1>6, <1>7 DEF PrInv

\* A stop sends SIGTERM.
LEMMA TermRunnerInv ==
  ASSUME PrInv, NEW c \in RunCall, ~struckSelf, TermRunner(c)
  PROVE  PrInv'
<1>1. PrTypeOK'
  BY PrefectRunnerAssumption DEF PrInv, TermRunner, QuietRun, RunGoes, PrTypeOK
<1>2. ReservationHolds'
  BY PrefectRunnerAssumption DEF PrInv, TermRunner, QuietRun, RunGoes, Reserves,
     ReservationHolds
<1>3. SpawnedIsRunner'
  BY PrefectRunnerAssumption DEF PrInv, TermRunner, QuietRun, RunGoes, SpawnedIsRunner
<1>4. EmptiedIsGone'
  BY PrefectRunnerAssumption DEF PrInv, TermRunner, QuietRun, RunGoes, EmptiedIsGone
<1>5. GroupZero'
  <2>1. runCall[c].pid = Starting => struckSelf'
    BY DEF TermRunner
  <2>2. QED
    BY <2>1 DEF PrInv, TermRunner, RunGoes, PrTypeOK, GroupZero
<1>6. RunnerIsKnown'
  BY PrefectRunnerAssumption DEF PrInv, TermRunner, QuietRun, RunGoes, RunnerIsKnown
<1>7. OnePip'
  BY PrefectRunnerAssumption DEF PrInv, TermRunner, QuietRun, OnePip
<1>8. QED
  BY <1>1, <1>2, <1>3, <1>4, <1>5, <1>6, <1>7 DEF PrInv

\* A stop kills what is left of the group.
LEMMA KillRunnerInv ==
  ASSUME PrInv, NEW c \in RunCall, ~struckSelf, KillRunner(c)
  PROVE  PrInv'
<1>1. PrTypeOK'
  BY PrefectRunnerAssumption DEF PrInv, KillRunner, QuietRun, RunGoes, PrTypeOK
<1>2. ReservationHolds'
  BY PrefectRunnerAssumption DEF PrInv, KillRunner, QuietRun, RunGoes, Reserves,
     ReservationHolds
<1>3. SpawnedIsRunner'
  BY PrefectRunnerAssumption DEF PrInv, KillRunner, QuietRun, RunGoes, SpawnedIsRunner
<1>4. EmptiedIsGone'
  BY PrefectRunnerAssumption DEF PrInv, KillRunner, QuietRun, RunGoes, PrTypeOK,
     EmptiedIsGone
<1>5. GroupZero'
  BY PrefectRunnerAssumption DEF PrInv, KillRunner, QuietRun, RunGoes, GroupZero
<1>6. RunnerIsKnown'
  BY PrefectRunnerAssumption DEF PrInv, KillRunner, QuietRun, RunGoes, RunnerIsKnown
<1>7. OnePip'
  BY PrefectRunnerAssumption DEF PrInv, KillRunner, QuietRun, OnePip
<1>8. QED
  BY <1>1, <1>2, <1>3, <1>4, <1>5, <1>6, <1>7 DEF PrInv

\* A stop empties the slot of the runner it ended.
LEMMA ForgetRunnerInv ==
  ASSUME PrInv, NEW c \in RunCall, ForgetRunner(c)
  PROVE  PrInv'
<1>1. PrTypeOK'
  BY PrefectRunnerAssumption DEF PrInv, ForgetRunner, QuietRun, RunGoes, SlotOwners,
     PrTypeOK
<1>2. ReservationHolds'
  BY PrefectRunnerAssumption DEF PrInv, ForgetRunner, QuietRun, RunGoes, Reserves,
     GroupZero, ReservationHolds
<1>3. SpawnedIsRunner'
  BY PrefectRunnerAssumption DEF PrInv, ForgetRunner, QuietRun, RunGoes, SpawnedIsRunner
<1>4. EmptiedIsGone'
  BY PrefectRunnerAssumption DEF PrInv, ForgetRunner, QuietRun, RunGoes, EmptiedIsGone
<1>5. GroupZero'
  BY PrefectRunnerAssumption DEF PrInv, ForgetRunner, QuietRun, RunGoes, GroupZero
<1>6. RunnerIsKnown'
  BY PrefectRunnerAssumption DEF PrInv, ForgetRunner, QuietRun, RunGoes, EmptiedIsGone,
     RunnerIsKnown
<1>7. OnePip'
  BY PrefectRunnerAssumption DEF PrInv, ForgetRunner, QuietRun, OnePip
<1>8. QED
  BY <1>1, <1>2, <1>3, <1>4, <1>5, <1>6, <1>7 DEF PrInv

\* An installation starts.
LEMMA SetUpInv ==
  ASSUME PrInv, NEW k \in Setups, SetUp(k)
  PROVE  PrInv'
<1>1. PrTypeOK'
  BY PrefectRunnerAssumption DEF PrInv, SetUp, QuietRun, PrTypeOK
<1>2. ReservationHolds'
  BY PrefectRunnerAssumption DEF PrInv, SetUp, QuietRun, Reserves, ReservationHolds
<1>3. SpawnedIsRunner'
  BY PrefectRunnerAssumption DEF PrInv, SetUp, QuietRun, SpawnedIsRunner
<1>4. EmptiedIsGone'
  BY PrefectRunnerAssumption DEF PrInv, SetUp, QuietRun, EmptiedIsGone
<1>5. GroupZero'
  BY PrefectRunnerAssumption DEF PrInv, SetUp, QuietRun, GroupZero
<1>6. RunnerIsKnown'
  BY PrefectRunnerAssumption DEF PrInv, SetUp, QuietRun, RunnerIsKnown
<1>7. OnePip'
  BY PrefectRunnerAssumption DEF PrInv, SetUp, QuietRun, OnePip
<1>8. QED
  BY <1>1, <1>2, <1>3, <1>4, <1>5, <1>6, <1>7 DEF PrInv

\* An installation ends.
LEMMA SetUpEndsInv ==
  ASSUME PrInv, NEW k \in Setups, SetUpEnds(k)
  PROVE  PrInv'
<1>1. PrTypeOK'
  BY PrefectRunnerAssumption DEF PrInv, SetUpEnds, QuietRun, PrTypeOK
<1>2. ReservationHolds'
  BY PrefectRunnerAssumption DEF PrInv, SetUpEnds, QuietRun, Reserves, ReservationHolds
<1>3. SpawnedIsRunner'
  BY PrefectRunnerAssumption DEF PrInv, SetUpEnds, QuietRun, SpawnedIsRunner
<1>4. EmptiedIsGone'
  BY PrefectRunnerAssumption DEF PrInv, SetUpEnds, QuietRun, EmptiedIsGone
<1>5. GroupZero'
  BY PrefectRunnerAssumption DEF PrInv, SetUpEnds, QuietRun, GroupZero
<1>6. RunnerIsKnown'
  BY PrefectRunnerAssumption DEF PrInv, SetUpEnds, QuietRun, RunnerIsKnown
<1>7. OnePip'
  BY PrefectRunnerAssumption DEF PrInv, SetUpEnds, QuietRun, OnePip
<1>8. QED
  BY <1>1, <1>2, <1>3, <1>4, <1>5, <1>6, <1>7 DEF PrInv

\* Every step keeps the invariant: one case for each action.
LEMMA PrNextInv == PrInv /\ [PrNext]_prVars => PrInv'
<1> SUFFICES ASSUME PrInv, [PrNext]_prVars PROVE PrInv'
  OBVIOUS
<1>1. ASSUME NEW c \in RunCall, ReserveRunner(c) PROVE PrInv'
  BY <1>1, ReserveRunnerInv
<1>2. ASSUME NEW c \in RunCall, StartRunnerFails(c) PROVE PrInv'
  BY <1>2, StartRunnerFailsInv
<1>3. ASSUME NEW c \in RunCall, NEW r \in Runner, SpawnRunner(c, r) PROVE PrInv'
  BY <1>3, SpawnRunnerInv
<1>4. ASSUME NEW c \in RunCall, PublishRunner(c) PROVE PrInv'
  BY <1>4, PublishRunnerInv
<1>5. ASSUME NEW c \in RunCall, ClearRunnerError(c) PROVE PrInv'
  BY <1>5, ClearRunnerErrorInv
<1>6. ASSUME NEW r \in Runner, RunnerEnds(r) PROVE PrInv'
  BY <1>6, RunnerEndsInv
<1>7. ASSUME NEW r \in Runner, RdrLooks(r) PROVE PrInv'
  BY <1>7, RdrLooksInv
<1>8. ASSUME NEW r \in Runner, RdrClears(r) PROVE PrInv'
  BY <1>8, RdrClearsInv
<1>9. ASSUME NEW r \in Runner, RdrReports(r) PROVE PrInv'
  BY <1>9, RdrReportsInv
<1>10. ASSUME NEW c \in RunCall, StopRunner(c) PROVE PrInv'
  BY <1>10, StopRunnerInv
<1>11. ASSUME NEW c \in RunCall, ~struckSelf, TermRunner(c) PROVE PrInv'
  BY <1>11, TermRunnerInv
<1>12. ASSUME NEW c \in RunCall, ~struckSelf, KillRunner(c) PROVE PrInv'
  BY <1>12, KillRunnerInv
<1>13. ASSUME NEW c \in RunCall, ForgetRunner(c) PROVE PrInv'
  BY <1>13, ForgetRunnerInv
<1>14. ASSUME NEW k \in Setups, SetUp(k) PROVE PrInv'
  BY <1>14, SetUpInv
<1>15. ASSUME NEW k \in Setups, SetUpEnds(k) PROVE PrInv'
  BY <1>15, SetUpEndsInv
<1>16. CASE UNCHANGED prVars
  BY <1>16 DEF prVars, PrInv, PrTypeOK, ReservationHolds, SpawnedIsRunner, EmptiedIsGone,
     GroupZero, RunnerIsKnown, OnePip, Reserves
<1>17. QED
  BY <1>1, <1>2, <1>3, <1>4, <1>5, <1>6, <1>7, <1>8, <1>9, <1>10, <1>11, <1>12,
   <1>13, <1>14, <1>15, <1>16 DEF PrNext

\* The invariant holds throughout, for any runners, commands and environments.
THEOREM RunnerInvariant == PrSpec => []PrInv
BY PrInitInv, PrNextInv, PTL DEF PrSpec

\* RunnerIsReachable: a runner that runs is the one the slot names or the one a
\* start is about to publish, there is no second one, and no environment is
\* installed into twice at once (commands/prefect.rs, runner_pid, env_setup).
THEOREM RunnerAlwaysReachable == PrSpec => []RunnerIsReachable
<1>1. ASSUME PrInv PROVE RunnerIsReachable
  <2>1. ASSUME NEW r \in Runner, NEW q \in Runner, ~crossed, runner[r] = "running", runner[q] = "running"
        PROVE  r = q
    BY <1>1, <2>1, PrefectRunnerAssumption DEF PrInv, RunnerIsKnown, ReservationHolds, Reserves
  <2>2. \A k \in Setups : pip[k] = IF setup[k] = "installing" THEN 1 ELSE 0
    BY <1>1 DEF PrInv, OnePip
  <2>3. QED
    BY <1>1, <2>1, <2>2 DEF PrInv, RunnerIsKnown, RunnerIsReachable
<1>2. QED
  BY <1>1, RunnerInvariant, PTL

-----------------------------------------------------------------------------
\* The execution boundary holds for any sessions, windows, callers and clock.

\* The end of a grant is a time, within its lifetime and within its session.
LEMMA GrantExpiryBound ==
  ASSUME NEW s \in Session, NEW ttl \in Ttl, now \in Nat
  PROVE  /\ GrantExpiry(s, ttl) \in Nat
         /\ GrantExpiry(s, ttl) <= Until[s]
BY ExecutionAuthorityAssumption DEF GrantExpiry

\* Initially nothing is granted, and nothing has run.
LEMMA EaInitInv == EaInit => EaInv
<1> SUFFICES ASSUME EaInit PROVE EaInv
  OBVIOUS
<1>1. EaTypeOK
  BY DEF EaInit, EaTypeOK, NoClaim
<1>2. GrantsAreNarrowed /\ RunsCarryTheDigest /\ RunsWithinItsSession /\ ActionsAreApproved
  BY DEF EaInit, GrantsAreNarrowed, RunsCarryTheDigest, RunsWithinItsSession, ActionsAreApproved
<1>3. ClaimsAreCovered
  BY DEF EaInit, ClaimsAreCovered, NoClaim
<1>4. UsedOnceMarked
  BY DEF EaInit, UsedOnceMarked
<1>5. QED
  BY <1>1, <1>2, <1>3, <1>4 DEF EaInv

\* A new grant keeps the invariant: it is narrowed to its session.
LEMMA IssueGrantInv ==
  ASSUME EaInv, NEW id \in GrantId, NEW s \in Session, NEW inv \in Presented,
         NEW risk \in RiskLevel, NEW ttl \in Ttl, IssueGrant(id, s, inv, risk, ttl)
  PROVE  EaInv'
<1> DEFINE g == [id |-> id, session |-> s, inv |-> inv, risk |-> risk,
                 issued |-> now, expires |-> GrantExpiry(s, ttl)]
<1>1. now \in Nat /\ GrantExpiry(s, ttl) \in Nat /\ GrantExpiry(s, ttl) <= Until[s]
  BY GrantExpiryBound DEF EaInv, EaTypeOK
<1>2. g \in Grant
  BY <1>1, ExecutionAuthorityAssumption DEF Grant
<1>3. grants' = grants \cup {g}
  BY DEF IssueGrant
<1>4. EaTypeOK'
  BY <1>2, <1>3 DEF EaInv, EaTypeOK, IssueGrant
<1>5. GrantsAreNarrowed'
  <2>1. /\ g.inv.scope \in Allows[g.session] /\ g.inv.policy = PolicyOf[g.session]
        /\ g.risk # "L2ProposedAction"
        /\ From[g.session] <= g.issued /\ g.expires <= Until[g.session]
    BY <1>1 DEF IssueGrant, SessionAllows
  <2>2. QED
    BY <1>3, <2>1 DEF EaInv, GrantsAreNarrowed
<1>6. ClaimsAreCovered'
  BY <1>3 DEF EaInv, ClaimsAreCovered, IssueGrant
<1>7. UsedOnceMarked' /\ RunsCarryTheDigest' /\ RunsWithinItsSession' /\ ActionsAreApproved'
  BY DEF EaInv, UsedOnceMarked, RunsCarryTheDigest, RunsWithinItsSession, ActionsAreApproved, IssueGrant
<1>8. QED
  BY <1>4, <1>5, <1>6, <1>7 DEF EaInv

\* A new approval keeps the invariant: nothing that was approved is withdrawn.
LEMMA ApproveInv ==
  ASSUME EaInv, NEW id \in ApprovalId, NEW gid \in GrantId, NEW inv \in Presented,
         NEW until \in 0..MaxTime, Approve(id, gid, inv, until)
  PROVE  EaInv'
<1> DEFINE a == [id |-> id, grant |-> gid, resolution |-> inv.resolution, digest |-> inv.digest,
                 from |-> now, until |-> until]
<1>0. inv \in Invocation
  BY ExecutionAuthorityAssumption
<1>1. a \in Approval
  BY <1>0, ExecutionAuthorityAssumption DEF EaInv, EaTypeOK, Approval, Invocation
<1>2. approvals' = approvals \cup {a}
  BY DEF Approve
<1>3. EaTypeOK'
  BY <1>1, <1>2 DEF EaInv, EaTypeOK, Approve
<1>4. GrantsAreNarrowed' /\ UsedOnceMarked' /\ RunsCarryTheDigest' /\ RunsWithinItsSession'
  BY DEF EaInv, GrantsAreNarrowed, UsedOnceMarked, RunsCarryTheDigest, RunsWithinItsSession, Approve
<1>5. ClaimsAreCovered'
  BY <1>2 DEF EaInv, ClaimsAreCovered, Approve
<1>6. ActionsAreApproved'
  BY <1>2 DEF EaInv, ActionsAreApproved, Approve
<1>7. QED
  BY <1>3, <1>4, <1>5, <1>6 DEF EaInv

\* What a live grant covers is within the session's window.
LEMMA CoveredIsWithin ==
  ASSUME EaInv, NEW g \in grants, NEW at \in Nat, g.issued <= at, at < g.expires
  PROVE  /\ g.inv.scope \in Allows[g.session] /\ g.inv.policy = PolicyOf[g.session]
         /\ g.risk # "L2ProposedAction"
         /\ From[g.session] <= at /\ at < Until[g.session]
<1>1. /\ g.inv.scope \in Allows[g.session] /\ g.inv.policy = PolicyOf[g.session]
      /\ g.risk # "L2ProposedAction"
      /\ From[g.session] <= g.issued /\ g.expires <= Until[g.session]
  BY DEF EaInv, GrantsAreNarrowed
<1>2. /\ g.issued \in Nat /\ g.expires \in Nat /\ g.session \in Session
  BY DEF EaInv, EaTypeOK, Grant
<1>3. From[g.session] \in Nat /\ Until[g.session] \in Nat
  BY <1>2, ExecutionAuthorityAssumption
<1>4. QED
  BY <1>1, <1>2, <1>3

\* A read-only run keeps the invariant.
LEMMA RunReadOnlyInv ==
  ASSUME EaInv, NEW g \in grants, NEW inv \in Presented, RunReadOnly(g, inv)
  PROVE  EaInv'
<1> DEFINE r == [grant |-> g, inv |-> inv, at |-> now]
<1>1. /\ now \in Nat /\ g \in Grant /\ inv \in Invocation /\ SameDigest(inv, g.inv)
      /\ g.issued <= now /\ now < g.expires
  BY ExecutionAuthorityAssumption DEF EaInv, EaTypeOK, RunReadOnly, GrantCovers, SameDigest
<1>2. ran' = ran \cup {r} /\ r \in Ran
  BY <1>1 DEF RunReadOnly, Ran
<1>3. /\ g.inv.scope \in Allows[g.session] /\ g.inv.policy = PolicyOf[g.session]
      /\ g.risk # "L2ProposedAction"
      /\ From[g.session] <= now /\ now < Until[g.session]
  BY <1>1, CoveredIsWithin
<1>4. EaTypeOK'
  BY <1>2 DEF EaInv, EaTypeOK, RunReadOnly
<1>5. GrantsAreNarrowed' /\ UsedOnceMarked' /\ ClaimsAreCovered'
  BY DEF EaInv, GrantsAreNarrowed, UsedOnceMarked, ClaimsAreCovered, RunReadOnly
<1>6. RunsCarryTheDigest' /\ RunsWithinItsSession'
  BY <1>1, <1>2, <1>3 DEF EaInv, RunsCarryTheDigest, RunsWithinItsSession, SameDigest
<1>7. ActionsAreApproved'
  BY <1>2, <1>3 DEF EaInv, ActionsAreApproved, RunReadOnly
<1>8. QED
  BY <1>4, <1>5, <1>6, <1>7 DEF EaInv

\* A claim that passed its validation is covered from then on.
LEMMA BeginClaimInv ==
  ASSUME EaInv, NEW x \in Executor, NEW g \in grants, NEW inv \in Presented,
         NEW a \in approvals, BeginClaim(x, g, inv, a)
  PROVE  EaInv'
<1> DEFINE r == [grant |-> g, inv |-> inv, at |-> now]
           c == [pc |-> "insert", run |-> r, by |-> a.id]
<1>1. now \in Nat /\ g \in Grant /\ a \in Approval /\ inv \in Invocation
  BY ExecutionAuthorityAssumption DEF EaInv, EaTypeOK
<1>2. /\ g.issued <= now /\ now < g.expires /\ SameDigest(inv, g.inv)
      /\ a.from <= now /\ now < a.until /\ a.grant = g.id
      /\ a.resolution = inv.resolution /\ a.digest = inv.digest
  BY DEF BeginClaim, GrantCovers, ApprovalCovers, SameDigest
<1>3. claim' = [claim EXCEPT ![x] = c]
  BY DEF BeginClaim
<1>4. c \in [pc : {"insert"}, run : Ran, by : ApprovalId]
  BY <1>1 DEF Ran, Approval
<1>5. UNCHANGED <<now, grants, approvals, consumed, ran, uses>>
  BY DEF BeginClaim
<1>6. EaTypeOK'
  BY <1>3, <1>4, <1>5 DEF EaInv, EaTypeOK
<1>7. /\ GrantsAreNarrowed' /\ UsedOnceMarked' /\ RunsCarryTheDigest' /\ RunsWithinItsSession'
      /\ ActionsAreApproved'
  BY <1>5 DEF EaInv, GrantsAreNarrowed, UsedOnceMarked, RunsCarryTheDigest, RunsWithinItsSession,
              ActionsAreApproved
<1>8. ClaimsAreCovered'
  <2>1. claim'[x] = c
    BY <1>3 DEF EaInv, EaTypeOK
  <2>2. \A y \in Executor : y # x => claim'[y] = claim[y]
    BY <1>3 DEF EaInv, EaTypeOK
  <2>3. c.run = r /\ r.grant = g /\ r.inv = inv /\ r.at = now /\ c.by = a.id
    OBVIOUS
  <2>4. QED
    BY <1>2, <1>5, <2>1, <2>2, <2>3 DEF EaInv, ClaimsAreCovered
<1>9. QED
  BY <1>6, <1>7, <1>8 DEF EaInv

\* The insertion lets the claimed action run, unless the approval was used.
LEMMA EndClaimInv ==
  ASSUME EaInv, NEW x \in Executor, EndClaim(x)
  PROVE  EaInv'
<1> DEFINE r == claim[x].run
           by == claim[x].by
<1>1. claim[x] \in [pc : {"insert"}, run : Ran, by : ApprovalId]
  BY DEF EaInv, EaTypeOK, EndClaim, NoClaim
<1>2. r \in Ran /\ by \in ApprovalId
  BY <1>1
<1>3. /\ r.grant \in grants /\ SameDigest(r.inv, r.grant.inv)
      /\ r.grant.issued <= r.at /\ r.at < r.grant.expires
      /\ \E a \in approvals : /\ a.id = by /\ a.grant = r.grant.id
                              /\ a.resolution = r.inv.resolution /\ a.digest = r.inv.digest
                              /\ a.from <= r.at /\ r.at < a.until
  BY DEF EaInv, ClaimsAreCovered, EndClaim
<1>4. /\ r.grant.inv.scope \in Allows[r.grant.session]
      /\ r.grant.inv.policy = PolicyOf[r.grant.session] /\ r.grant.risk # "L2ProposedAction"
      /\ From[r.grant.session] <= r.at /\ r.at < Until[r.grant.session]
  BY <1>2, <1>3, CoveredIsWithin DEF Ran
<1>5. UNCHANGED <<now, grants, approvals>>
  BY DEF EndClaim
<1>6. claim' \in [Executor -> {NoClaim} \cup [pc : {"insert"}, run : Ran, by : ApprovalId]]
  BY DEF EaInv, EaTypeOK, EndClaim
<1>7. ClaimsAreCovered'
  <2>1. claim'[x] = NoClaim
    BY DEF EaInv, EaTypeOK, EndClaim
  <2>2. \A y \in Executor : y # x => claim'[y] = claim[y]
    BY DEF EaInv, EaTypeOK, EndClaim
  <2>3. QED
    BY <1>5, <2>1, <2>2 DEF EaInv, ClaimsAreCovered, NoClaim
<1>8. CASE by \in consumed
  <2>1. UNCHANGED <<consumed, ran, uses>>
    BY <1>8 DEF EndClaim, Unused
  <2>2. QED
    BY <1>5, <1>6, <1>7, <2>1
    DEF EaInv, EaTypeOK, GrantsAreNarrowed, UsedOnceMarked, RunsCarryTheDigest,
        RunsWithinItsSession, ActionsAreApproved
<1>9. CASE by \notin consumed
  <2>1. /\ consumed' = consumed \cup {by} /\ ran' = ran \cup {r}
        /\ uses' = [uses EXCEPT ![by] = @ + 1]
    BY <1>9 DEF EndClaim, Unused
  <2>2. UsedOnceMarked'
    BY <1>2, <1>9, <2>1 DEF EaInv, EaTypeOK, UsedOnceMarked
  <2>3. EaTypeOK'
    BY <1>2, <1>5, <1>6, <2>1 DEF EaInv, EaTypeOK
  <2>4. GrantsAreNarrowed'
    BY <1>5 DEF EaInv, GrantsAreNarrowed
  <2>5. RunsCarryTheDigest' /\ RunsWithinItsSession'
    BY <1>3, <1>4, <2>1 DEF EaInv, RunsCarryTheDigest, RunsWithinItsSession, SameDigest
  <2>6. ActionsAreApproved'
    BY <1>3, <1>4, <1>5, <2>1 DEF EaInv, ActionsAreApproved
  <2>7. QED
    BY <1>7, <2>2, <2>3, <2>4, <2>5, <2>6 DEF EaInv
<1>10. QED
  BY <1>8, <1>9

\* Every step keeps the invariant.
LEMMA EaStepInv == EaInv /\ [EaNext]_eaVars => EaInv'
<1> SUFFICES ASSUME EaInv, [EaNext]_eaVars PROVE EaInv'
  OBVIOUS
<1>1. CASE Tick
  <2>1. now' \in Nat
    BY <1>1 DEF EaInv, EaTypeOK, Tick
  <2>2. QED
    BY <1>1, <2>1 DEF EaInv, EaTypeOK, GrantsAreNarrowed, ClaimsAreCovered, UsedOnceMarked,
                      RunsCarryTheDigest, RunsWithinItsSession, ActionsAreApproved, Tick
<1>2. ASSUME NEW id \in GrantId, NEW s \in Session, NEW inv \in Presented,
             NEW risk \in RiskLevel, NEW ttl \in Ttl, IssueGrant(id, s, inv, risk, ttl)
      PROVE  EaInv'
  BY <1>2, IssueGrantInv
<1>3. ASSUME NEW id \in ApprovalId, NEW gid \in GrantId, NEW inv \in Presented,
             NEW until \in 0..MaxTime, Approve(id, gid, inv, until)
      PROVE  EaInv'
  BY <1>3, ApproveInv
<1>4. ASSUME NEW g \in grants, NEW inv \in Presented, RunReadOnly(g, inv)
      PROVE  EaInv'
  BY <1>4, RunReadOnlyInv
<1>5. ASSUME NEW g \in grants, NEW inv \in Presented, NEW x \in Executor,
             NEW a \in approvals, BeginClaim(x, g, inv, a)
      PROVE  EaInv'
  BY <1>5, BeginClaimInv
<1>6. ASSUME NEW x \in Executor, EndClaim(x)
      PROVE  EaInv'
  BY <1>6, EndClaimInv
<1>7. CASE UNCHANGED eaVars
  BY <1>7 DEF EaInv, EaTypeOK, GrantsAreNarrowed, ClaimsAreCovered, UsedOnceMarked,
              RunsCarryTheDigest, RunsWithinItsSession, ActionsAreApproved, eaVars
<1>8. QED
  BY <1>1, <1>2, <1>3, <1>4, <1>5, <1>6, <1>7 DEF EaNext

\* In every reachable state, for any number of sessions, grants, approvals and
\* executors, the invariant holds.
THEOREM ExecutionInvariant == EaSpec => []EaInv
BY EaInitInv, EaStepInv, PTL DEF EaSpec

\* An intact invocation that carries the digest of an intact one is that one.
LEMMA SameDigestSameInvocation ==
  ASSUME NEW inv \in Invocation, NEW granted \in Invocation, SameDigest(inv, granted),
         Intact(inv), Intact(granted)
  PROVE  inv = granted
<1>1. [scope |-> inv.scope, policy |-> inv.policy, args |-> inv.args] =
      [scope |-> granted.scope, policy |-> granted.policy, args |-> granted.args]
  BY DEF SameDigest, Intact
<1>2. inv.scope = granted.scope /\ inv.policy = granted.policy /\ inv.args = granted.args
  BY <1>1
<1>3. QED
  BY <1>2 DEF SameDigest, Invocation

\* What runs was granted within its session's scope, policy and window; it is the
\* invocation that was granted, if neither was changed after it was resolved; an action
\* was approved for that grant, resolution and digest; no approval lets two actions run.
THEOREM ExecutionIsAuthorisedThm == EaSpec => []ExecutionIsAuthorised
<1>1. ASSUME EaInv PROVE ExecutionIsAuthorised
  <2>1. RunsWhatWasGranted
    <3>1. \A r \in ran : /\ r.inv \in Invocation /\ r.grant.inv \in Invocation
                         /\ SameDigest(r.inv, r.grant.inv)
      BY <1>1 DEF EaInv, EaTypeOK, Ran, Grant, RunsCarryTheDigest
    <3>2. QED
      BY <3>1, SameDigestSameInvocation DEF RunsWhatWasGranted
  <2>2. QED
    BY <1>1, <2>1
    DEF EaInv, EaTypeOK, UsedOnceMarked, ApprovalsAreOneShot, ExecutionIsAuthorised
<1>2. QED
  BY <1>1, ExecutionInvariant, PTL

-----------------------------------------------------------------------------
\* Orphans and their markers, for any instances, pids and processes.

OmPcs == {"idle", "scan", "identify", "classify", "remove", "look", "term", "wait", "kill",
          "kill_group", "exit", "unlink"}
Marks == [owner : App \cup {Nobody}, birth : Nat, there : BOOLEAN]
\* Every step leaves the past alone: what was born keeps its origin, what is gone
\* stays gone, and what comes is new.
Ages ==
  /\ births <= births' /\ live' \subseteq live
  /\ \A b \in 1 .. births : origin'[b] = origin[b]
  /\ \A a \in App : kid'[a] = kid[a] \/ kid'[a].birth = 0 \/ kid'[a].birth > births
  /\ \A p \in Pid : proc'[p] = proc[p] \/ proc'[p].birth = 0 \/ proc'[p].birth > births

Ops == [pc : OmPcs, pid : Pid \cup {0}, tracked : SUBSET Pid, todo : SUBSET Mark,
        at : Kind \X (Pid \cup {0}), read : Marks, found : Marks, kind : Kind \cup {"free"},
        group : Nat, known : SUBSET Nat]

OmTypeOK ==
  /\ live \subseteq App /\ births \in 1 .. MaxBirth
  /\ proc \in [Pid -> [birth : Nat, kind : Kind \cup {"free", "other"}]]
  /\ group \in [Pid -> Nat]
  /\ mark \in [Mark -> Marks]
  /\ kid \in [App -> [pid : Pid \cup {0}, birth : Nat, kind : Kind \cup {"free"}]]
  /\ stage \in [App -> {"idle", "spawned", "marked", "waited"}]
  /\ slot \in [App -> Pid \cup {0}]
  /\ op \in [App -> Ops]
  /\ origin \in [1 .. MaxBirth -> [app : App \cup {Nobody}, kind : Kind \cup {"other"}]]
  /\ written \subseteq 2 .. births

\* What runs has been born, no two processes are one, and a group belongs to the
\* leader that runs.
ProcessesAreBorn ==
  \A p \in Pid :
    /\ proc[p] # NoProc => proc[p].birth \in 1 .. births /\ proc[p].kind = origin[proc[p].birth].kind
    /\ \A q \in Pid : proc[q].birth = proc[p].birth => q = p \/ proc[p].birth = 0
    /\ group[p] # 0 => group[p] \in 1 .. births /\ (proc[p] # NoProc => group[p] = proc[p].birth)

\* A child waited for is the instance's own, has its pid in the slot and, until
\* its reader has waited, is the process of that pid.
KidsAreOwn ==
  \A a \in App :
    /\ stage[a] = "idle" => kid[a] = NoKid
    /\ stage[a] # "idle" => /\ a \in live /\ slot[a] = kid[a].pid /\ kid[a].pid \in Pid
                            /\ kid[a].kind \in Kind /\ kid[a].birth \in 2 .. births
                            /\ origin[kid[a].birth] = [app |-> a, kind |-> kid[a].kind]
    /\ stage[a] \in {"spawned", "marked"} =>
         proc[kid[a].pid] = [birth |-> kid[a].birth, kind |-> kid[a].kind]
    /\ stage[a] = "waited" => proc[kid[a].pid].birth # kid[a].birth

\* A start time in a marker is that of a process its owner started, of the
\* marker's kind and, while the owner waits for it, of the marker's pid.
Genuine(r, m) ==
  r.birth # 0 => /\ r.birth \in 2 .. births /\ r.owner \in App
                 /\ origin[r.birth] = [app |-> r.owner, kind |-> m[1]]
                 /\ kid[r.owner].birth = r.birth => kid[r.owner].pid = m[2]
MarksAreGenuine == \A m \in Mark : Genuine(mark[m], m)

\* What a scan or a termination holds of the world it looked at.
HonestOp(a, o) ==
  /\ \A b \in o.known \ {0} : b <= births /\ (kid[a].birth = b => o.pid \in o.tracked)
  /\ o.kind # "free" => /\ o.pid \in Pid \ o.tracked
                        /\ Genuine(o.found, <<o.kind, o.pid>>)
                        /\ o.found.owner \notin live \ {a}
  /\ o.pc \in {"identify", "classify", "remove"} =>
       o.at \in Mark /\ o.at[2] \notin o.tracked /\ Genuine(o.read, o.at)
  /\ o.pc = "classify" => o.read.owner \notin live \ {a}
  /\ o.pc = "remove" /\ o.read.birth # 0 => proc[o.at[2]].birth # o.read.birth
  /\ o.pc \in {"look", "term", "wait", "kill", "kill_group", "exit", "unlink"} =>
       o.kind # "free" /\ o.found.birth # 0 /\ o.group \in {0, o.found.birth}
  /\ o.pc \in {"idle", "scan", "identify", "classify", "remove"} => o.group = 0
  /\ o.pc = "unlink" => proc[o.pid].birth # o.found.birth
OpsAreHonest == \A a \in App : HonestOp(a, op[a])

\* A process keeps its marker as long as no stranger takes it.
MarkersStay ==
  \A p \in Pid : proc[p].kind \in Kind /\ proc[p].birth \in written \ snatched =>
    LET m == mark[<<proc[p].kind, p>>] IN m.there /\ m.birth = proc[p].birth

OmInv ==
  /\ OmTypeOK /\ ProcessesAreBorn /\ KidsAreOwn /\ MarksAreGenuine /\ OpsAreHonest
  /\ MarkersStay /\ OnlyOrphansAreStruck

-----------------------------------------------------------------------------
\* The constants and the records of the program at rest.
LEMMA OmFacts ==
  /\ 0 \notin Pid /\ Pid \subseteq Nat /\ Nobody \notin App /\ Looking \subseteq App
  /\ NoMark \in Marks /\ NoMark.birth = 0 /\ NoMark.there = FALSE
  /\ NoProc.birth = 0 /\ NoProc.kind = "free" /\ NoProc.kind \notin Kind
  /\ NoKid.birth = 0 /\ NoKid.kind = "free"
  /\ QuietOp \in Ops /\ \A a : HonestOp(a, QuietOp)
<1>1. 0 \notin Pid /\ Pid \subseteq Nat /\ Nobody \notin App /\ Looking \subseteq App
  BY OrphanMarkersAssumption
<1>2. NoMark \in Marks /\ NoMark.birth = 0 /\ NoMark.there = FALSE
  BY DEF NoMark, Marks
<1>3. /\ NoProc.birth = 0 /\ NoProc.kind = "free" /\ NoProc.kind \notin Kind
      /\ NoKid.birth = 0 /\ NoKid.kind = "free"
  BY DEF NoProc, NoKid, Kind
<1>4. QuietOp \in Ops
  BY <1>2 DEF QuietOp, Ops, OmPcs, Kind
<1>5. \A a : HonestOp(a, QuietOp)
  BY DEF QuietOp, HonestOp
<1> QED
  BY <1>1, <1>2, <1>3, <1>4, <1>5

\* A genuine record stays genuine.
LEMMA GenuineKept ==
  ASSUME OmTypeOK, Ages, births' \in Nat, NEW r \in Marks, NEW m \in Mark, Genuine(r, m)
  PROVE  Genuine(r, m)'
<1> SUFFICES ASSUME r.birth # 0
             PROVE  /\ r.birth \in 2 .. births' /\ r.owner \in App
                    /\ origin'[r.birth] = [app |-> r.owner, kind |-> m[1]]
                    /\ kid'[r.owner].birth = r.birth => kid'[r.owner].pid = m[2]
  BY DEF Genuine
<1>1. /\ r.birth \in 2 .. births /\ r.owner \in App
      /\ origin[r.birth] = [app |-> r.owner, kind |-> m[1]]
      /\ kid[r.owner].birth = r.birth => kid[r.owner].pid = m[2]
  BY DEF Genuine
<1>2. births \in Nat /\ births' \in Nat /\ births <= births'
  BY OrphanMarkersAssumption DEF OmTypeOK, Ages
<1>3. r.birth \in 2 .. births' /\ origin'[r.birth] = origin[r.birth]
  BY <1>1, <1>2 DEF Ages
<1>4. kid'[r.owner] = kid[r.owner] \/ kid'[r.owner].birth = 0 \/ kid'[r.owner].birth > births
  BY <1>1 DEF Ages
<1>5. kid'[r.owner].birth = r.birth => kid'[r.owner] = kid[r.owner]
  BY <1>1, <1>2, <1>4
<1> QED
  BY <1>1, <1>3, <1>5

\* What a scan or a termination holds stays true of the world it looked at.
LEMMA HonestKept ==
  ASSUME OmTypeOK, Ages, births' \in Nat, NEW a \in App, NEW o \in Ops, HonestOp(a, o)
  PROVE  HonestOp(a, o)'
<1>1. births \in Nat /\ births' \in Nat /\ births <= births' /\ live' \subseteq live
  BY OrphanMarkersAssumption DEF OmTypeOK, Ages
<1>2. ASSUME NEW b \in o.known \ {0}
      PROVE  b <= births' /\ (kid'[a].birth = b => o.pid \in o.tracked)
  <2>1. b \in Nat /\ b <= births /\ (kid[a].birth = b => o.pid \in o.tracked)
    BY <1>2 DEF HonestOp, Ops
  <2>2. kid'[a] = kid[a] \/ kid'[a].birth = 0 \/ kid'[a].birth > births
    BY DEF Ages
  <2> QED
    BY <1>1, <1>2, <2>1, <2>2
<1>3. ASSUME o.kind # "free"
      PROVE  /\ o.pid \in Pid \ o.tracked
             /\ Genuine(o.found, <<o.kind, o.pid>>)'
             /\ o.found.owner \notin live' \ {a}
  <2>1. /\ o.pid \in Pid \ o.tracked /\ Genuine(o.found, <<o.kind, o.pid>>)
        /\ o.found.owner \notin live \ {a}
    BY <1>3 DEF HonestOp
  <2>2. <<o.kind, o.pid>> \in Mark /\ o.found \in Marks
    BY <1>3, <2>1 DEF Ops, Mark
  <2> QED
    BY <2>1, <2>2, <1>1, GenuineKept
<1>4. ASSUME o.pc \in {"identify", "classify", "remove"}
      PROVE  o.at \in Mark /\ o.at[2] \notin o.tracked /\ Genuine(o.read, o.at)'
  <2>1. o.at \in Mark /\ o.at[2] \notin o.tracked /\ Genuine(o.read, o.at) /\ o.read \in Marks
    BY <1>4 DEF HonestOp, Ops
  <2> QED
    BY <2>1, <1>1, GenuineKept
<1>5. o.pc = "classify" => o.read.owner \notin live' \ {a}
  BY <1>1 DEF HonestOp
<1>6. ASSUME o.pc = "remove", o.read.birth # 0 PROVE proc'[o.at[2]].birth # o.read.birth
  <2>1. o.at[2] \in Pid /\ o.read.birth \in 2 .. births /\ proc[o.at[2]].birth # o.read.birth
    BY <1>6 DEF HonestOp, Genuine, Mark
  <2>2. \/ proc'[o.at[2]] = proc[o.at[2]] \/ proc'[o.at[2]].birth = 0
        \/ proc'[o.at[2]].birth > births
    BY <2>1 DEF Ages
  <2> QED
    BY <1>1, <2>1, <2>2
<1>7. ASSUME o.pc = "unlink" PROVE proc'[o.pid].birth # o.found.birth
  <2>1. o.pid \in Pid /\ o.found.birth \in 2 .. births /\ proc[o.pid].birth # o.found.birth
    BY <1>7 DEF HonestOp, Genuine
  <2>2. proc'[o.pid] = proc[o.pid] \/ proc'[o.pid].birth = 0 \/ proc'[o.pid].birth > births
    BY <2>1 DEF Ages
  <2> QED
    BY <1>1, <2>1, <2>2
<1>8. /\ o.pc \in {"look", "term", "wait", "kill", "kill_group", "exit", "unlink"} =>
           o.kind # "free" /\ o.found.birth # 0 /\ o.group \in {0, o.found.birth}
      /\ o.pc \in {"idle", "scan", "identify", "classify", "remove"} => o.group = 0
  BY DEF HonestOp
<1> HIDE DEF Genuine
<1> QED
  BY <1>2, <1>3, <1>4, <1>5, <1>6, <1>7, <1>8 DEF HonestOp

\* A step that only adds genuine markers and honest operations to the world.
LEMMA RecordsKept ==
  ASSUME OmInv, Ages, births' \in Nat,
         \A m \in Mark : mark'[m] = mark[m] \/ mark'[m].birth = 0 \/ Genuine(mark[m], m)',
         \A a \in App : op'[a] = op[a] \/ HonestOp(a, op[a])'
  PROVE  MarksAreGenuine' /\ OpsAreHonest'
<1>1. OmTypeOK /\ MarksAreGenuine /\ OpsAreHonest
  BY DEF OmInv
<1>2. ASSUME NEW m \in Mark PROVE Genuine(mark[m], m)'
  <2>1. mark[m] \in Marks /\ Genuine(mark[m], m)
    BY <1>1 DEF OmTypeOK, MarksAreGenuine
  <2>2. PICK r : r = mark[m]
    OBVIOUS
  <2>3. Genuine(r, m)'
    BY <1>1, <2>1, <2>2, GenuineKept
  <2>4. CASE mark'[m] = mark[m]
    BY <2>2, <2>3, <2>4 DEF Genuine
  <2>5. CASE mark'[m].birth = 0
    BY <2>5 DEF Genuine
  <2> QED
    BY <2>4, <2>5
<1>3. ASSUME NEW a \in App PROVE HonestOp(a, op[a])'
  <2>1. op[a] \in Ops /\ HonestOp(a, op[a])
    BY <1>1 DEF OmTypeOK, OpsAreHonest
  <2>2. PICK o : o = op[a]
    OBVIOUS
  <2>3. HonestOp(a, o)'
    BY <1>1, <2>1, <2>2, HonestKept
  <2>4. CASE op'[a] = op[a]
    BY <2>2, <2>3, <2>4 DEF HonestOp, Genuine
  <2> QED
    BY <2>4
<1> QED
  BY <1>2, <1>3 DEF MarksAreGenuine, OpsAreHonest

\* Markers stay while no marker is touched and no written process comes back.
LEMMA StayKept ==
  ASSUME MarkersStay, UNCHANGED <<mark, written, snatched>>,
         \A p \in Pid : proc'[p] = proc[p] \/ proc'[p].kind \notin Kind \/ proc'[p].birth \notin written
  PROVE  MarkersStay'
BY DEF MarkersStay

\* Removing a marker by its path takes it from another process, or from one that
\* does not run any more.
LEMMA MarkRemoved ==
  ASSUME OmTypeOK, MarkersStay, NEW m \in Mark, NEW b \in Nat,
         mark' = [mark EXCEPT ![m] = NoMark], snatched' = Snatches(m, b),
         UNCHANGED <<written, proc>>, b # 0 => proc[m[2]].birth # b
  PROVE  /\ MarkersStay' /\ mark' \in [Mark -> Marks]
         /\ \A n \in Mark : mark'[n] = mark[n] \/ mark'[n].birth = 0
<1>1. mark' \in [Mark -> Marks] /\ \A n \in Mark : mark'[n] = mark[n] \/ mark'[n].birth = 0
  BY OmFacts DEF OmTypeOK
<1>2. ASSUME NEW p \in Pid, proc[p].kind \in Kind, proc[p].birth \in written \ snatched'
      PROVE  mark'[<<proc[p].kind, p>>].there /\ mark'[<<proc[p].kind, p>>].birth = proc[p].birth
  <2>1. snatched \subseteq snatched'
    BY DEF Snatches
  <2>2. mark[<<proc[p].kind, p>>].there /\ mark[<<proc[p].kind, p>>].birth = proc[p].birth
    BY <1>2, <2>1 DEF MarkersStay
  <2>3. <<proc[p].kind, p>> \in Mark /\ proc[p].birth # 0
    BY <1>2 DEF Mark, OmTypeOK
  <2>4. ASSUME <<proc[p].kind, p>> = m PROVE FALSE
    <3>1. m[2] = p /\ mark[m].there /\ mark[m].birth = proc[p].birth
      BY <2>2, <2>4
    <3>2. CASE mark[m].birth # b
      BY <3>1, <3>2, <1>2 DEF Snatches
    <3>3. CASE mark[m].birth = b
      BY <3>1, <3>3, <2>3
    <3> QED
      BY <3>2, <3>3
  <2>5. mark'[<<proc[p].kind, p>>] = mark[<<proc[p].kind, p>>]
    BY <2>3, <2>4 DEF OmTypeOK
  <2> QED
    BY <2>2, <2>5
<1> QED
  BY <1>1, <1>2 DEF MarkersStay

\* What a signal finds: a process that the marker's owner started and that no
\* running instance waits for, if its marker was there from the beginning.
LEMMA StrikeIsRight ==
  ASSUME OmInv, NEW a \in App, op[a].kind # "free", op[a].found.birth # 0,
         Strike(a, op[a].found.birth), live' = live, kid' = kid
  PROVE  OnlyOrphansAreStruck'
<1> DEFINE b == op[a].found.birth
<1>1. op[a] \in Ops /\ HonestOp(a, op[a])
  BY DEF OmInv, OmTypeOK, OpsAreHonest
<1>2. /\ Genuine(op[a].found, <<op[a].kind, op[a].pid>>) /\ op[a].kind \in Kind
      /\ op[a].found.owner \notin live \ {a} /\ op[a].pid \notin op[a].tracked
  BY <1>1 DEF HonestOp, Ops
<1>3. /\ b \in 2 .. births /\ origin[b].app = op[a].found.owner /\ origin[b].kind = op[a].kind
  BY <1>2 DEF Genuine
<1>4. ASSUME b \in op[a].known, NEW c \in live, kid[c].birth = b PROVE FALSE
  <2>1. c \in App /\ stage[c] # "idle"
    BY <1>3, <1>4, OmFacts DEF OmInv, OmTypeOK, KidsAreOwn
  <2>2. origin[b].app = c
    <3>1. origin[kid[c].birth] = [app |-> c, kind |-> kid[c].kind]
      BY <2>1 DEF OmInv, KidsAreOwn
    <3>2. origin[kid[c].birth].app = c
      BY <3>1
    <3> QED
      BY <1>4, <3>2
  <2>3. c = a
    BY <1>2, <1>3, <1>4, <2>2
  <2>4. b # 0 /\ kid[a].birth = b
    BY <1>4, <2>3
  <2> QED
    BY <1>1, <1>2, <1>4, <2>4 DEF HonestOp
<1>5. struck'.kind = origin[b].kind
  BY DEF Strike
<1>6. struck'.knew = (b \in op[a].known)
  BY DEF Strike
<1>7. struck'.ours = (\E c \in live : kid[c].birth = b)
  BY DEF Strike
<1>8. ~(struck'.knew /\ struck'.ours)
  BY <1>4, <1>6, <1>7
<1> QED
  BY <1>2, <1>3, <1>5, <1>8 DEF OnlyOrphansAreStruck

\* A step of a scan or a termination that touches nothing but itself.
LEMMA OpOnly ==
  ASSUME OmInv, NEW a \in App, NEW r \in Ops, op' = [op EXCEPT ![a] = r], HonestOp(a, r),
         UNCHANGED <<live, proc, group, births, mark, kid, stage, slot, origin, written, snatched>>,
         OnlyOrphansAreStruck'
  PROVE  OmInv'
<1>1. OmTypeOK'
  BY DEF OmInv, OmTypeOK
<1>2. Ages /\ births' \in Nat
  BY OrphanMarkersAssumption DEF OmInv, OmTypeOK, Ages
<1>3. ASSUME NEW x \in App PROVE op'[x] = op[x] \/ HonestOp(x, op[x])'
  <2>1. CASE x = a
    <3>1. op'[x] = r
      BY <2>1 DEF OmInv, OmTypeOK
    <3>2. HonestOp(a, r)'
      BY <1>2, HonestKept DEF OmInv
    <3> QED
      BY <3>1, <3>2, <2>1 DEF HonestOp, Genuine
  <2>2. CASE x # a
    BY <2>2 DEF OmInv, OmTypeOK
  <2> QED
    BY <2>1, <2>2
<1>4. MarksAreGenuine' /\ OpsAreHonest'
  BY <1>2, <1>3, RecordsKept
<1>5. ProcessesAreBorn' /\ KidsAreOwn' /\ MarkersStay'
  BY DEF OmInv, ProcessesAreBorn, KidsAreOwn, MarkersStay
<1> QED
  BY <1>1, <1>4, <1>5 DEF OmInv

\* A signal that nobody sent, or that was sent earlier, stays right.
LEMMA StruckKept ==
  ASSUME OnlyOrphansAreStruck, struck' = struck \/ struck' = NoStrike
  PROVE  OnlyOrphansAreStruck'
BY DEF OnlyOrphansAreStruck

\* At the start nothing is tracked, and one old server may run.
LEMMA OmInitInv == OmInit => OmInv
<1> SUFFICES ASSUME OmInit PROVE OmInv
  OBVIOUS
<1>1. births = 1 /\ live = App /\ written = {} /\ struck = NoStrike /\ 1 \in 1 .. MaxBirth
  BY OrphanMarkersAssumption DEF OmInit
<1>2. \A p \in Pid : proc[p] = NoProc \/ proc[p] = [birth |-> 1, kind |-> "serving"]
  BY DEF OmInit
<1>3. \A m \in Mark : mark[m] \in Marks /\ mark[m].birth = 0
  <2>1. [NoMark EXCEPT !.there = TRUE] \in Marks /\ [NoMark EXCEPT !.there = TRUE].birth = 0
    BY DEF NoMark, Marks
  <2> QED
    BY <2>1, OmFacts, Zenon DEF OmInit
<1>4. origin = [b \in 1 .. MaxBirth |-> [app |-> Nobody, kind |-> "serving"]]
  BY DEF OmInit
<1>5. OmTypeOK
  <2>1. proc \in [Pid -> [birth : Nat, kind : Kind \cup {"free", "other"}]]
    BY <1>2 DEF OmInit, NoProc, Kind
  <2>2. mark \in [Mark -> Marks]
    BY <1>3 DEF OmInit
  <2>3. NoKid \in [pid : Pid \cup {0}, birth : Nat, kind : Kind \cup {"free"}]
    BY DEF NoKid
  <2>4. kid \in [App -> [pid : Pid \cup {0}, birth : Nat, kind : Kind \cup {"free"}]]
    BY <2>3 DEF OmInit
  <2>5. op \in [App -> Ops]
    BY OmFacts DEF OmInit
  <2>6. /\ group \in [Pid -> Nat] /\ slot \in [App -> Pid \cup {0}]
        /\ stage \in [App -> {"idle", "spawned", "marked", "waited"}]
    BY DEF OmInit
  <2>7. origin \in [1 .. MaxBirth -> [app : App \cup {Nobody}, kind : Kind \cup {"other"}]]
    BY <1>4 DEF Kind
  <2> QED
    BY <1>1, <2>1, <2>2, <2>4, <2>5, <2>6, <2>7 DEF OmTypeOK
<1>6. ProcessesAreBorn
  BY <1>1, <1>2, <1>4 DEF OmInit, ProcessesAreBorn, NoProc
<1>7. KidsAreOwn
  BY DEF OmInit, KidsAreOwn
<1>8. MarksAreGenuine /\ OpsAreHonest
  BY <1>3, OmFacts DEF OmInit, MarksAreGenuine, OpsAreHonest, Genuine
<1>9. MarkersStay /\ OnlyOrphansAreStruck
  BY <1>1 DEF MarkersStay, OnlyOrphansAreStruck
<1> QED
  BY <1>5, <1>6, <1>7, <1>8, <1>9 DEF OmInv

\* A process that nobody waits for ends, or a group changes its children.
LEMMA GoneStep ==
  ASSUME OmInv, NEW p \in Pid,
         proc' = proc \/ (proc' = [proc EXCEPT ![p] = NoProc] /\ ~HeldByParent(p)),
         group' = group \/ group' = [group EXCEPT ![p] = 0]
           \/ (group' = [group EXCEPT ![p] = proc[p].birth] /\ proc' = proc /\ proc[p] # NoProc),
         UNCHANGED <<live, births, mark, kid, stage, slot, origin, written, snatched>>,
         \A a \in App : op'[a] = op[a] \/ HonestOp(a, op[a])',
         op' \in [App -> Ops], OnlyOrphansAreStruck'
  PROVE  OmInv'
<1> USE DEF OmInv
<1>1. NoProc \in [birth : Nat, kind : Kind \cup {"free", "other"}]
  BY DEF NoProc
<1>2. proc' \in [Pid -> [birth : Nat, kind : Kind \cup {"free", "other"}]]
  BY <1>1 DEF OmTypeOK
<1>3. proc[p].birth \in Nat
  BY DEF OmTypeOK
<1>4. group' \in [Pid -> Nat]
  BY <1>3 DEF OmTypeOK
<1>5. OmTypeOK'
  BY <1>2, <1>4 DEF OmTypeOK
<1>6. \A q \in Pid : proc'[q] = proc[q] \/ (q = p /\ proc'[q] = NoProc /\ ~HeldByParent(p))
  BY DEF OmTypeOK
<1>7. Ages /\ births' \in Nat
  BY <1>6, OmFacts, OrphanMarkersAssumption DEF OmTypeOK, Ages
<1>8. MarksAreGenuine' /\ OpsAreHonest'
  BY <1>7, RecordsKept
<1>9. ProcessesAreBorn'
  <2>1. \A q \in Pid : \/ group'[q] = group[q] \/ group'[q] = 0
                       \/ q = p /\ group'[q] = proc[p].birth /\ proc' = proc /\ proc[p] # NoProc
    BY DEF OmTypeOK
  <2>2. \A q, s \in Pid : proc'[s].birth = proc'[q].birth => s = q \/ proc'[q].birth = 0
    <3>1. \A q, s \in Pid : proc[s].birth = proc[q].birth => s = q \/ proc[q].birth = 0
      BY DEF ProcessesAreBorn
    <3> QED
      BY <3>1, <1>6, OmFacts
  <2>3. ASSUME NEW q \in Pid
        PROVE  /\ proc'[q] # NoProc =>
                    proc'[q].birth \in 1 .. births /\ proc'[q].kind = origin[proc'[q].birth].kind
               /\ group'[q] # 0 =>
                    group'[q] \in 1 .. births /\ (proc'[q] # NoProc => group'[q] = proc'[q].birth)
    <3>1. /\ proc[q] # NoProc =>
               proc[q].birth \in 1 .. births /\ proc[q].kind = origin[proc[q].birth].kind
          /\ group[q] # 0 =>
               group[q] \in 1 .. births /\ (proc[q] # NoProc => group[q] = proc[q].birth)
      BY DEF ProcessesAreBorn
    <3> QED
      BY <3>1, <1>6, <2>1
  <2> QED
    BY <2>2, <2>3, Zenon DEF ProcessesAreBorn
<1>10. KidsAreOwn'
  <2>1. ASSUME NEW a \in App, stage[a] \in {"spawned", "marked"}
        PROVE  proc'[kid[a].pid] = proc[kid[a].pid]
    <3>1. a \in live /\ kid[a].pid \in Pid
      BY <2>1 DEF KidsAreOwn
    <3> QED
      BY <3>1, <2>1, <1>6 DEF HeldByParent
  <2>2. ASSUME NEW a \in App, stage[a] = "waited"
        PROVE  proc'[kid[a].pid].birth # kid[a].birth
    <3>1. stage[a] # "idle"
      BY <2>2
    <3>2. kid[a].pid \in Pid /\ kid[a].birth \in 2 .. births
      BY <3>1 DEF KidsAreOwn
    <3>3. proc[kid[a].pid].birth # kid[a].birth
      BY <2>2 DEF KidsAreOwn
    <3>4. kid[a].birth # 0
      BY <3>2, OrphanMarkersAssumption DEF OmTypeOK
    <3>5. proc'[kid[a].pid] = proc[kid[a].pid] \/ proc'[kid[a].pid] = NoProc
      BY <3>2, <1>6
    <3> QED
      BY <3>3, <3>4, <3>5, OmFacts
  <2>3. ASSUME NEW a \in App
        PROVE  /\ stage[a] = "idle" => kid[a] = NoKid
               /\ stage[a] # "idle" => /\ a \in live /\ slot[a] = kid[a].pid /\ kid[a].pid \in Pid
                                       /\ kid[a].kind \in Kind /\ kid[a].birth \in 2 .. births
                                       /\ origin[kid[a].birth] = [app |-> a, kind |-> kid[a].kind]
               /\ stage[a] \in {"spawned", "marked"} =>
                    proc[kid[a].pid] = [birth |-> kid[a].birth, kind |-> kid[a].kind]
    BY DEF KidsAreOwn
  <2> QED
    BY <2>1, <2>2, <2>3 DEF KidsAreOwn
<1>11. MarkersStay'
  BY <1>6, OmFacts, StayKept
<1> QED
  BY <1>5, <1>8, <1>9, <1>10, <1>11

\* A process is born: a stranger, or the child of an instance that had none.
LEMMA BornStep ==
  ASSUME OmInv, NEW p \in Pid, NEW a \in App \cup {Nobody}, NEW k \in Kind \cup {"other"},
         Born(p, a, k), UNCHANGED <<live, group, mark, op, written, struck, snatched>>,
         \/ UNCHANGED <<kid, slot, stage>>
         \/ /\ a \in live /\ k \in Kind /\ stage[a] = "idle"
            /\ kid' = [kid EXCEPT ![a] = [pid |-> p, birth |-> births', kind |-> k]]
            /\ slot' = [slot EXCEPT ![a] = p]
            /\ stage' = [stage EXCEPT ![a] = "spawned"]
  PROVE  OmInv'
<1> USE DEF OmInv
<1>1. /\ births \in Nat /\ MaxBirth \in Nat /\ births >= 1 /\ births < MaxBirth
      /\ births' = births + 1 /\ births' \in 2 .. MaxBirth
  BY OrphanMarkersAssumption DEF Born, OmTypeOK
<1>2. PICK b : b = births'
  OBVIOUS
<1>3. b \in 2 .. MaxBirth /\ b = births + 1 /\ b > births /\ b # 0 /\ b \in Nat
  BY <1>1, <1>2
<1>4. /\ proc[p] = NoProc /\ group[p] = 0
      /\ proc' = [proc EXCEPT ![p] = [birth |-> b, kind |-> k]]
      /\ origin' = [origin EXCEPT ![b] = [app |-> a, kind |-> k]]
  BY <1>2 DEF Born, Free
<1>5. /\ \A q \in Pid \ {p} : proc'[q] = proc[q]
      /\ proc'[p] = [birth |-> b, kind |-> k]
      /\ origin'[b] = [app |-> a, kind |-> k]
      /\ \A c \in 1 .. births : origin'[c] = origin[c]
  BY <1>1, <1>3, <1>4 DEF OmTypeOK
<1>6. /\ \A x \in App \ {a} : kid'[x] = kid[x] /\ slot'[x] = slot[x] /\ stage'[x] = stage[x]
      /\ a \in App =>
           \/ kid'[a] = kid[a] /\ slot'[a] = slot[a] /\ stage'[a] = stage[a]
           \/ /\ kid'[a] = [pid |-> p, birth |-> b, kind |-> k] /\ slot'[a] = p
              /\ stage'[a] = "spawned" /\ a \in live /\ k \in Kind /\ stage[a] = "idle"
  BY <1>2 DEF OmTypeOK
<1>7. OmTypeOK'
  <2>1. proc' \in [Pid -> [birth : Nat, kind : Kind \cup {"free", "other"}]]
    BY <1>3, <1>4 DEF OmTypeOK
  <2>2. origin' \in [1 .. MaxBirth -> [app : App \cup {Nobody}, kind : Kind \cup {"other"}]]
    BY <1>4 DEF OmTypeOK
  <2>3. /\ kid' \in [App -> [pid : Pid \cup {0}, birth : Nat, kind : Kind \cup {"free"}]]
        /\ stage' \in [App -> {"idle", "spawned", "marked", "waited"}]
        /\ slot' \in [App -> Pid \cup {0}]
    <3>1. CASE UNCHANGED <<kid, slot, stage>>
      BY <3>1 DEF OmTypeOK
    <3>2. CASE /\ k \in Kind
               /\ kid' = [kid EXCEPT ![a] = [pid |-> p, birth |-> births', kind |-> k]]
               /\ slot' = [slot EXCEPT ![a] = p]
               /\ stage' = [stage EXCEPT ![a] = "spawned"]
      <4>1. PICK c : c = [pid |-> p, birth |-> b, kind |-> k]
        OBVIOUS
      <4>2. c \in [pid : Pid \cup {0}, birth : Nat, kind : Kind \cup {"free"}]
        BY <4>1, <3>2, <1>3
      <4>3. kid' = [kid EXCEPT ![a] = c]
        BY <3>2, <4>1, <1>2
      <4>4. kid' \in [App -> [pid : Pid \cup {0}, birth : Nat, kind : Kind \cup {"free"}]]
        BY <4>2, <4>3 DEF OmTypeOK
      <4>5. stage' \in [App -> {"idle", "spawned", "marked", "waited"}]
        BY <3>2 DEF OmTypeOK
      <4>6. slot' \in [App -> Pid \cup {0}]
        BY <3>2 DEF OmTypeOK
      <4> QED
        BY <4>4, <4>5, <4>6
    <3> QED
      BY <3>1, <3>2
  <2>4. written' \subseteq 2 .. births' /\ births' \in 1 .. MaxBirth
    BY <1>1 DEF OmTypeOK
  <2> QED
    BY <2>1, <2>2, <2>3, <2>4 DEF OmTypeOK
<1>8. Ages
  BY <1>1, <1>3, <1>5, <1>6 DEF Ages
<1>9. MarksAreGenuine' /\ OpsAreHonest'
  BY <1>1, <1>8, RecordsKept
<1>10. ProcessesAreBorn'
  <2>1. ASSUME NEW q \in Pid \ {p}
        PROVE  /\ proc'[q] # NoProc =>
                    proc'[q].birth \in 1 .. births' /\ proc'[q].kind = origin'[proc'[q].birth].kind
               /\ group'[q] # 0 =>
                    group'[q] \in 1 .. births' /\ (proc'[q] # NoProc => group'[q] = proc'[q].birth)
    <3>1. proc'[q] = proc[q] /\ group'[q] = group[q]
      BY <1>5
    <3>2. /\ proc[q] # NoProc =>
               proc[q].birth \in 1 .. births /\ proc[q].kind = origin[proc[q].birth].kind
          /\ group[q] # 0 =>
               group[q] \in 1 .. births /\ (proc[q] # NoProc => group[q] = proc[q].birth)
      BY DEF ProcessesAreBorn
    <3> QED
      BY <1>1, <1>5, <3>1, <3>2
  <2>2. /\ proc'[p].birth \in 1 .. births' /\ proc'[p].kind = origin'[proc'[p].birth].kind
        /\ group'[p] = 0 /\ proc'[p].birth = b
    BY <1>1, <1>2, <1>4, <1>5
  <2>3. \A q \in Pid \ {p} : proc'[q].birth # b
    <3>1. \A q \in Pid : proc[q].birth \in 0 .. births
      BY <1>1, OmFacts DEF ProcessesAreBorn
    <3> QED
      BY <3>1, <1>1, <1>3, <1>5
  <2>4. \A q, s \in Pid : proc'[s].birth = proc'[q].birth => s = q \/ proc'[q].birth = 0
    <3>1. \A q, s \in Pid : proc[s].birth = proc[q].birth => s = q \/ proc[q].birth = 0
      BY DEF ProcessesAreBorn
    <3> QED
      BY <3>1, <2>2, <2>3, <1>5
  <2>5. ASSUME NEW q \in Pid
        PROVE  /\ proc'[q] # NoProc =>
                    proc'[q].birth \in 1 .. births' /\ proc'[q].kind = origin'[proc'[q].birth].kind
               /\ group'[q] # 0 =>
                    group'[q] \in 1 .. births' /\ (proc'[q] # NoProc => group'[q] = proc'[q].birth)
    <3>1. CASE q = p
      BY <2>2, <3>1
    <3>2. CASE q # p
      BY <2>1, <3>2
    <3> QED
      BY <3>1, <3>2
  <2> QED
    BY <2>4, <2>5, Zenon DEF ProcessesAreBorn
<1>11. KidsAreOwn'
  <2>1. ASSUME NEW x \in App, stage'[x] = stage[x], kid'[x] = kid[x], slot'[x] = slot[x]
        PROVE  /\ stage'[x] = "idle" => kid'[x] = NoKid
               /\ stage'[x] # "idle" =>
                    /\ x \in live' /\ slot'[x] = kid'[x].pid /\ kid'[x].pid \in Pid
                    /\ kid'[x].kind \in Kind /\ kid'[x].birth \in 2 .. births'
                    /\ origin'[kid'[x].birth] = [app |-> x, kind |-> kid'[x].kind]
               /\ stage'[x] \in {"spawned", "marked"} =>
                    proc'[kid'[x].pid] = [birth |-> kid'[x].birth, kind |-> kid'[x].kind]
               /\ stage'[x] = "waited" => proc'[kid'[x].pid].birth # kid'[x].birth
    <3>1. stage[x] = "idle" => kid[x] = NoKid
      BY DEF KidsAreOwn
    <3>2. stage[x] # "idle" =>
            /\ x \in live /\ slot[x] = kid[x].pid /\ kid[x].pid \in Pid
            /\ kid[x].kind \in Kind /\ kid[x].birth \in 2 .. births
            /\ origin[kid[x].birth] = [app |-> x, kind |-> kid[x].kind]
      BY DEF KidsAreOwn
    <3>3. stage[x] \in {"spawned", "marked"} =>
            kid[x].pid # p /\ proc[kid[x].pid] = [birth |-> kid[x].birth, kind |-> kid[x].kind]
      <4>1. ASSUME stage[x] \in {"spawned", "marked"}
            PROVE  /\ kid[x].birth # 0
                   /\ proc[kid[x].pid] = [birth |-> kid[x].birth, kind |-> kid[x].kind]
        BY <4>1, <3>2, <1>1 DEF KidsAreOwn
      <4> QED
        BY <4>1, <1>4, OmFacts
    <3>4. stage[x] = "waited" => proc[kid[x].pid].birth # kid[x].birth
      BY DEF KidsAreOwn
    <3>5. kid[x].birth \in 2 .. births => kid[x].birth # b /\ kid[x].birth \in 2 .. births'
      BY <1>1, <1>3
    <3>6. stage[x] = "waited" => proc'[kid[x].pid].birth # kid[x].birth
      BY <3>2, <3>4, <3>5, <1>5
    <3> QED
      BY <2>1, <3>1, <3>2, <3>3, <3>5, <3>6, <1>1, <1>5
  <2>2. ASSUME a \in App, a \in live, k \in Kind, stage'[a] = "spawned", slot'[a] = p,
               kid'[a] = [pid |-> p, birth |-> b, kind |-> k]
        PROVE  /\ kid'[a].pid = p /\ kid'[a].birth \in 2 .. births' /\ kid'[a].kind \in Kind
               /\ a \in live' /\ slot'[a] = kid'[a].pid
               /\ origin'[kid'[a].birth] = [app |-> a, kind |-> kid'[a].kind]
               /\ proc'[kid'[a].pid] = [birth |-> kid'[a].birth, kind |-> kid'[a].kind]
    BY <2>2, <1>1, <1>2, <1>5
  <2>3. ASSUME NEW x \in App, ~(stage'[x] = stage[x] /\ kid'[x] = kid[x] /\ slot'[x] = slot[x])
        PROVE  /\ x = a /\ a \in live /\ k \in Kind /\ stage'[x] = "spawned" /\ slot'[x] = p
               /\ kid'[x] = [pid |-> p, birth |-> b, kind |-> k]
    BY <2>3, <1>6
  <2>4. ASSUME NEW x \in App, ~(stage'[x] = stage[x] /\ kid'[x] = kid[x] /\ slot'[x] = slot[x])
        PROVE  /\ stage'[x] = "spawned" /\ kid'[x].pid \in Pid
               /\ kid'[x].birth \in 2 .. births' /\ kid'[x].kind \in Kind
               /\ x \in live' /\ slot'[x] = kid'[x].pid
               /\ origin'[kid'[x].birth] = [app |-> x, kind |-> kid'[x].kind]
               /\ proc'[kid'[x].pid] = [birth |-> kid'[x].birth, kind |-> kid'[x].kind]
    BY <2>2, <2>3, <2>4
  <2>5. ASSUME NEW x \in App
        PROVE  /\ stage'[x] = "idle" => kid'[x] = NoKid
               /\ stage'[x] # "idle" =>
                    /\ x \in live' /\ slot'[x] = kid'[x].pid /\ kid'[x].pid \in Pid
                    /\ kid'[x].kind \in Kind /\ kid'[x].birth \in 2 .. births'
                    /\ origin'[kid'[x].birth] = [app |-> x, kind |-> kid'[x].kind]
               /\ stage'[x] \in {"spawned", "marked"} =>
                    proc'[kid'[x].pid] = [birth |-> kid'[x].birth, kind |-> kid'[x].kind]
               /\ stage'[x] = "waited" => proc'[kid'[x].pid].birth # kid'[x].birth
    <3>1. CASE stage'[x] = stage[x] /\ kid'[x] = kid[x] /\ slot'[x] = slot[x]
      BY <2>1, <3>1, Zenon
    <3>2. CASE ~(stage'[x] = stage[x] /\ kid'[x] = kid[x] /\ slot'[x] = slot[x])
      BY <2>4, <3>2
    <3> QED
      BY <3>1, <3>2
  <2> QED
    BY <2>5, Zenon DEF KidsAreOwn
<1>12. MarkersStay'
  <2>1. b \notin written
    BY <1>1, <1>3 DEF OmTypeOK
  <2>2. \A q \in Pid : proc'[q] = proc[q] \/ proc'[q].birth \notin written
    BY <1>5, <2>1
  <2> QED
    BY <2>2, StayKept
<1>13. OnlyOrphansAreStruck'
  BY StruckKept
<1> QED
  BY <1>7, <1>9, <1>10, <1>11, <1>12, <1>13

\* What an instance has of its child.
LEMMA KidFacts ==
  ASSUME OmInv, NEW a \in App, stage[a] # "idle"
  PROVE  /\ a \in live /\ slot[a] = kid[a].pid /\ kid[a].pid \in Pid /\ kid[a].kind \in Kind
         /\ kid[a].birth \in 2 .. births /\ kid[a].birth \in Nat \ {0}
         /\ origin[kid[a].birth] = [app |-> a, kind |-> kid[a].kind]
         /\ <<kid[a].kind, kid[a].pid>> \in Mark
         /\ stage[a] \in {"spawned", "marked"} =>
              proc[kid[a].pid] = [birth |-> kid[a].birth, kind |-> kid[a].kind]
         /\ stage[a] = "waited" => proc[kid[a].pid].birth # kid[a].birth
<1>1. /\ a \in live /\ slot[a] = kid[a].pid /\ kid[a].pid \in Pid /\ kid[a].kind \in Kind
      /\ kid[a].birth \in 2 .. births
      /\ origin[kid[a].birth] = [app |-> a, kind |-> kid[a].kind]
  BY DEF OmInv, KidsAreOwn
<1>2. stage[a] \in {"spawned", "marked"} =>
        proc[kid[a].pid] = [birth |-> kid[a].birth, kind |-> kid[a].kind]
  BY DEF OmInv, KidsAreOwn
<1>3. stage[a] = "waited" => proc[kid[a].pid].birth # kid[a].birth
  BY DEF OmInv, KidsAreOwn
<1>4. kid[a].birth \in Nat \ {0}
  BY <1>1 DEF OmInv, OmTypeOK
<1> QED
  BY <1>1, <1>2, <1>3, <1>4 DEF Mark

\* An instance that rests, or that dies, leaves what the others have of theirs.
LEMMA KidLeaves ==
  ASSUME OmInv, NEW a \in App, stage' = [stage EXCEPT ![a] = "idle"],
         kid' = [kid EXCEPT ![a] = NoKid],
         live' = live \/ live' = live \ {a},
         \A x \in App \ {a} : slot'[x] = slot[x],
         UNCHANGED <<proc, births, origin>>
  PROVE  KidsAreOwn' /\ Ages
<1>1. /\ kid'[a] = NoKid /\ stage'[a] = "idle"
      /\ \A x \in App \ {a} : kid'[x] = kid[x] /\ stage'[x] = stage[x]
  BY DEF OmInv, OmTypeOK
<1>2. Ages
  BY <1>1, OmFacts, OrphanMarkersAssumption DEF OmInv, OmTypeOK, Ages
<1>3. ASSUME NEW x \in App \ {a}
      PROVE  /\ stage'[x] = "idle" => kid'[x] = NoKid
             /\ stage'[x] # "idle" =>
                  /\ x \in live' /\ slot'[x] = kid'[x].pid /\ kid'[x].pid \in Pid
                  /\ kid'[x].kind \in Kind /\ kid'[x].birth \in 2 .. births'
                  /\ origin'[kid'[x].birth] = [app |-> x, kind |-> kid'[x].kind]
             /\ stage'[x] \in {"spawned", "marked"} =>
                  proc'[kid'[x].pid] = [birth |-> kid'[x].birth, kind |-> kid'[x].kind]
             /\ stage'[x] = "waited" => proc'[kid'[x].pid].birth # kid'[x].birth
  BY <1>1, <1>3, KidFacts DEF OmInv, KidsAreOwn
<1> QED
  BY <1>1, <1>2, <1>3 DEF KidsAreOwn

\* An instance dies.
LEMMA AppDiesStep ==
  ASSUME OmInv, NEW a \in App, AppDies(a)
  PROVE  OmInv'
<1> USE DEF OmInv
<1>1. /\ live' = live \ {a} /\ kid' = [kid EXCEPT ![a] = NoKid]
      /\ stage' = [stage EXCEPT ![a] = "idle"] /\ slot' = [slot EXCEPT ![a] = 0]
      /\ op' = [op EXCEPT ![a] = QuietOp]
      /\ UNCHANGED <<proc, group, births, mark, origin, written, struck, snatched>>
  BY DEF AppDies
<1>2. NoKid \in [pid : Pid \cup {0}, birth : Nat, kind : Kind \cup {"free"}]
  BY DEF NoKid
<1>3. OmTypeOK'
  BY <1>1, <1>2, OmFacts DEF OmTypeOK
<1>4. KidsAreOwn' /\ Ages
  BY <1>1, KidLeaves DEF OmTypeOK
<1>5. \A x \in App : op'[x] = op[x] \/ op'[x] = QuietOp
  BY <1>1 DEF OmTypeOK
<1>6. \A x : HonestOp(x, QuietOp)'
  BY DEF QuietOp, HonestOp
<1>7. \A x \in App : op'[x] = op[x] \/ HonestOp(x, op[x])'
  BY <1>5, <1>6 DEF HonestOp, Genuine
<1>8. MarksAreGenuine' /\ OpsAreHonest'
  BY <1>1, <1>4, <1>7, RecordsKept, OrphanMarkersAssumption DEF OmTypeOK
<1>9. ProcessesAreBorn' /\ MarkersStay' /\ OnlyOrphansAreStruck'
  BY <1>1 DEF ProcessesAreBorn, MarkersStay, OnlyOrphansAreStruck
<1> QED
  BY <1>3, <1>4, <1>8, <1>9

\* The marker of a child is written, or fails to be.
LEMMA WriteMarkerStep ==
  ASSUME OmInv, NEW a \in App, WriteMarker(a)
  PROVE  OmInv'
<1> USE DEF OmInv
<1>1. /\ stage[a] = "spawned" /\ stage' = [stage EXCEPT ![a] = "marked"]
      /\ UNCHANGED <<live, proc, group, births, kid, slot, op, origin, struck, snatched>>
  BY DEF WriteMarker
<1>2. PICK k : k = kid[a]
  OBVIOUS
<1>3. PICK m : m = <<k.kind, k.pid>>
  OBVIOUS
<1>4. PICK r : r = [owner |-> a, birth |-> k.birth, there |-> TRUE]
  OBVIOUS
<1>5. \/ UNCHANGED <<mark, written>>
      \/ mark' = [mark EXCEPT ![m] = r] /\ written' = written \cup {k.birth}
  BY <1>2, <1>3, <1>4 DEF WriteMarker
<1>6. /\ a \in live /\ m \in Mark /\ m[1] = k.kind /\ m[2] = k.pid /\ k.pid \in Pid
      /\ k.birth \in 2 .. births /\ k.birth \in Nat /\ origin[k.birth] = [app |-> a, kind |-> k.kind]
      /\ proc[k.pid] = [birth |-> k.birth, kind |-> k.kind] /\ k.kind \in Kind
  <2>1. stage[a] # "idle" /\ stage[a] \in {"spawned", "marked"}
    BY <1>1
  <2> QED
    BY <2>1, <1>2, <1>3, KidFacts
<1>7. r \in Marks /\ r.owner = a /\ r.birth = k.birth /\ r.there
  BY <1>4, <1>6 DEF Marks
<1>8. Genuine(r, m) /\ Genuine(r, m)'
  BY <1>1, <1>2, <1>6, <1>7 DEF Genuine
<1>9. OmTypeOK'
  <2>1. mark' \in [Mark -> Marks]
    BY <1>5, <1>7 DEF OmTypeOK
  <2>2. written' \subseteq 2 .. births
    BY <1>5, <1>6 DEF OmTypeOK
  <2>3. stage' \in [App -> {"idle", "spawned", "marked", "waited"}]
    BY <1>1 DEF OmTypeOK
  <2> QED
    BY <1>1, <2>1, <2>2, <2>3 DEF OmTypeOK
<1>10. Ages /\ births' \in Nat
  BY <1>1, OrphanMarkersAssumption DEF OmTypeOK, Ages
<1>11. ASSUME NEW n \in Mark PROVE mark'[n] = mark[n] \/ Genuine(mark[n], n)'
  <2>1. mark'[n] = mark[n] \/ (n = m /\ mark'[n] = r)
    BY <1>5, <1>6 DEF OmTypeOK
  <2> QED
    BY <2>1, <1>8 DEF Genuine
<1>12. MarksAreGenuine' /\ OpsAreHonest'
  BY <1>1, <1>10, <1>11, RecordsKept
<1>13. ProcessesAreBorn' /\ OnlyOrphansAreStruck'
  BY <1>1 DEF ProcessesAreBorn, OnlyOrphansAreStruck
<1>14. KidsAreOwn'
  <2>1. stage'[a] = "marked" /\ \A x \in App \ {a} : stage'[x] = stage[x]
    BY <1>1 DEF OmTypeOK
  <2>2. /\ a \in live /\ slot[a] = kid[a].pid /\ kid[a].pid \in Pid /\ kid[a].kind \in Kind
        /\ kid[a].birth \in 2 .. births
        /\ origin[kid[a].birth] = [app |-> a, kind |-> kid[a].kind]
        /\ proc[kid[a].pid] = [birth |-> kid[a].birth, kind |-> kid[a].kind]
    <3>1. stage[a] # "idle" /\ stage[a] \in {"spawned", "marked"}
      BY <1>1
    <3> QED
      BY <3>1, KidFacts
  <2> QED
    BY <1>1, <2>1, <2>2 DEF KidsAreOwn
<1>15. MarkersStay'
  <2>1. ASSUME NEW p \in Pid, proc[p].kind \in Kind, proc[p].birth \in written' \ snatched
        PROVE  mark'[<<proc[p].kind, p>>].there /\ mark'[<<proc[p].kind, p>>].birth = proc[p].birth
    <3>1. CASE mark' = mark /\ written' = written
      BY <2>1, <3>1 DEF MarkersStay
    <3>2. CASE mark' = [mark EXCEPT ![m] = r] /\ written' = written \cup {k.birth}
      <4>1. <<proc[p].kind, p>> \in Mark
        BY <2>1 DEF Mark
      <4>2. CASE p = k.pid
        <5>1. <<proc[p].kind, p>> = m /\ proc[p].birth = k.birth
          BY <4>2, <1>3, <1>6
        <5> QED
          BY <5>1, <3>2, <1>6, <1>7 DEF OmTypeOK
      <4>3. CASE p # k.pid
        <5>1. mark'[<<proc[p].kind, p>>] = mark[<<proc[p].kind, p>>]
          BY <4>1, <4>3, <3>2, <1>3 DEF OmTypeOK
        <5>2. CASE proc[p].birth \in written
          BY <5>1, <5>2, <2>1 DEF MarkersStay
        <5>3. CASE proc[p].birth = k.birth
          <6>1. proc[p].birth = proc[k.pid].birth /\ proc[k.pid].birth # 0
            BY <5>3, <1>6, OrphanMarkersAssumption DEF OmTypeOK
          <6> QED
            BY <6>1, <4>3, <1>6 DEF ProcessesAreBorn
        <5> QED
          BY <5>2, <5>3, <3>2, <2>1
      <4> QED
        BY <4>2, <4>3
    <3> QED
      BY <1>5, <3>1, <3>2
  <2> QED
    BY <2>1, <1>1 DEF MarkersStay
<1> QED
  BY <1>9, <1>12, <1>13, <1>14, <1>15

\* A reader waits for its child, which has ended.
LEMMA ReapStep ==
  ASSUME OmInv, NEW a \in App, Reap(a)
  PROVE  OmInv'
<1> USE DEF OmInv
<1>1. PICK p : p = kid[a].pid
  OBVIOUS
<1>2. /\ stage[a] = "marked" /\ proc' = [proc EXCEPT ![p] = NoProc]
      /\ stage' = [stage EXCEPT ![a] = "waited"]
      /\ UNCHANGED <<live, group, births, mark, kid, slot, op, origin, written, struck, snatched>>
  BY <1>1 DEF Reap
<1>3. /\ a \in live /\ slot[a] = p /\ p \in Pid /\ kid[a].kind \in Kind
      /\ kid[a].birth \in 2 .. births /\ kid[a].birth # 0
      /\ origin[kid[a].birth] = [app |-> a, kind |-> kid[a].kind]
      /\ proc[p] = [birth |-> kid[a].birth, kind |-> kid[a].kind]
  <2>1. stage[a] # "idle" /\ stage[a] \in {"spawned", "marked"}
    BY <1>2
  <2> QED
    BY <2>1, <1>1, KidFacts
<1>4. proc'[p] = NoProc /\ \A q \in Pid \ {p} : proc'[q] = proc[q]
  BY <1>2, <1>3 DEF OmTypeOK
<1>5. OmTypeOK'
  <2>1. NoProc \in [birth : Nat, kind : Kind \cup {"free", "other"}]
    BY DEF NoProc
  <2>2. proc' \in [Pid -> [birth : Nat, kind : Kind \cup {"free", "other"}]]
    BY <1>2, <2>1 DEF OmTypeOK
  <2>3. stage' \in [App -> {"idle", "spawned", "marked", "waited"}]
    BY <1>2 DEF OmTypeOK
  <2> QED
    BY <1>2, <2>2, <2>3 DEF OmTypeOK
<1>6. Ages /\ births' \in Nat
  BY <1>2, <1>4, OmFacts, OrphanMarkersAssumption DEF OmTypeOK, Ages
<1>7. MarksAreGenuine' /\ OpsAreHonest'
  BY <1>2, <1>6, RecordsKept
<1>8. ProcessesAreBorn'
  <2>1. ASSUME NEW q \in Pid
        PROVE  /\ proc'[q] # NoProc =>
                    proc'[q].birth \in 1 .. births /\ proc'[q].kind = origin[proc'[q].birth].kind
               /\ group[q] # 0 =>
                    group[q] \in 1 .. births /\ (proc'[q] # NoProc => group[q] = proc'[q].birth)
    <3>1. /\ proc[q] # NoProc =>
               proc[q].birth \in 1 .. births /\ proc[q].kind = origin[proc[q].birth].kind
          /\ group[q] # 0 =>
               group[q] \in 1 .. births /\ (proc[q] # NoProc => group[q] = proc[q].birth)
      BY DEF ProcessesAreBorn
    <3> QED
      BY <3>1, <1>4
  <2>2. \A q, s \in Pid : proc'[s].birth = proc'[q].birth => s = q \/ proc'[q].birth = 0
    <3>1. \A q, s \in Pid : proc[s].birth = proc[q].birth => s = q \/ proc[q].birth = 0
      BY DEF ProcessesAreBorn
    <3> QED
      BY <3>1, <1>4, OmFacts
  <2> QED
    BY <1>2, <2>1, <2>2, Zenon DEF ProcessesAreBorn
<1>9. KidsAreOwn'
  <2>1. stage'[a] = "waited" /\ \A x \in App \ {a} : stage'[x] = stage[x]
    BY <1>2 DEF OmTypeOK
  <2>2. ASSUME NEW x \in App \ {a}, stage[x] # "idle"
        PROVE  proc'[kid[x].pid] = proc[kid[x].pid] \/ stage[x] = "waited"
    <3>1. stage[x] \in {"spawned", "marked", "waited"}
      BY <2>2 DEF OmTypeOK
    <3>2. ASSUME stage[x] \in {"spawned", "marked"}, kid[x].pid = p PROVE FALSE
      <4>1. /\ origin[kid[x].birth] = [app |-> x, kind |-> kid[x].kind]
            /\ proc[p] = [birth |-> kid[x].birth, kind |-> kid[x].kind]
        BY <2>2, <3>2, KidFacts
      <4>2. kid[x].birth = kid[a].birth
        BY <1>3, <4>1
      <4>3. origin[kid[a].birth].app = x /\ origin[kid[a].birth].app = a
        BY <1>3, <4>1, <4>2
      <4> QED
        BY <4>3, <2>2
    <3>3. kid[x].pid \in Pid
      BY <2>2, KidFacts
    <3> QED
      BY <3>1, <3>2, <3>3, <1>4
  <2>3. ASSUME NEW x \in App \ {a}, stage[x] = "waited"
        PROVE  proc'[kid[x].pid].birth # kid[x].birth
    <3>1. stage[x] # "idle"
      BY <2>3
    <3>2. kid[x].pid \in Pid /\ kid[x].birth # 0 /\ proc[kid[x].pid].birth # kid[x].birth
      BY <2>3, <3>1, KidFacts
    <3> QED
      BY <3>2, <1>4, OmFacts
  <2>4. ASSUME NEW x \in App \ {a}
        PROVE  /\ stage'[x] = "idle" => kid'[x] = NoKid
               /\ stage'[x] # "idle" =>
                    /\ x \in live' /\ slot'[x] = kid'[x].pid /\ kid'[x].pid \in Pid
                    /\ kid'[x].kind \in Kind /\ kid'[x].birth \in 2 .. births'
                    /\ origin'[kid'[x].birth] = [app |-> x, kind |-> kid'[x].kind]
               /\ stage'[x] \in {"spawned", "marked"} =>
                    proc'[kid'[x].pid] = [birth |-> kid'[x].birth, kind |-> kid'[x].kind]
               /\ stage'[x] = "waited" => proc'[kid'[x].pid].birth # kid'[x].birth
    <3>1. stage[x] = "idle" => kid[x] = NoKid
      BY DEF KidsAreOwn
    <3>2. stage[x] # "idle" => /\ x \in live /\ slot[x] = kid[x].pid /\ kid[x].pid \in Pid
                               /\ kid[x].kind \in Kind /\ kid[x].birth \in 2 .. births
                               /\ origin[kid[x].birth] = [app |-> x, kind |-> kid[x].kind]
      BY KidFacts
    <3>3. stage[x] \in {"spawned", "marked"} =>
            proc'[kid[x].pid] = [birth |-> kid[x].birth, kind |-> kid[x].kind]
      <4>1. ASSUME stage[x] \in {"spawned", "marked"}
            PROVE  proc'[kid[x].pid] = proc[kid[x].pid]
        BY <2>2, <4>1
      <4> QED
        BY <4>1 DEF KidsAreOwn
    <3> QED
      BY <1>2, <2>1, <2>3, <3>1, <3>2, <3>3
  <2>5. proc'[kid[a].pid].birth # kid[a].birth
    BY <1>1, <1>3, <1>4, OmFacts
  <2> QED
    BY <1>1, <1>2, <1>3, <2>1, <2>4, <2>5 DEF KidsAreOwn
<1>10. MarkersStay'
  BY <1>2, <1>4, OmFacts, StayKept
<1>11. OnlyOrphansAreStruck'
  BY <1>2 DEF OnlyOrphansAreStruck
<1> QED
  BY <1>5, <1>7, <1>8, <1>9, <1>10, <1>11

\* A reader removes the marker of the child it waited for.
LEMMA RemoveMarkerStep ==
  ASSUME OmInv, NEW a \in App, RemoveMarker(a)
  PROVE  OmInv'
<1> USE DEF OmInv
<1>1. PICK m : m = <<kid[a].kind, kid[a].pid>>
  OBVIOUS
<1>2. PICK b : b = kid[a].birth
  OBVIOUS
<1>3. /\ stage[a] = "waited" /\ mark' = [mark EXCEPT ![m] = NoMark]
      /\ snatched' = Snatches(m, b)
      /\ slot' = slot \/ slot' = [slot EXCEPT ![a] = 0]
      /\ stage' = [stage EXCEPT ![a] = "idle"] /\ kid' = [kid EXCEPT ![a] = NoKid]
      /\ UNCHANGED <<live, proc, group, births, op, origin, written, struck>>
  BY <1>1, <1>2 DEF RemoveMarker
<1>4. m \in Mark /\ b \in Nat /\ proc[m[2]].birth # b
  <2>1. stage[a] # "idle"
    BY <1>3
  <2>2. <<kid[a].kind, kid[a].pid>> \in Mark /\ b \in Nat /\ proc[kid[a].pid].birth # b
    BY <2>1, <1>2, <1>3, KidFacts
  <2> QED
    BY <2>2, <1>1
<1>5. /\ MarkersStay' /\ mark' \in [Mark -> Marks]
      /\ \A n \in Mark : mark'[n] = mark[n] \/ mark'[n].birth = 0
  BY <1>3, <1>4, MarkRemoved
<1>6. OmTypeOK'
  <2>1. NoKid \in [pid : Pid \cup {0}, birth : Nat, kind : Kind \cup {"free"}]
    BY DEF NoKid
  <2>2. kid' \in [App -> [pid : Pid \cup {0}, birth : Nat, kind : Kind \cup {"free"}]]
    BY <1>3, <2>1 DEF OmTypeOK
  <2>3. /\ stage' \in [App -> {"idle", "spawned", "marked", "waited"}]
        /\ slot' \in [App -> Pid \cup {0}]
    BY <1>3 DEF OmTypeOK
  <2> QED
    BY <1>3, <1>5, <2>2, <2>3 DEF OmTypeOK
<1>7. KidsAreOwn' /\ Ages
  <2>1. \A x \in App \ {a} : slot'[x] = slot[x]
    BY <1>3 DEF OmTypeOK
  <2> QED
    BY <2>1, <1>3, KidLeaves
<1>8. MarksAreGenuine' /\ OpsAreHonest'
  BY <1>3, <1>5, <1>7, RecordsKept, OrphanMarkersAssumption DEF OmTypeOK
<1>9. ProcessesAreBorn' /\ OnlyOrphansAreStruck'
  BY <1>3 DEF ProcessesAreBorn, OnlyOrphansAreStruck
<1> QED
  BY <1>5, <1>6, <1>7, <1>8, <1>9

\* What an operation is.
LEMMA OpIs ==
  ASSUME OmInv, NEW a \in App
  PROVE  /\ op[a] \in Ops /\ HonestOp(a, op[a])
         /\ op[a] = [pc |-> op[a].pc, pid |-> op[a].pid, tracked |-> op[a].tracked,
                     todo |-> op[a].todo, at |-> op[a].at, read |-> op[a].read,
                     found |-> op[a].found, kind |-> op[a].kind, group |-> op[a].group,
                     known |-> op[a].known]
<1>1. op[a] \in Ops /\ HonestOp(a, op[a])
  BY DEF OmInv, OmTypeOK, OpsAreHonest
<1> QED
  BY <1>1 DEF Ops

\* An operation that only goes on, to a place where it need know no more.
LEMMA GoesOn ==
  ASSUME NEW a \in App, NEW o \in Ops, HonestOp(a, o), NEW c \in OmPcs,
         c \in {"identify", "classify", "remove"} => o.pc \in {"identify", "classify", "remove"},
         c = "classify" => o.read.owner \notin live \ {a},
         c = "remove" /\ o.read.birth # 0 => proc[o.at[2]].birth # o.read.birth,
         c \in {"look", "term", "wait", "kill", "kill_group", "exit", "unlink"} =>
           o.kind # "free" /\ o.found.birth # 0 /\ o.group \in {0, o.found.birth},
         c = "unlink" => proc[o.pid].birth # o.found.birth,
         c \in {"idle", "scan", "identify", "classify", "remove"} => o.group = 0
  PROVE  [o EXCEPT !.pc = c] \in Ops /\ HonestOp(a, [o EXCEPT !.pc = c])
<1>1. PICK r : r = [o EXCEPT !.pc = c]
  OBVIOUS
<1>2. /\ r.pc = c /\ r.pid = o.pid /\ r.tracked = o.tracked /\ r.todo = o.todo /\ r.at = o.at
      /\ r.read = o.read /\ r.found = o.found /\ r.kind = o.kind /\ r.group = o.group
      /\ r.known = o.known
  BY <1>1 DEF Ops
<1>3. r \in Ops
  BY <1>1 DEF Ops
<1>4. HonestOp(a, r)
  BY <1>2 DEF HonestOp
<1> QED
  BY <1>1, <1>3, <1>4

\* A scan begins with a copy of the slot.
LEMMA BeginScanStep ==
  ASSUME OmInv, NEW a \in App, NEW p \in Pid \cup {0}, BeginScan(a, p)
  PROVE  OmInv'
<1>1. PICK q : q = QuietOp
  OBVIOUS
<1>2. PICK t : t = Tracked(a)
  OBVIOUS
<1>3. PICK k : k = IF p = 0 THEN {} ELSE Marked(p)
  OBVIOUS
<1>4. PICK r : r = [q EXCEPT !.pc = "scan", !.pid = p, !.tracked = t, !.todo = Mark, !.known = k]
  OBVIOUS
<1>5. /\ op' = [op EXCEPT ![a] = r] /\ struck' = NoStrike
      /\ UNCHANGED <<live, proc, group, births, mark, kid, stage, slot, origin, written, snatched>>
  BY <1>1, <1>2, <1>3, <1>4, Zenon DEF BeginScan, Goes
<1>6. r = [pc |-> "scan", pid |-> p, tracked |-> t, todo |-> Mark, at |-> <<"serving", 0>>,
           read |-> NoMark, found |-> NoMark, kind |-> "free", group |-> 0, known |-> k]
  BY <1>1, <1>4 DEF QuietOp
<1>7. ASSUME NEW b \in k PROVE b \in Nat /\ b <= births /\ (kid[a].birth = b => p \in t)
  <2>1. p \in Pid /\ b \in Marked(p)
    BY <1>3, <1>7
  <2>2. PICK i \in Kind : b = mark[<<i, p>>].birth /\ b # 0
    BY <2>1 DEF Marked
  <2>3. <<i, p>> \in Mark /\ Genuine(mark[<<i, p>>], <<i, p>>)
    BY <2>1, <2>2 DEF OmInv, MarksAreGenuine, Mark
  <2>4. /\ b \in 2 .. births /\ mark[<<i, p>>].owner \in App
        /\ origin[b] = [app |-> mark[<<i, p>>].owner, kind |-> i]
        /\ kid[mark[<<i, p>>].owner].birth = b => kid[mark[<<i, p>>].owner].pid = p
    BY <2>2, <2>3 DEF Genuine
  <2>5. ASSUME kid[a].birth = b PROVE p \in t
    <3>1. stage[a] # "idle"
      BY <2>2, <2>5, OmFacts DEF OmInv, KidsAreOwn
    <3>2. origin[b] = [app |-> a, kind |-> kid[a].kind] /\ slot[a] = kid[a].pid
      BY <3>1, <2>5, KidFacts
    <3>3. origin[b].app = a /\ origin[b].app = mark[<<i, p>>].owner
      BY <3>2, <2>4
    <3>4. slot[a] = p
      BY <3>2, <3>3, <2>4, <2>5
    <3> QED
      BY <3>4, <2>1, <1>2, OmFacts DEF Tracked
  <2> QED
    BY <2>4, <2>5, OrphanMarkersAssumption DEF OmInv, OmTypeOK
<1>8. t \subseteq Pid
  BY <1>2 DEF Tracked, OmInv, OmTypeOK
<1>9. k \subseteq Nat
  BY <1>7
<1>10. r \in Ops
  BY <1>6, <1>8, <1>9, OmFacts DEF Ops, OmPcs, Kind
<1>11. HonestOp(a, r)
  BY <1>6, <1>7 DEF HonestOp
<1>12. OnlyOrphansAreStruck'
  BY <1>5 DEF OnlyOrphansAreStruck
<1> QED
  BY <1>5, <1>10, <1>11, <1>12, OpOnly

\* The next marker is read.
LEMMA ReadMarkerStep ==
  ASSUME OmInv, NEW a \in App, ReadMarker(a)
  PROVE  OmInv'
<1>1. PICK o : o = op[a]
  OBVIOUS
<1>2. PICK m \in o.todo :
        \/ op' = [op EXCEPT ![a] = [o EXCEPT !.todo = @ \ {m}]]
        \/ /\ m[2] \notin o.tracked
           /\ op' = [op EXCEPT ![a] = [o EXCEPT !.todo = @ \ {m}, !.pc = "identify", !.at = m,
                                                !.read = mark[m]]]
  BY <1>1, Zenon DEF ReadMarker, Goes
<1>3. /\ o.pc = "scan" /\ UNCHANGED <<live, proc, group, births, mark, kid, stage, slot, origin,
                                      written, struck, snatched>>
  BY <1>1, Zenon DEF ReadMarker
<1>4. /\ o \in Ops /\ HonestOp(a, o)
      /\ o = [pc |-> o.pc, pid |-> o.pid, tracked |-> o.tracked, todo |-> o.todo, at |-> o.at,
              read |-> o.read, found |-> o.found, kind |-> o.kind, group |-> o.group,
              known |-> o.known]
  BY <1>1, OpIs
<1>5. m \in Mark /\ Genuine(mark[m], m) /\ mark[m] \in Marks
  BY <1>2, <1>4 DEF Ops, OmInv, OmTypeOK, MarksAreGenuine
<1>6. OnlyOrphansAreStruck'
  BY <1>3, StruckKept DEF OmInv
<1>7. CASE op' = [op EXCEPT ![a] = [o EXCEPT !.todo = @ \ {m}]]
  <2>1. PICK r : r = [o EXCEPT !.todo = @ \ {m}]
    OBVIOUS
  <2>2. r = [pc |-> o.pc, pid |-> o.pid, tracked |-> o.tracked, todo |-> o.todo \ {m}, at |-> o.at,
             read |-> o.read, found |-> o.found, kind |-> o.kind, group |-> o.group,
             known |-> o.known]
    BY <2>1, <1>4
  <2>3. r \in Ops /\ HonestOp(a, r)
    BY <2>2, <1>4 DEF Ops, HonestOp
  <2> QED
    BY <1>3, <1>6, <1>7, <2>1, <2>3, OpOnly
<1>8. CASE /\ m[2] \notin o.tracked
           /\ op' = [op EXCEPT ![a] = [o EXCEPT !.todo = @ \ {m}, !.pc = "identify", !.at = m,
                                                !.read = mark[m]]]
  <2>1. PICK r : r = [o EXCEPT !.todo = @ \ {m}, !.pc = "identify", !.at = m, !.read = mark[m]]
    OBVIOUS
  <2>2. r = [pc |-> "identify", pid |-> o.pid, tracked |-> o.tracked, todo |-> o.todo \ {m},
             at |-> m, read |-> mark[m], found |-> o.found, kind |-> o.kind, group |-> o.group,
             known |-> o.known]
    BY <2>1, <1>4
  <2>3. r \in Ops
    BY <2>2, <1>4, <1>5 DEF Ops, Mark, OmPcs
  <2>4. HonestOp(a, r)
    BY <2>2, <1>3, <1>4, <1>5, <1>8 DEF HonestOp
  <2> QED
    BY <1>3, <1>6, <1>8, <2>1, <2>3, <2>4, OpOnly
<1> QED
  BY <1>2, <1>7, <1>8

\* The marker's process and owner are looked at, and its argv.
LEMMA IdentifyStep ==
  ASSUME OmInv, NEW a \in App, Identify(a)
  PROVE  OmInv'
<1>1. PICK o : o = op[a]
  OBVIOUS
<1>2. PICK c : c = Identified(a, o.at[2], o.read)
  OBVIOUS
<1>3. /\ o.pc = "identify" /\ op' = [op EXCEPT ![a] = [o EXCEPT !.pc = c]]
      /\ UNCHANGED <<live, proc, group, births, mark, kid, stage, slot, origin, written, struck,
                     snatched>>
  BY <1>1, <1>2, Zenon DEF Identify, Goes
<1>4. o \in Ops /\ HonestOp(a, o)
  BY <1>1, OpIs
<1>5. o.at[2] \in Pid /\ o.at[2] # 0
  BY <1>3, <1>4, OmFacts DEF HonestOp, Mark
<1>6. /\ c \in {"remove", "scan", "classify"}
      /\ c = "classify" => o.read.owner \notin live \ {a}
      /\ c = "remove" => proc[o.at[2]] = NoProc
  BY <1>2, <1>5 DEF Identified, PidAlive
<1>7. [o EXCEPT !.pc = c] \in Ops /\ HonestOp(a, [o EXCEPT !.pc = c])
  <2>1. c = "remove" /\ o.read.birth # 0 => proc[o.at[2]].birth # o.read.birth
    BY <1>6, OmFacts
  <2>2. o.group = 0
    BY <1>3, <1>4 DEF HonestOp
  <2> QED
    BY <1>3, <1>4, <1>6, <2>1, <2>2, GoesOn DEF OmPcs
<1>8. OnlyOrphansAreStruck'
  BY <1>3, StruckKept DEF OmInv
<1> QED
  BY <1>3, <1>7, <1>8, OpOnly

LEMMA ClassifyStep ==
  ASSUME OmInv, NEW a \in App, Classify(a)
  PROVE  OmInv'
<1>1. PICK o : o = op[a]
  OBVIOUS
<1>2. PICK c \in Classes(o.at[2]) :
        \/ c = "not_mlx" /\ op' = [op EXCEPT ![a] = [o EXCEPT !.pc = "remove"]]
        \/ /\ o.at[2] = o.pid
           /\ op' = [op EXCEPT ![a] = [o EXCEPT !.pc = "scan", !.kind = o.at[1], !.found = o.read]]
        \/ op' = [op EXCEPT ![a] = [o EXCEPT !.pc = "scan"]]
  <2>1. PICK x : x = [o EXCEPT !.pc = "remove"]
    OBVIOUS
  <2>2. PICK y : y = [o EXCEPT !.pc = "scan", !.kind = o.at[1], !.found = o.read]
    OBVIOUS
  <2>3. PICK z : z = [o EXCEPT !.pc = "scan"]
    OBVIOUS
  <2>4. PICK c \in Classes(o.at[2]) :
          Goes(a, CASE c = "not_mlx" -> x [] o.at[2] = o.pid /\ o.kind = "free" -> y [] OTHER -> z)
    BY <1>1, <2>1, <2>2, <2>3, Zenon DEF Classify
  <2>5. \/ c = "not_mlx" /\ op' = [op EXCEPT ![a] = x]
        \/ o.at[2] = o.pid /\ op' = [op EXCEPT ![a] = y]
        \/ op' = [op EXCEPT ![a] = z]
    <3>1. PICK r : r = CASE c = "not_mlx" -> x [] o.at[2] = o.pid /\ o.kind = "free" -> y [] OTHER -> z
      OBVIOUS
    <3>2. \/ c = "not_mlx" /\ r = x
          \/ o.at[2] = o.pid /\ r = y
          \/ r = z
      BY <3>1
    <3>3. op' = [op EXCEPT ![a] = r]
      BY <2>4, <3>1, Zenon DEF Goes
    <3> QED
      BY <3>2, <3>3, Zenon
  <2> QED
    BY <2>1, <2>2, <2>3, <2>5, Zenon
<1>3. /\ o.pc = "classify"
      /\ UNCHANGED <<live, proc, group, births, mark, kid, stage, slot, origin, written, struck,
                     snatched>>
  BY <1>1, Zenon DEF Classify
<1>4. /\ o \in Ops /\ HonestOp(a, o) /\ o.group = 0
      /\ o = [pc |-> o.pc, pid |-> o.pid, tracked |-> o.tracked, todo |-> o.todo, at |-> o.at,
              read |-> o.read, found |-> o.found, kind |-> o.kind, group |-> o.group,
              known |-> o.known]
  BY <1>1, <1>3, OpIs DEF HonestOp
<1>5. /\ o.at \in Mark /\ o.at[2] \in Pid /\ o.at[1] \in Kind /\ o.at = <<o.at[1], o.at[2]>>
      /\ o.at[2] \notin o.tracked /\ Genuine(o.read, o.at) /\ o.read.owner \notin live \ {a}
  BY <1>3, <1>4 DEF HonestOp, Mark
<1>6. OnlyOrphansAreStruck'
  BY <1>3, StruckKept DEF OmInv
<1>7. CASE op' = [op EXCEPT ![a] = [o EXCEPT !.pc = "remove"]] /\ c = "not_mlx"
  <2>1. proc[o.at[2]] # NoProc /\ proc[o.at[2]].kind \notin Kind
    BY <1>2, <1>7 DEF Classes, PidAlive
  <2>2. ASSUME o.read.birth # 0 PROVE proc[o.at[2]].birth # o.read.birth
    <3>1. origin[o.read.birth] = [app |-> o.read.owner, kind |-> o.at[1]]
      BY <2>2, <1>5 DEF Genuine
    <3>2. origin[o.read.birth].kind = o.at[1]
      BY <3>1
    <3>3. proc[o.at[2]].kind = origin[proc[o.at[2]].birth].kind
      BY <2>1, <1>5 DEF OmInv, ProcessesAreBorn
    <3> QED
      BY <3>2, <3>3, <2>1, <1>5
  <2>3. [o EXCEPT !.pc = "remove"] \in Ops /\ HonestOp(a, [o EXCEPT !.pc = "remove"])
    BY <1>3, <1>4, <2>2, GoesOn DEF OmPcs
  <2> QED
    BY <1>3, <1>6, <1>7, <2>3, OpOnly
<1>8. CASE op' = [op EXCEPT ![a] = [o EXCEPT !.pc = "scan"]]
  <2>1. [o EXCEPT !.pc = "scan"] \in Ops /\ HonestOp(a, [o EXCEPT !.pc = "scan"])
    BY <1>4, GoesOn DEF OmPcs
  <2> QED
    BY <1>3, <1>6, <1>8, <2>1, OpOnly
<1>9. CASE /\ op' = [op EXCEPT ![a] = [o EXCEPT !.pc = "scan", !.kind = o.at[1], !.found = o.read]]
           /\ o.at[2] = o.pid
  <2>1. PICK r : r = [o EXCEPT !.pc = "scan", !.kind = o.at[1], !.found = o.read]
    OBVIOUS
  <2>2. r = [pc |-> "scan", pid |-> o.pid, tracked |-> o.tracked, todo |-> o.todo, at |-> o.at,
             read |-> o.read, found |-> o.read, kind |-> o.at[1], group |-> o.group,
             known |-> o.known]
    BY <2>1, <1>4
  <2>3. r \in Ops
    BY <2>2, <1>4, <1>5 DEF Ops, OmPcs
  <2>4. HonestOp(a, r)
    <3>1. /\ r.kind = o.at[1] /\ r.pid \in Pid \ r.tracked /\ r.found.owner \notin live \ {a}
          /\ r.group = 0 /\ r.pc = "scan" /\ r.known = o.known /\ r.pid = o.pid
          /\ r.tracked = o.tracked
      BY <2>2, <1>4, <1>5, <1>9
    <3>2. Genuine(r.found, <<r.kind, r.pid>>)
      BY <2>2, <1>5, <1>9
    <3> QED
      BY <3>1, <3>2, <1>4 DEF HonestOp
  <2> QED
    BY <1>3, <1>6, <1>9, <2>1, <2>3, <2>4, OpOnly
<1> QED
  BY <1>2, <1>7, <1>8, <1>9, Zenon

\* The scan ends, or goes on with the orphan it found.
LEMMA ScanEndsStep ==
  ASSUME OmInv, NEW a \in App, ScanEnds(a)
  PROVE  OmInv'
<1>1. PICK o : o = op[a]
  OBVIOUS
<1>2. \/ op' = [op EXCEPT ![a] = QuietOp]
      \/ /\ o.kind # "free" /\ o.found.birth # 0
         /\ op' = [op EXCEPT ![a] = [o EXCEPT !.pc = "look"]]
  BY <1>1, Zenon DEF ScanEnds, Goes
<1>3. /\ o.pc = "scan"
      /\ UNCHANGED <<live, proc, group, births, mark, kid, stage, slot, origin, written, struck,
                     snatched>>
  BY <1>1, Zenon DEF ScanEnds
<1>4. o \in Ops /\ HonestOp(a, o)
  BY <1>1, OpIs
<1>5. OnlyOrphansAreStruck'
  BY <1>3, StruckKept DEF OmInv
<1>6. CASE op' = [op EXCEPT ![a] = QuietOp]
  BY <1>3, <1>5, <1>6, OmFacts, OpOnly
<1>7. CASE /\ o.kind # "free" /\ o.found.birth # 0
           /\ op' = [op EXCEPT ![a] = [o EXCEPT !.pc = "look"]]
  <2>1. o.group = 0
    BY <1>3, <1>4 DEF HonestOp
  <2>2. [o EXCEPT !.pc = "look"] \in Ops /\ HonestOp(a, [o EXCEPT !.pc = "look"])
    BY <1>4, <1>7, <2>1, GoesOn DEF OmPcs
  <2> QED
    BY <1>3, <1>5, <1>7, <2>2, OpOnly
<1> QED
  BY <1>2, <1>6, <1>7

\* The start time of the target and the members of its group.
LEMMA LookStep ==
  ASSUME OmInv, NEW a \in App, Look(a)
  PROVE  OmInv'
<1>1. PICK o : o = op[a]
  OBVIOUS
<1>2. PICK g : g = IF o.kind = "training" THEN group[o.pid] ELSE 0
  OBVIOUS
<1>3. \/ op' = [op EXCEPT ![a] = QuietOp]
      \/ /\ proc[o.pid].birth = o.found.birth
         /\ op' = [op EXCEPT ![a] = [o EXCEPT !.pc = "term", !.group = g]]
  BY <1>1, <1>2, Zenon DEF Look, Goes, StartTime
<1>4. /\ o.pc = "look"
      /\ UNCHANGED <<live, proc, group, births, mark, kid, stage, slot, origin, written, struck,
                     snatched>>
  BY <1>1, Zenon DEF Look
<1>5. /\ o \in Ops /\ HonestOp(a, o) /\ o.kind # "free" /\ o.found.birth # 0 /\ o.pid \in Pid
      /\ o = [pc |-> o.pc, pid |-> o.pid, tracked |-> o.tracked, todo |-> o.todo, at |-> o.at,
              read |-> o.read, found |-> o.found, kind |-> o.kind, group |-> o.group,
              known |-> o.known]
  BY <1>1, <1>4, OpIs DEF HonestOp
<1>6. OnlyOrphansAreStruck'
  BY <1>4, StruckKept DEF OmInv
<1>7. CASE op' = [op EXCEPT ![a] = QuietOp]
  BY <1>4, <1>6, <1>7, OmFacts, OpOnly
<1>8. CASE /\ proc[o.pid].birth = o.found.birth
           /\ op' = [op EXCEPT ![a] = [o EXCEPT !.pc = "term", !.group = g]]
  <2>1. PICK r : r = [o EXCEPT !.pc = "term", !.group = g]
    OBVIOUS
  <2>2. r = [pc |-> "term", pid |-> o.pid, tracked |-> o.tracked, todo |-> o.todo, at |-> o.at,
             read |-> o.read, found |-> o.found, kind |-> o.kind, group |-> g, known |-> o.known]
    BY <2>1, <1>5
  <2>3. g \in Nat /\ g \in {0, o.found.birth}
    <3>1. proc[o.pid] # NoProc
      BY <1>5, <1>8, OmFacts
    <3> QED
      BY <3>1, <1>2, <1>5, <1>8 DEF OmInv, OmTypeOK, ProcessesAreBorn
  <2>4. r \in Ops /\ HonestOp(a, r)
    BY <2>2, <2>3, <1>5 DEF Ops, OmPcs, HonestOp
  <2> QED
    BY <1>4, <1>6, <1>8, <2>1, <2>4, OpOnly
<1> QED
  BY <1>3, <1>7, <1>8

\* SIGTERM.
LEMMA TermStep ==
  ASSUME OmInv, NEW a \in App, Term(a)
  PROVE  OmInv'
<1>1. PICK o : o = op[a]
  OBVIOUS
<1>2. \/ op' = [op EXCEPT ![a] = QuietOp] /\ struck' = struck
      \/ /\ op' = [op EXCEPT ![a] = [o EXCEPT !.pc = "wait"]]
         /\ proc[o.pid].birth = o.found.birth /\ Strike(a, proc[o.pid].birth)
  BY <1>1, Zenon DEF Term, Goes, StartTime
<1>3. /\ o.pc = "term"
      /\ UNCHANGED <<live, proc, group, births, mark, kid, stage, slot, origin, written, snatched>>
  BY <1>1, Zenon DEF Term
<1>4. o \in Ops /\ HonestOp(a, o)
  BY <1>1, OpIs
<1>5. o.kind # "free" /\ o.found.birth # 0 /\ o.group \in {0, o.found.birth}
  BY <1>3, <1>4 DEF HonestOp
<1>6. CASE op' = [op EXCEPT ![a] = QuietOp] /\ struck' = struck
  <2>1. OnlyOrphansAreStruck'
    BY <1>6, StruckKept DEF OmInv
  <2> QED
    BY <1>3, <1>6, <2>1, OmFacts, OpOnly
<1>7. CASE /\ op' = [op EXCEPT ![a] = [o EXCEPT !.pc = "wait"]]
           /\ proc[o.pid].birth = o.found.birth /\ Strike(a, proc[o.pid].birth)
  <2>1. OnlyOrphansAreStruck'
    <3>1. Strike(a, op[a].found.birth)
      BY <1>1, <1>7
    <3> QED
      BY <3>1, <1>1, <1>3, <1>5, StrikeIsRight
  <2>2. [o EXCEPT !.pc = "wait"] \in Ops /\ HonestOp(a, [o EXCEPT !.pc = "wait"])
    BY <1>4, <1>5, GoesOn DEF OmPcs
  <2> QED
    BY <1>3, <1>7, <2>1, <2>2, OpOnly
<1> QED
  BY <1>2, <1>6, <1>7

\* What is left of the target, a second later.
LEMMA RecheckStep ==
  ASSUME OmInv, NEW a \in App, Recheck(a)
  PROVE  OmInv'
<1>1. PICK o : o = op[a]
  OBVIOUS
<1>2. PICK x : x = [o EXCEPT !.pc = "exit"]
  OBVIOUS
<1>3. PICK y : y = [o EXCEPT !.pc = "kill_group"]
  OBVIOUS
<1>4. PICK z : z = [o EXCEPT !.pc = "kill"]
  OBVIOUS
<1>5. PICK readable \in BOOLEAN :
        Goes(a, CASE ~TargetAlive(o) -> x
                  [] TargetAlive(o) /\ readable /\ Witness(o) -> y
                  [] TargetAlive(o) /\ readable /\ ~Witness(o) /\ StartTime(o.pid) = o.found.birth
                                    /\ "mlx" \in Classes(o.pid) -> z
                  [] OTHER -> QuietOp)
  BY <1>1, <1>2, <1>3, <1>4, Zenon DEF Recheck
<1>6. PICK r : r = CASE ~TargetAlive(o) -> x
                     [] TargetAlive(o) /\ readable /\ Witness(o) -> y
                     [] TargetAlive(o) /\ readable /\ ~Witness(o) /\ StartTime(o.pid) = o.found.birth
                                       /\ "mlx" \in Classes(o.pid) -> z
                     [] OTHER -> QuietOp
  OBVIOUS
<1>7. r \in {x, y, z, QuietOp}
  BY <1>6
<1>8. op' = [op EXCEPT ![a] = r]
  BY <1>5, <1>6, Zenon DEF Goes
<1>9. /\ o.pc = "wait"
      /\ UNCHANGED <<live, proc, group, births, mark, kid, stage, slot, origin, written, struck,
                     snatched>>
  BY <1>1, Zenon DEF Recheck
<1>10. o \in Ops /\ HonestOp(a, o)
  BY <1>1, OpIs
<1>11. o.kind # "free" /\ o.found.birth # 0 /\ o.group \in {0, o.found.birth}
  BY <1>9, <1>10 DEF HonestOp
<1>12. x \in Ops /\ HonestOp(a, x)
  BY <1>2, <1>10, <1>11, GoesOn DEF OmPcs
<1>13. y \in Ops /\ HonestOp(a, y)
  BY <1>3, <1>10, <1>11, GoesOn DEF OmPcs
<1>14. z \in Ops /\ HonestOp(a, z)
  BY <1>4, <1>10, <1>11, GoesOn DEF OmPcs
<1>15. OnlyOrphansAreStruck'
  BY <1>9, StruckKept DEF OmInv
<1>16. r \in Ops /\ HonestOp(a, r)
  BY <1>7, <1>12, <1>13, <1>14, OmFacts
<1> QED
  BY <1>8, <1>9, <1>15, <1>16, OpOnly

\* SIGKILL.
LEMMA KillStep ==
  ASSUME OmInv, NEW a \in App, Kill(a)
  PROVE  OmInv'
<1>1. PICK o : o = op[a]
  OBVIOUS
<1>2. PICK p : p = o.pid
  OBVIOUS
<1>3. PICK r : r = [o EXCEPT !.pc = "exit"]
  OBVIOUS
<1>4. /\ o.pc \in {"kill", "kill_group"}
      /\ UNCHANGED <<live, births, mark, kid, stage, slot, origin, written, snatched>>
  BY <1>1, Zenon DEF Kill
<1>5. \/ /\ op' = [op EXCEPT ![a] = QuietOp] /\ UNCHANGED <<proc, group, struck>>
      \/ /\ op' = [op EXCEPT ![a] = r]
         /\ \/ o.pc = "kill" /\ proc[p].birth = o.found.birth
            \/ o.pc = "kill_group" /\ Witness(o)
         /\ Strike(a, IF o.pc = "kill" THEN proc[p].birth ELSE group[p])
         /\ proc' = IF HeldByParent(p) THEN proc ELSE [proc EXCEPT ![p] = NoProc]
         /\ group' = group \/ group' = [group EXCEPT ![p] = 0]
  BY <1>1, <1>2, <1>3, Zenon DEF Kill, Goes, StartTime
<1>6. /\ o \in Ops /\ HonestOp(a, o)
      /\ o = [pc |-> o.pc, pid |-> o.pid, tracked |-> o.tracked, todo |-> o.todo, at |-> o.at,
              read |-> o.read, found |-> o.found, kind |-> o.kind, group |-> o.group,
              known |-> o.known]
  BY <1>1, OpIs
<1>7. /\ o.kind # "free" /\ o.found.birth # 0 /\ o.group \in {0, o.found.birth} /\ p \in Pid
      /\ o.found.owner \notin live \ {a} /\ Genuine(o.found, <<o.kind, o.pid>>)
  BY <1>2, <1>4, <1>6 DEF HonestOp
<1>8. CASE op' = [op EXCEPT ![a] = QuietOp] /\ UNCHANGED <<proc, group, struck>>
  <2>1. OnlyOrphansAreStruck'
    BY <1>8, StruckKept DEF OmInv
  <2> QED
    BY <1>4, <1>8, <2>1, OmFacts, OpOnly
<1>9. CASE /\ op' = [op EXCEPT ![a] = r]
           /\ \/ o.pc = "kill" /\ proc[p].birth = o.found.birth
              \/ o.pc = "kill_group" /\ Witness(o)
           /\ Strike(a, IF o.pc = "kill" THEN proc[p].birth ELSE group[p])
           /\ proc' = IF HeldByParent(p) THEN proc ELSE [proc EXCEPT ![p] = NoProc]
           /\ group' = group \/ group' = [group EXCEPT ![p] = 0]
  <2>1. OnlyOrphansAreStruck'
    <3>1. (IF o.pc = "kill" THEN proc[p].birth ELSE group[p]) = o.found.birth
      BY <1>2, <1>4, <1>7, <1>9 DEF Witness
    <3>2. Strike(a, op[a].found.birth)
      BY <3>1, <1>1, <1>9
    <3> QED
      BY <3>2, <1>1, <1>4, <1>7, StrikeIsRight
  <2>2. r = [pc |-> "exit", pid |-> o.pid, tracked |-> o.tracked, todo |-> o.todo, at |-> o.at,
             read |-> o.read, found |-> o.found, kind |-> o.kind, group |-> o.group,
             known |-> o.known]
    BY <1>3, <1>6
  <2>3. r \in Ops /\ HonestOp(a, r)
    BY <1>3, <1>6, <1>7, GoesOn DEF OmPcs
  <2>4. HonestOp(a, r)'
    BY <2>2, <2>3, <1>4 DEF HonestOp, Genuine
  <2>5. op' \in [App -> Ops] /\ \A x \in App : op'[x] = op[x] \/ (x = a /\ op'[x] = r)
    BY <2>3, <1>9 DEF OmInv, OmTypeOK
  <2>6. \A x \in App : op'[x] = op[x] \/ HonestOp(x, op[x])'
    BY <2>4, <2>5 DEF HonestOp, Genuine
  <2> QED
    BY <2>1, <2>5, <2>6, <1>4, <1>7, <1>9, GoneStep
<1> QED
  BY <1>5, <1>8, <1>9

\* The target is gone, or the termination fails.
LEMMA AwaitExitStep ==
  ASSUME OmInv, NEW a \in App, AwaitExit(a)
  PROVE  OmInv'
<1>1. PICK o : o = op[a]
  OBVIOUS
<1>2. \/ op' = [op EXCEPT ![a] = QuietOp]
      \/ ~PidAlive(o.pid) /\ op' = [op EXCEPT ![a] = [o EXCEPT !.pc = "unlink"]]
  BY <1>1, Zenon DEF AwaitExit, Goes
<1>3. /\ o.pc = "exit"
      /\ UNCHANGED <<live, proc, group, births, mark, kid, stage, slot, origin, written, struck,
                     snatched>>
  BY <1>1, Zenon DEF AwaitExit
<1>4. o \in Ops /\ HonestOp(a, o)
  BY <1>1, OpIs
<1>5. o.kind # "free" /\ o.found.birth # 0 /\ o.group \in {0, o.found.birth} /\ o.pid \in Pid
  BY <1>3, <1>4 DEF HonestOp
<1>6. OnlyOrphansAreStruck'
  BY <1>3, StruckKept DEF OmInv
<1>7. CASE op' = [op EXCEPT ![a] = QuietOp]
  BY <1>3, <1>6, <1>7, OmFacts, OpOnly
<1>8. CASE ~PidAlive(o.pid) /\ op' = [op EXCEPT ![a] = [o EXCEPT !.pc = "unlink"]]
  <2>1. proc[o.pid].birth # o.found.birth
    BY <1>5, <1>8, OmFacts DEF PidAlive
  <2>2. [o EXCEPT !.pc = "unlink"] \in Ops /\ HonestOp(a, [o EXCEPT !.pc = "unlink"])
    BY <1>4, <1>5, <2>1, GoesOn DEF OmPcs
  <2> QED
    BY <1>3, <1>6, <1>8, <2>2, OpOnly
<1> QED
  BY <1>2, <1>7, <1>8

\* A scan or a termination removes a marker.
LEMMA UnlinkLemma ==
  ASSUME OmInv, NEW a \in App, NEW m \in Mark, NEW b \in Nat, NEW r \in Ops, HonestOp(a, r),
         mark' = [mark EXCEPT ![m] = NoMark], snatched' = Snatches(m, b),
         b # 0 => proc[m[2]].birth # b, op' = [op EXCEPT ![a] = r],
         UNCHANGED <<live, proc, group, births, kid, stage, slot, origin, written, struck>>
  PROVE  OmInv'
<1> USE DEF OmInv
<1>1. /\ MarkersStay' /\ mark' \in [Mark -> Marks]
      /\ \A n \in Mark : mark'[n] = mark[n] \/ mark'[n].birth = 0
  BY MarkRemoved
<1>2. OmTypeOK'
  BY <1>1 DEF OmTypeOK
<1>3. Ages /\ births' \in Nat
  BY OrphanMarkersAssumption DEF OmTypeOK, Ages
<1>4. ASSUME NEW x \in App PROVE op'[x] = op[x] \/ HonestOp(x, op[x])'
  <2>1. op'[x] = op[x] \/ (x = a /\ op'[x] = r)
    BY DEF OmTypeOK
  <2>2. HonestOp(a, r)'
    BY <1>3, HonestKept
  <2> QED
    BY <2>1, <2>2 DEF HonestOp, Genuine
<1>5. MarksAreGenuine' /\ OpsAreHonest'
  BY <1>1, <1>3, <1>4, RecordsKept
<1>6. ProcessesAreBorn' /\ KidsAreOwn' /\ OnlyOrphansAreStruck'
  BY DEF ProcessesAreBorn, KidsAreOwn, OnlyOrphansAreStruck
<1> QED
  BY <1>1, <1>2, <1>5, <1>6

LEMMA RemoveStaleStep ==
  ASSUME OmInv, NEW a \in App, RemoveStale(a)
  PROVE  OmInv'
<1>1. PICK o : o = op[a]
  OBVIOUS
<1>2. /\ o.pc = "remove" /\ mark' = [mark EXCEPT ![o.at] = NoMark]
      /\ snatched' = Snatches(o.at, o.read.birth)
      /\ op' = [op EXCEPT ![a] = [o EXCEPT !.pc = "scan"]]
      /\ UNCHANGED <<live, proc, group, births, kid, stage, slot, origin, written, struck>>
  BY <1>1, Zenon DEF RemoveStale, Goes
<1>3. o \in Ops /\ HonestOp(a, o)
  BY <1>1, OpIs
<1>4. /\ o.at \in Mark /\ o.read.birth \in Nat /\ o.group = 0
      /\ o.read.birth # 0 => proc[o.at[2]].birth # o.read.birth
  BY <1>2, <1>3 DEF HonestOp, Ops, Marks
<1>5. [o EXCEPT !.pc = "scan"] \in Ops /\ HonestOp(a, [o EXCEPT !.pc = "scan"])
  BY <1>3, <1>4, GoesOn DEF OmPcs
<1> QED
  BY <1>2, <1>4, <1>5, UnlinkLemma

LEMMA UnlinkStep ==
  ASSUME OmInv, NEW a \in App, Unlink(a)
  PROVE  OmInv'
<1>1. PICK o : o = op[a]
  OBVIOUS
<1>2. PICK m : m = <<o.kind, o.pid>>
  OBVIOUS
<1>3. PICK t : t = Tracked(a)
  OBVIOUS
<1>4. PICK q : q = QuietOp
  OBVIOUS
<1>5. PICK r : r = [q EXCEPT !.pc = "scan", !.tracked = t, !.todo = Mark]
  OBVIOUS
<1>6. /\ o.pc = "unlink" /\ mark' = [mark EXCEPT ![m] = NoMark]
      /\ snatched' = Snatches(m, o.found.birth) /\ op' = [op EXCEPT ![a] = r]
      /\ UNCHANGED <<live, proc, group, births, kid, stage, slot, origin, written, struck>>
  BY <1>1, <1>2, <1>3, <1>4, <1>5, Zenon DEF Unlink, Goes
<1>7. o \in Ops /\ HonestOp(a, o)
  BY <1>1, OpIs
<1>8. /\ o.kind # "free" /\ o.pid \in Pid /\ o.found.birth \in Nat
      /\ proc[o.pid].birth # o.found.birth
  BY <1>6, <1>7 DEF HonestOp, Ops, Marks
<1>9. m \in Mark /\ m[2] = o.pid
  BY <1>2, <1>7, <1>8 DEF Mark, Ops
<1>10. r = [pc |-> "scan", pid |-> 0, tracked |-> t, todo |-> Mark, at |-> <<"serving", 0>>,
            read |-> NoMark, found |-> NoMark, kind |-> "free", group |-> 0, known |-> {}]
  BY <1>4, <1>5 DEF QuietOp
<1>11. t \subseteq Pid
  BY <1>3 DEF Tracked, OmInv, OmTypeOK
<1>12. r \in Ops /\ HonestOp(a, r)
  BY <1>10, <1>11, OmFacts DEF Ops, OmPcs, Kind, HonestOp
<1> QED
  BY <1>6, <1>8, <1>9, <1>12, UnlinkLemma

\* The machine: a stranger, a child, an end, a group.
LEMMA MachineStep ==
  ASSUME OmInv,
         \/ \E p \in Pid : StrangerBorn(p) \/ Ends(p) \/ GroupForks(p) \/ GroupEnds(p)
         \/ \E a \in App, p \in Pid, k \in Kind : Spawn(a, p, k)
  PROVE  OmInv'
<1>1. ASSUME NEW p \in Pid, StrangerBorn(p) PROVE OmInv'
  <2>1. /\ Born(p, Nobody, "other")
        /\ UNCHANGED <<live, group, mark, kid, stage, slot, op, written, struck, snatched>>
    BY <1>1 DEF StrangerBorn
  <2> QED
    BY <2>1, BornStep
<1>2. ASSUME NEW a \in App, NEW p \in Pid, NEW k \in Kind, Spawn(a, p, k) PROVE OmInv'
  <2>1. /\ Born(p, a, k) /\ a \in live /\ stage[a] = "idle"
        /\ kid' = [kid EXCEPT ![a] = [pid |-> p, birth |-> births', kind |-> k]]
        /\ slot' = [slot EXCEPT ![a] = p]
        /\ stage' = [stage EXCEPT ![a] = "spawned"]
        /\ UNCHANGED <<live, group, mark, op, written, struck, snatched>>
    BY <1>2 DEF Spawn
  <2> QED
    BY <2>1, BornStep
<1>3. ASSUME NEW p \in Pid, Ends(p) \/ GroupForks(p) \/ GroupEnds(p) PROVE OmInv'
  <2>1. UNCHANGED <<live, births, mark, kid, stage, slot, op, origin, written, struck, snatched>>
    BY <1>3 DEF Ends, GroupForks, GroupEnds
  <2>2. \/ /\ proc' = [proc EXCEPT ![p] = NoProc] /\ ~HeldByParent(p) /\ group' = group
        \/ /\ proc' = proc /\ group' = [group EXCEPT ![p] = proc[p].birth]
           /\ proc[p].kind = "training"
        \/ proc' = proc /\ group' = [group EXCEPT ![p] = 0]
    BY <1>3 DEF Ends, GroupForks, GroupEnds
  <2>3. proc[p].kind = "training" => proc[p] # NoProc
    BY OmFacts
  <2>4. OnlyOrphansAreStruck'
    BY <2>1, StruckKept DEF OmInv
  <2>5. op' = op /\ op' \in [App -> Ops]
    BY <2>1 DEF OmInv, OmTypeOK
  <2> QED
    BY <2>1, <2>2, <2>3, <2>4, <2>5, GoneStep
<1> QED
  BY <1>1, <1>2, <1>3

\* Every step keeps the invariant.
LEMMA OmStep ==
  ASSUME OmInv, [OmNext]_omVars
  PROVE  OmInv'
<1>1. ASSUME NEW a \in App,
             \/ AppDies(a) \/ WriteMarker(a) \/ Reap(a) \/ RemoveMarker(a)
             \/ ReadMarker(a) \/ Identify(a) \/ Classify(a) \/ RemoveStale(a) \/ ScanEnds(a)
             \/ Look(a) \/ Term(a) \/ Recheck(a) \/ Kill(a) \/ AwaitExit(a) \/ Unlink(a)
      PROVE  OmInv'
  BY <1>1, AppDiesStep, WriteMarkerStep, ReapStep, RemoveMarkerStep, ReadMarkerStep,
     IdentifyStep, ClassifyStep, RemoveStaleStep, ScanEndsStep, LookStep, TermStep, RecheckStep,
     KillStep, AwaitExitStep, UnlinkStep
<1>2. CASE UNCHANGED omVars
  <2>1. UNCHANGED <<live, proc, group, births, mark, kid, stage, slot, op, origin, written, struck,
                    snatched>>
    BY <1>2 DEF omVars
  <2> QED
    BY <2>1 DEF OmInv, OmTypeOK, ProcessesAreBorn, KidsAreOwn, MarksAreGenuine, OpsAreHonest,
                MarkersStay, OnlyOrphansAreStruck, Genuine, HonestOp
<1> QED
  BY <1>1, <1>2, BeginScanStep, MachineStep DEF OmNext

\* What a marker, a child and an operation are holds of every behaviour, whatever
\* pids come back and whichever instances die.
THEOREM OmInvariant == OmSpec => []OmInv
BY OmInitInv, OmStep, PTL DEF OmSpec

\* A termination signals MLX processes only, and none that a running instance
\* waits for and whose marker was there when the slots were copied.
THEOREM OnlyOrphansAreEverStruck == OmSpec => []OnlyOrphansAreStruck
<1>1. OmInv => OnlyOrphansAreStruck
  BY DEF OmInv
<1> QED
  BY <1>1, OmInvariant, PTL

\* A process that outlives its program can be found by its marker.
THEOREM OrphansAlwaysKeepTheirMarker == OmSpec => []OrphanKeepsMarker
<1>1. OmInv => OrphanKeepsMarker
  BY DEF OmInv, MarkersStay, OrphanKeepsMarker, Orphan
<1> QED
  BY <1>1, OmInvariant, PTL
=============================================================================
