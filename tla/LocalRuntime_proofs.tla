------------------------ MODULE LocalRuntime_proofs ------------------------
\* The local model server: its process, the requests to it, its cache.
EXTENDS LocalInference, RuntimeClient, CacheCleanup, TLAPS

-----------------------------------------------------------------------------
\* The managed oMLX process, for any processes and any number of commands.

Waits(p) == watcher[p] \in {"off", "waiting"}

LiTypeOK ==
  /\ managed \in Omlx \cup {NoOmlx} /\ stopping \in Omlx \cup {NoOmlx}
  /\ lastExit \in [pid : Omlx \cup {NoOmlx}, expected : BOOLEAN]
  /\ omlx \in [Omlx -> {"new", "running", "gone"}]
  /\ watcher \in [Omlx -> {"off", "waiting", "expected", "unexpected", "recorded", "done"}]
  /\ liCall \in [LiCall -> [pc : {"idle", "starting", "spawned", "mark", "signal", "wait"},
                            pid : Omlx \cup {NoOmlx}]]
  /\ liCrossed \in BOOLEAN

\* Unless starts overlapped, one start at a time is between its look at the
\* slot and its spawn, and nothing runs while one is.
StartsAlone ==
  ~liCrossed =>
    /\ \A c, d \in LiCall : liCall[c].pc = "starting" /\ liCall[d].pc = "starting" => c = d
    /\ (\E c \in LiCall : liCall[c].pc = "starting") => \A p \in Omlx : ~Running(p)

\* A start that has spawned holds a process of its own, not watched yet.
SpawnedIsNew ==
  /\ \A p \in Omlx : omlx[p] = "new" => watcher[p] = "off"
  /\ \A c \in LiCall : liCall[c].pc = "spawned" =>
       liCall[c].pid \in Omlx /\ omlx[liCall[c].pid] # "new" /\ watcher[liCall[c].pid] = "off"
  /\ \A c, d \in LiCall : liCall[c].pc = "spawned" /\ liCall[d].pc = "spawned"
                          /\ liCall[c].pid = liCall[d].pid => c = d

\* A watcher gets past its wait only for a process that has ended.
WatchedIsGone ==
  /\ \A p \in Omlx : ~Waits(p) => omlx[p] = "gone"
  /\ lastExit.pid # NoOmlx => ~Waits(lastExit.pid)

\* A stop that marked a process has its mark where the watcher finds it, unless
\* another command removed it; the watcher and the evidence keep what it found.
MarksAreKept ==
  /\ signalled \subseteq liAsked
  /\ stopping # NoOmlx => stopping \in liAsked
  /\ \A c \in LiCall : liCall[c].pc = "signal" => liCall[c].pid \in liAsked
  /\ \A p \in Omlx : p \in liAsked /\ Waits(p) => stopping = p \/ p \in unmarked
  /\ \A p \in Omlx : watcher[p] = "expected" => p \in liAsked
  /\ \A p \in Omlx : watcher[p] = "unexpected" /\ p \in signalled => p \in unmarked

Evidence ==
  lastExit.pid # NoOmlx =>
    /\ lastExit.expected => lastExit.pid \in liAsked
    /\ ~lastExit.expected /\ lastExit.pid \in signalled => lastExit.pid \in unmarked

LiInv ==
  /\ LiTypeOK /\ StartsAlone /\ SpawnedIsNew /\ WatchedIsGone /\ RuntimeIsOwned
  /\ MarksAreKept /\ Evidence
-----------------------------------------------------------------------------
\* At the start nothing runs and nothing is recorded.
LEMMA LiInitInv == LiInit => LiInv
<1> SUFFICES ASSUME LiInit PROVE LiInv
  OBVIOUS
<1>1. LiTypeOK
  BY DEF LiInit, LiTypeOK, NoExit, IdleLi
<1>2. StartsAlone /\ RuntimeIsOwned
  BY DEF LiInit, StartsAlone, RuntimeIsOwned, Running, IdleLi
<1>3. SpawnedIsNew /\ WatchedIsGone
  BY DEF LiInit, SpawnedIsNew, WatchedIsGone, Waits, NoExit, IdleLi
<1>4. MarksAreKept /\ Evidence
  BY DEF LiInit, MarksAreKept, Evidence, NoExit, IdleLi
<1>5. QED
  BY <1>1, <1>2, <1>3, <1>4 DEF LiInv

\* A look at the slot drops only a process that has ended.
LEMMA LiStatusInv ==
  ASSUME LiInv, LiStatus
  PROVE  LiInv'
<1>1. LiTypeOK'
  BY NobodyIsOmlx DEF LiInv, LiStatus, Seen, LiTypeOK
<1>2. StartsAlone'
  BY NobodyIsOmlx DEF LiInv, LiStatus, Running, StartsAlone
<1>3. SpawnedIsNew'
  BY NobodyIsOmlx DEF LiInv, LiStatus, SpawnedIsNew
<1>4. WatchedIsGone'
  BY NobodyIsOmlx DEF LiInv, LiStatus, Waits, WatchedIsGone
<1>5. RuntimeIsOwned'
  BY NobodyIsOmlx DEF LiInv, LiStatus, Running, Seen, RuntimeIsOwned
<1>6. MarksAreKept'
  BY NobodyIsOmlx DEF LiInv, LiStatus, Waits, MarksAreKept
<1>7. Evidence'
  BY NobodyIsOmlx DEF LiInv, LiStatus, Evidence
<1>8. QED
  BY <1>1, <1>2, <1>3, <1>4, <1>5, <1>6, <1>7 DEF LiInv

\* A start looks at the slot: nothing runs when it finds none.
LEMMA LiStartBeginInv ==
  ASSUME LiInv, NEW c \in LiCall, LiStartBegin(c)
  PROVE  LiInv'
<1>1. LiTypeOK'
  BY NobodyIsOmlx DEF LiInv, LiStartBegin, liGoes, LiTypeOK
<1>2. StartsAlone'
  BY NobodyIsOmlx DEF LiInv, LiStartBegin, liGoes, Running, Seen, LiTypeOK, StartsAlone,
     RuntimeIsOwned
<1>3. SpawnedIsNew'
  BY NobodyIsOmlx DEF LiInv, LiStartBegin, liGoes, SpawnedIsNew
<1>4. WatchedIsGone'
  BY NobodyIsOmlx DEF LiInv, LiStartBegin, Waits, WatchedIsGone
<1>5. RuntimeIsOwned'
  BY NobodyIsOmlx DEF LiInv, LiStartBegin, Running, Seen, RuntimeIsOwned
<1>6. MarksAreKept'
  BY NobodyIsOmlx DEF LiInv, LiStartBegin, liGoes, Waits, MarksAreKept
<1>7. Evidence'
  BY NobodyIsOmlx DEF LiInv, LiStartBegin, Running, Seen, LiTypeOK, RuntimeIsOwned,
     MarksAreKept, Evidence
<1>8. QED
  BY <1>1, <1>2, <1>3, <1>4, <1>5, <1>6, <1>7 DEF LiInv

\* A start that is refused ends.
LEMMA LiStartRefusedInv ==
  ASSUME LiInv, NEW c \in LiCall, LiStartRefused(c)
  PROVE  LiInv'
<1>1. LiTypeOK'
  BY NobodyIsOmlx DEF LiInv, LiStartRefused, liGoes, LiTypeOK, StartsAlone
<1>2. StartsAlone'
  BY NobodyIsOmlx DEF LiInv, LiStartRefused, liGoes, Running, Waits, StartsAlone,
     WatchedIsGone
<1>3. SpawnedIsNew'
  BY NobodyIsOmlx DEF LiInv, LiStartRefused, liGoes, SpawnedIsNew
<1>4. WatchedIsGone'
  BY NobodyIsOmlx DEF LiInv, LiStartRefused, Waits, WatchedIsGone
<1>5. RuntimeIsOwned'
  BY NobodyIsOmlx DEF LiInv, LiStartRefused, Running, RuntimeIsOwned
<1>6. MarksAreKept'
  BY NobodyIsOmlx DEF LiInv, LiStartRefused, liGoes, Waits, MarksAreKept
<1>7. Evidence'
  BY NobodyIsOmlx DEF LiInv, LiStartRefused, Evidence
<1>8. QED
  BY <1>1, <1>2, <1>3, <1>4, <1>5, <1>6, <1>7 DEF LiInv

\* A start spawns: its process was new, and no other runs.
LEMMA LiSpawnInv ==
  ASSUME LiInv, NEW c \in LiCall, NEW p \in Omlx, LiSpawn(c, p)
  PROVE  LiInv'
<1>1. LiTypeOK'
  BY NobodyIsOmlx DEF LiInv, LiSpawn, liGoes, LiTypeOK
<1>2. StartsAlone'
  BY NobodyIsOmlx DEF LiInv, LiSpawn, liGoes, LiTypeOK, StartsAlone
<1>3. SpawnedIsNew'
  BY NobodyIsOmlx DEF LiInv, LiSpawn, liGoes, LiTypeOK, SpawnedIsNew
<1>4. WatchedIsGone'
  BY NobodyIsOmlx DEF LiInv, LiSpawn, Waits, WatchedIsGone
<1>5. RuntimeIsOwned'
  BY NobodyIsOmlx DEF LiInv, LiSpawn, Running, StartsAlone, RuntimeIsOwned
<1>6. MarksAreKept'
  BY NobodyIsOmlx DEF LiInv, LiSpawn, liGoes, Waits, MarksAreKept
<1>7. Evidence'
  BY NobodyIsOmlx DEF LiInv, LiSpawn, Evidence
<1>8. QED
  BY <1>1, <1>2, <1>3, <1>4, <1>5, <1>6, <1>7 DEF LiInv

\* The watcher is started; a mark that goes is remembered as removed.
LEMMA LiWatchInv ==
  ASSUME LiInv, NEW c \in LiCall, LiWatch(c)
  PROVE  LiInv'
<1>1. LiTypeOK'
  BY NobodyIsOmlx DEF LiInv, LiWatch, liGoes, LiTypeOK
<1>2. StartsAlone'
  BY NobodyIsOmlx DEF LiInv, LiWatch, liGoes, Running, StartsAlone
<1>3. SpawnedIsNew'
  BY NobodyIsOmlx DEF LiInv, LiWatch, liGoes, LiTypeOK, SpawnedIsNew
<1>4. WatchedIsGone'
  BY NobodyIsOmlx DEF LiInv, LiWatch, Waits, SpawnedIsNew, WatchedIsGone
<1>5. RuntimeIsOwned'
  BY NobodyIsOmlx DEF LiInv, LiWatch, Running, RuntimeIsOwned
<1>6. MarksAreKept'
  BY NobodyIsOmlx DEF LiInv, LiWatch, liGoes, Waits, SpawnedIsNew, MarksAreKept
<1>7. Evidence'
  BY NobodyIsOmlx DEF LiInv, LiWatch, Evidence
<1>8. QED
  BY <1>1, <1>2, <1>3, <1>4, <1>5, <1>6, <1>7 DEF LiInv

\* A stop reads the slot.
LEMMA LiStopBeginInv ==
  ASSUME LiInv, NEW c \in LiCall, LiStopBegin(c)
  PROVE  LiInv'
<1>1. LiTypeOK'
  BY NobodyIsOmlx DEF LiInv, LiStopBegin, liGoes, Seen, LiTypeOK
<1>2. StartsAlone'
  BY NobodyIsOmlx DEF LiInv, LiStopBegin, liGoes, Running, StartsAlone
<1>3. SpawnedIsNew'
  BY NobodyIsOmlx DEF LiInv, LiStopBegin, liGoes, SpawnedIsNew
<1>4. WatchedIsGone'
  BY NobodyIsOmlx DEF LiInv, LiStopBegin, Waits, WatchedIsGone
<1>5. RuntimeIsOwned'
  BY NobodyIsOmlx DEF LiInv, LiStopBegin, Running, Seen, RuntimeIsOwned
<1>6. MarksAreKept'
  BY NobodyIsOmlx DEF LiInv, LiStopBegin, liGoes, Waits, MarksAreKept
<1>7. Evidence'
  BY NobodyIsOmlx DEF LiInv, LiStopBegin, Evidence
<1>8. QED
  BY <1>1, <1>2, <1>3, <1>4, <1>5, <1>6, <1>7 DEF LiInv

\* A stop marks its process; the mark of another goes.
LEMMA LiStopMarksInv ==
  ASSUME LiInv, NEW c \in LiCall, LiStopMarks(c)
  PROVE  LiInv'
<1>1. LiTypeOK'
  BY NobodyIsOmlx DEF LiInv, LiStopMarks, liGoes, LiTypeOK
<1>2. StartsAlone'
  BY NobodyIsOmlx DEF LiInv, LiStopMarks, liGoes, Running, StartsAlone
<1>3. SpawnedIsNew'
  BY NobodyIsOmlx DEF LiInv, LiStopMarks, liGoes, SpawnedIsNew
<1>4. WatchedIsGone'
  BY NobodyIsOmlx DEF LiInv, LiStopMarks, Waits, WatchedIsGone
<1>5. RuntimeIsOwned'
  BY NobodyIsOmlx DEF LiInv, LiStopMarks, Running, RuntimeIsOwned
<1>6. MarksAreKept'
  BY NobodyIsOmlx DEF LiInv, LiStopMarks, liGoes, Running, Seen, Waits, LiTypeOK,
     RuntimeIsOwned, MarksAreKept, Evidence
<1>7. Evidence'
  BY NobodyIsOmlx DEF LiInv, LiStopMarks, Evidence
<1>8. QED
  BY <1>1, <1>2, <1>3, <1>4, <1>5, <1>6, <1>7 DEF LiInv

\* A stop signals a process that runs, whose watcher has not got through yet.
LEMMA LiStopSignalsInv ==
  ASSUME LiInv, NEW c \in LiCall, LiStopSignals(c)
  PROVE  LiInv'
<1>1. LiTypeOK'
  BY NobodyIsOmlx DEF LiInv, LiStopSignals, liGoes, LiTypeOK
<1>2. StartsAlone'
  BY NobodyIsOmlx DEF LiInv, LiStopSignals, liGoes, Running, LiTypeOK, StartsAlone
<1>3. SpawnedIsNew'
  BY NobodyIsOmlx DEF LiInv, LiStopSignals, liGoes, LiTypeOK, SpawnedIsNew
<1>4. WatchedIsGone'
  BY NobodyIsOmlx DEF LiInv, LiStopSignals, Waits, WatchedIsGone
<1>5. RuntimeIsOwned'
  BY NobodyIsOmlx DEF LiInv, LiStopSignals, Running, SpawnedIsNew, RuntimeIsOwned
<1>6. MarksAreKept'
  BY NobodyIsOmlx DEF LiInv, LiStopSignals, liGoes, Running, Waits, LiTypeOK, WatchedIsGone,
     MarksAreKept
<1>7. Evidence'
  BY NobodyIsOmlx DEF LiInv, LiStopSignals, Running, WatchedIsGone, Evidence
<1>8. QED
  BY <1>1, <1>2, <1>3, <1>4, <1>5, <1>6, <1>7 DEF LiInv

\* A stop ends.
LEMMA LiStopEndsInv ==
  ASSUME LiInv, NEW c \in LiCall, LiStopEnds(c)
  PROVE  LiInv'
<1>1. LiTypeOK'
  BY NobodyIsOmlx DEF LiInv, LiStopEnds, liGoes, LiTypeOK
<1>2. StartsAlone'
  BY NobodyIsOmlx DEF LiInv, LiStopEnds, liGoes, Running, StartsAlone
<1>3. SpawnedIsNew'
  BY NobodyIsOmlx DEF LiInv, LiStopEnds, liGoes, SpawnedIsNew
<1>4. WatchedIsGone'
  BY NobodyIsOmlx DEF LiInv, LiStopEnds, Waits, WatchedIsGone
<1>5. RuntimeIsOwned'
  BY NobodyIsOmlx DEF LiInv, LiStopEnds, Running, RuntimeIsOwned
<1>6. MarksAreKept'
  BY NobodyIsOmlx DEF LiInv, LiStopEnds, liGoes, Waits, MarksAreKept
<1>7. Evidence'
  BY NobodyIsOmlx DEF LiInv, LiStopEnds, WatchedIsGone, Evidence
<1>8. QED
  BY <1>1, <1>2, <1>3, <1>4, <1>5, <1>6, <1>7 DEF LiInv

\* A process ends.
LEMMA OmlxExitsInv ==
  ASSUME LiInv, NEW p \in Omlx, OmlxExits(p)
  PROVE  LiInv'
<1>1. LiTypeOK'
  BY NobodyIsOmlx DEF LiInv, OmlxExits, LiTypeOK
<1>2. StartsAlone'
  BY NobodyIsOmlx DEF LiInv, OmlxExits, StartsAlone
<1>3. SpawnedIsNew'
  BY NobodyIsOmlx DEF LiInv, OmlxExits, Running, Seen, LiTypeOK, SpawnedIsNew,
     RuntimeIsOwned, MarksAreKept, Evidence
<1>4. WatchedIsGone'
  BY NobodyIsOmlx DEF LiInv, OmlxExits, Running, Seen, Waits, LiTypeOK, WatchedIsGone,
     RuntimeIsOwned, MarksAreKept, Evidence
<1>5. RuntimeIsOwned'
  BY NobodyIsOmlx DEF LiInv, OmlxExits, Running, RuntimeIsOwned
<1>6. MarksAreKept'
  BY NobodyIsOmlx DEF LiInv, OmlxExits, Waits, MarksAreKept
<1>7. Evidence'
  BY NobodyIsOmlx DEF LiInv, OmlxExits, Evidence
<1>8. QED
  BY <1>1, <1>2, <1>3, <1>4, <1>5, <1>6, <1>7 DEF LiInv

\* The watcher looks for the mark.
LEMMA WatcherTakesInv ==
  ASSUME LiInv, NEW p \in Omlx, WatcherTakes(p)
  PROVE  LiInv'
<1>1. LiTypeOK'
  BY NobodyIsOmlx DEF LiInv, WatcherTakes, LiTypeOK
<1>2. StartsAlone'
  BY NobodyIsOmlx DEF LiInv, WatcherTakes, Running, StartsAlone
<1>3. SpawnedIsNew'
  BY NobodyIsOmlx DEF LiInv, WatcherTakes, SpawnedIsNew
<1>4. WatchedIsGone'
  BY NobodyIsOmlx DEF LiInv, WatcherTakes, Waits, WatchedIsGone
<1>5. RuntimeIsOwned'
  BY NobodyIsOmlx DEF LiInv, WatcherTakes, Running, SpawnedIsNew, RuntimeIsOwned
<1>6. MarksAreKept'
  BY NobodyIsOmlx DEF LiInv, WatcherTakes, Waits, LiTypeOK, SpawnedIsNew, MarksAreKept
<1>7. Evidence'
  BY NobodyIsOmlx DEF LiInv, WatcherTakes, Evidence
<1>8. QED
  BY <1>1, <1>2, <1>3, <1>4, <1>5, <1>6, <1>7 DEF LiInv

\* The watcher writes the evidence.
LEMMA WatcherRecordsInv ==
  ASSUME LiInv, NEW p \in Omlx, WatcherRecords(p)
  PROVE  LiInv'
<1>1. LiTypeOK'
  BY NobodyIsOmlx DEF LiInv, WatcherRecords, LiTypeOK, SpawnedIsNew
<1>2. StartsAlone'
  BY NobodyIsOmlx DEF LiInv, WatcherRecords, Running, StartsAlone
<1>3. SpawnedIsNew'
  BY NobodyIsOmlx DEF LiInv, WatcherRecords, SpawnedIsNew
<1>4. WatchedIsGone'
  BY NobodyIsOmlx DEF LiInv, WatcherRecords, Waits, WatchedIsGone
<1>5. RuntimeIsOwned'
  BY NobodyIsOmlx DEF LiInv, WatcherRecords, Running, StartsAlone, RuntimeIsOwned
<1>6. MarksAreKept'
  BY NobodyIsOmlx DEF LiInv, WatcherRecords, Waits, StartsAlone, MarksAreKept
<1>7. Evidence'
  BY NobodyIsOmlx DEF LiInv, WatcherRecords, Waits, MarksAreKept, Evidence
<1>8. QED
  BY <1>1, <1>2, <1>3, <1>4, <1>5, <1>6, <1>7 DEF LiInv

\* The watcher empties the slot of its own process, which has ended.
LEMMA WatcherClearsInv ==
  ASSUME LiInv, NEW p \in Omlx, WatcherClears(p)
  PROVE  LiInv'
<1>1. LiTypeOK'
  BY NobodyIsOmlx DEF LiInv, WatcherClears, liGoes, LiTypeOK, StartsAlone, WatchedIsGone
<1>2. StartsAlone'
  BY NobodyIsOmlx DEF LiInv, WatcherClears, Running, StartsAlone
<1>3. SpawnedIsNew'
  BY NobodyIsOmlx DEF LiInv, WatcherClears, liGoes, SpawnedIsNew, WatchedIsGone
<1>4. WatchedIsGone'
  BY NobodyIsOmlx DEF LiInv, WatcherClears, Waits, WatchedIsGone
<1>5. RuntimeIsOwned'
  BY NobodyIsOmlx DEF LiInv, WatcherClears, Running, Waits, WatchedIsGone, RuntimeIsOwned
<1>6. MarksAreKept'
  BY NobodyIsOmlx DEF LiInv, WatcherClears, Waits, MarksAreKept
<1>7. Evidence'
  BY NobodyIsOmlx DEF LiInv, WatcherClears, Evidence
<1>8. QED
  BY <1>1, <1>2, <1>3, <1>4, <1>5, <1>6, <1>7 DEF LiInv

\* Every step keeps the invariant: one case for each action.
LEMMA LiNextInv == LiInv /\ [LiNext]_liVars => LiInv'
<1> SUFFICES ASSUME LiInv, [LiNext]_liVars PROVE LiInv'
  OBVIOUS
<1>1. CASE LiStatus
  BY <1>1, LiStatusInv
<1>2. ASSUME NEW c \in LiCall, LiStartBegin(c) PROVE LiInv'
  BY <1>2, LiStartBeginInv
<1>3. ASSUME NEW c \in LiCall, LiStartRefused(c) PROVE LiInv'
  BY <1>3, LiStartRefusedInv
<1>4. ASSUME NEW c \in LiCall, NEW p \in Omlx, LiSpawn(c, p) PROVE LiInv'
  BY <1>4, LiSpawnInv
<1>5. ASSUME NEW c \in LiCall, LiWatch(c) PROVE LiInv'
  BY <1>5, LiWatchInv
<1>6. ASSUME NEW c \in LiCall, LiStopBegin(c) PROVE LiInv'
  BY <1>6, LiStopBeginInv
<1>7. ASSUME NEW c \in LiCall, LiStopMarks(c) PROVE LiInv'
  BY <1>7, LiStopMarksInv
<1>8. ASSUME NEW c \in LiCall, LiStopSignals(c) PROVE LiInv'
  BY <1>8, LiStopSignalsInv
<1>9. ASSUME NEW c \in LiCall, LiStopEnds(c) PROVE LiInv'
  BY <1>9, LiStopEndsInv
<1>10. ASSUME NEW p \in Omlx, OmlxExits(p) PROVE LiInv'
  BY <1>10, OmlxExitsInv
<1>11. ASSUME NEW p \in Omlx, WatcherTakes(p) PROVE LiInv'
  BY <1>11, WatcherTakesInv
<1>12. ASSUME NEW p \in Omlx, WatcherRecords(p) PROVE LiInv'
  BY <1>12, WatcherRecordsInv
<1>13. ASSUME NEW p \in Omlx, WatcherClears(p) PROVE LiInv'
  BY <1>13, WatcherClearsInv
<1>14. CASE UNCHANGED liVars
  BY <1>14 DEF liVars, LiInv, LiTypeOK, StartsAlone, SpawnedIsNew, WatchedIsGone,
     RuntimeIsOwned, MarksAreKept, Evidence, Waits, Running
<1>15. QED
  BY <1>1, <1>2, <1>3, <1>4, <1>5, <1>6, <1>7, <1>8, <1>9, <1>10, <1>11, <1>12,
   <1>13, <1>14 DEF LiNext, LiCallStep, WatcherStep

\* The invariant holds throughout, for any processes and commands.
THEOREM RuntimeInvariant == LiSpec => []LiInv
BY LiInitInv, LiNextInv, PTL DEF LiSpec

\* RuntimeIsOwned: as long as two starts never overlapped, a process that runs is
\* in the slot (commands/local_inference.rs, managed).
THEOREM RunningIsManaged == LiSpec => []RuntimeIsOwned
<1>1. LiInv => RuntimeIsOwned
  BY DEF LiInv
<1>2. QED
  BY <1>1, RuntimeInvariant, PTL

\* ExitEvidenceIsTrue: an exit recorded as expected was asked for, and a process
\* that was signalled is recorded as a crash only when another command took
\* its mark away (stopping_pid, last_exit).
THEOREM EvidenceIsTrue == LiSpec => []ExitEvidenceIsTrue
<1>1. LiInv => ExitEvidenceIsTrue
  BY DEF LiInv, Evidence, ExitEvidenceIsTrue
<1>2. QED
  BY <1>1, RuntimeInvariant, PTL

-----------------------------------------------------------------------------
\* Requests to the model server, for any models, sizes, limits and calls.

Judged == {"allow", "warn", "deny"}

\* A limit or a size: what was measured, 0 included, or that it could not be.
Measure == Nat \cup {Unknown}

EvidenceLike(e) ==
  /\ e = [pressure |-> e.pressure, thermal |-> e.thermal, training |-> e.training,
          limit |-> e.limit, size |-> e.size]
  /\ e.pressure \in Pressures /\ e.training \in BOOLEAN
  /\ e.limit \in Measure /\ e.size \in Measure

\* What a request can be: it is judged once, after the evidence was gathered.
RequestLike(r) ==
  /\ r = [pc |-> r.pc, op |-> r.op, at |-> r.at, model |-> r.model, key |-> r.key,
          ev |-> r.ev, decision |-> r.decision, cookie |-> r.cookie, result |-> r.result]
  /\ r.pc \in {"idle", "probe", "measure", "slot", "check", "send", "done"}
  /\ EvidenceLike(r.ev)
  /\ r.pc \in {"idle", "probe", "measure", "slot"} => r.decision = "none"
  /\ r.decision # "none" => r.decision = Decision(r.ev)
  /\ r.pc \in {"check", "send"} /\ r.op = "load" => r.decision \in {"allow", "warn"}
  /\ r.pc # "done" => r.result = "none"

RequestsAreSound ==
  /\ req = [c \in RcCall |-> req[c]] /\ \A c \in RcCall : RequestLike(req[c])
  /\ keySent \subseteq {"loopback"} /\ acted \subseteq RcCall

\* What the server carried out was sent, and judged when it was a load.
ActsAreKnown ==
  \A c \in RcCall :
    /\ c \in acted => /\ req[c].pc = "done" /\ req[c].result \notin {"denied", "refused"}
                      /\ req[c].op = "load" => req[c].decision \in {"allow", "warn"}
    /\ req[c].result = "ok" => c \in acted

RcInv == RequestsAreSound /\ ActsAreKnown

-----------------------------------------------------------------------------
LEMMA SafeBytesFacts ==
  ASSUME NEW l \in Nat, NEW m \in Nat, l <= m
  PROVE  SafeBytes(l) \in Nat /\ SafeBytes(m) \in Nat /\ SafeBytes(l) <= SafeBytes(m)
<1> DEFINE a == l * MiB
           b == m * MiB
<1>1. a \in Nat /\ b \in Nat /\ a <= b
  BY RuntimeRulesAssumption
<1> HIDE DEF a, b
<1>2. Sat(a) \in Nat /\ Sat(b) \in Nat /\ Sat(a) <= Sat(b)
  BY <1>1, RuntimeRulesAssumption DEF Sat
<1> DEFINE c == Sat(a) * 9
           d == Sat(b) * 9
<1>3. c \in Nat /\ d \in Nat /\ c <= d
  BY <1>2
<1> HIDE DEF c, d
<1>4. Sat(c) \in Nat /\ Sat(d) \in Nat /\ Sat(c) <= Sat(d)
  BY <1>3, RuntimeRulesAssumption DEF Sat
<1>5. \A x, y \in Nat : x <= y => x \div 10 \in Nat /\ y \div 10 \in Nat /\ x \div 10 <= y \div 10
  OBVIOUS
<1>6. QED
  BY <1>4, <1>5 DEF SafeBytes, a, b, c, d

\* What each check finds, as a rank; no check lowers the rank of the one before.
SizeRank(e) ==
  IF e.limit # Unknown /\ e.size # Unknown /\ e.size > SafeBytes(e.limit) THEN 2 ELSE 0
TrainingRank(e) == IF e.training THEN 1 ELSE 0

LEMMA DecisionIsWorstCheck ==
  ASSUME NEW e, EvidenceLike(e)
  PROVE  /\ Decision(e) \in Judged
         /\ DecisionRank(Decision(e)) \in {0, 1, 2}
         /\ DecisionRank(Decision(e)) >= PressureRank(e.pressure)
         /\ DecisionRank(Decision(e)) >= ThermalRank(e.thermal)
         /\ DecisionRank(Decision(e)) >= TrainingRank(e)
         /\ DecisionRank(Decision(e)) >= SizeRank(e)
         /\ DecisionRank(Decision(e)) \in
              {PressureRank(e.pressure), ThermalRank(e.thermal), TrainingRank(e), SizeRank(e)}
<1>1. /\ DecisionRank("allow") = 0 /\ DecisionRank("warn") = 1 /\ DecisionRank("deny") = 2
  BY DEF DecisionRank
<1>2. /\ AfterPressure(e) \in Judged /\ DecisionRank(AfterPressure(e)) = PressureRank(e.pressure)
      /\ PressureRank(e.pressure) \in {0, 1, 2}
  BY <1>1 DEF AfterPressure, PressureRank, EvidenceLike, Pressures, Judged
<1>3. ThermalRank(e.thermal) \in {0, 1, 2}
  BY DEF ThermalRank
<1>4. /\ AfterThermal(e) \in Judged
      /\ DecisionRank(AfterThermal(e)) >= PressureRank(e.pressure)
      /\ DecisionRank(AfterThermal(e)) >= ThermalRank(e.thermal)
      /\ DecisionRank(AfterThermal(e)) \in {PressureRank(e.pressure), ThermalRank(e.thermal)}
  BY <1>1, <1>2 DEF AfterThermal, ThermalRank, Judged
<1>5. /\ AfterTraining(e) \in Judged
      /\ DecisionRank(AfterTraining(e)) >= DecisionRank(AfterThermal(e))
      /\ DecisionRank(AfterTraining(e)) >= TrainingRank(e)
      /\ DecisionRank(AfterTraining(e)) \in {DecisionRank(AfterThermal(e)), TrainingRank(e)}
  BY <1>1, <1>4 DEF AfterTraining, TrainingRank, Judged
<1>6. /\ Decision(e) \in Judged
      /\ DecisionRank(Decision(e)) >= DecisionRank(AfterTraining(e))
      /\ DecisionRank(Decision(e)) >= SizeRank(e)
      /\ DecisionRank(Decision(e)) \in {DecisionRank(AfterTraining(e)), TrainingRank(e), SizeRank(e)}
  BY <1>1, <1>5 DEF Decision, SizeRank, TrainingRank, Judged
<1>7. DecisionRank(Decision(e)) \in {0, 1, 2}
  BY <1>1, <1>6 DEF Judged
<1>8. /\ DecisionRank(AfterThermal(e)) \in {0, 1, 2} /\ DecisionRank(AfterTraining(e)) \in {0, 1, 2}
      /\ TrainingRank(e) \in {0, 1} /\ SizeRank(e) \in {0, 2}
  BY <1>1, <1>4, <1>5 DEF Judged, TrainingRank, SizeRank
<1>9. QED
  BY <1>2, <1>3, <1>4, <1>5, <1>6, <1>7, <1>8

\* Worse evidence is never let in more easily: for every evidence, every size and every
\* limit, a measured limit of 0 and one that could not be measured among them.
THEOREM PreflightNeverRelents ==
  ASSUME NEW e, NEW f, EvidenceLike(e), EvidenceLike(f), Worse(e, f)
  PROVE  DecisionRank(Decision(e)) <= DecisionRank(Decision(f))
<1>1. SizeRank(e) <= SizeRank(f) /\ SizeRank(e) \in {0, 2} /\ SizeRank(f) \in {0, 2}
  <2>1. SizeRank(e) \in {0, 2} /\ SizeRank(f) \in {0, 2}
    BY DEF SizeRank
  <2>2. ASSUME SizeRank(e) = 2 PROVE SizeRank(f) = 2
    <3>1. e.limit # Unknown /\ e.size # Unknown /\ e.size > SafeBytes(e.limit)
      BY <2>2 DEF SizeRank
    <3>0. Unknown = -1
      BY DEF Unknown
    <3>2. /\ e.size \in Nat /\ f.size \in Nat /\ e.limit \in Nat /\ f.limit \in Nat /\ e.size <= f.size
          /\ f.limit # Unknown /\ f.limit <= e.limit
      BY <3>0, <3>1 DEF EvidenceLike, Measure, Worse
    <3>3. SafeBytes(f.limit) \in Nat /\ SafeBytes(e.limit) \in Nat /\ SafeBytes(f.limit) <= SafeBytes(e.limit)
      BY <3>2, SafeBytesFacts
    <3>4. f.size # Unknown /\ f.size > SafeBytes(f.limit)
      BY <3>0, <3>1, <3>2, <3>3
    <3>5. QED
      BY <3>2, <3>4 DEF SizeRank
  <2>3. QED
    BY <2>1, <2>2
<1>2. TrainingRank(e) <= TrainingRank(f) /\ TrainingRank(e) \in {0, 1} /\ TrainingRank(f) \in {0, 1}
  BY DEF TrainingRank, Worse
<1>3. /\ PressureRank(e.pressure) <= PressureRank(f.pressure)
      /\ ThermalRank(e.thermal) <= ThermalRank(f.thermal)
      /\ PressureRank(f.pressure) \in {0, 1, 2} /\ ThermalRank(f.thermal) \in {0, 1, 2}
      /\ PressureRank(e.pressure) \in {0, 1, 2} /\ ThermalRank(e.thermal) \in {0, 1, 2}
  BY DEF Worse, PressureRank, ThermalRank
<1>4. QED
  BY <1>1, <1>2, <1>3, DecisionIsWorstCheck

-----------------------------------------------------------------------------
LEMMA IdleIsRequest == RequestLike(IdleReq) /\ IdleReq.ev = NoEvidence
<1>1. EvidenceLike(NoEvidence)
  BY DEF NoEvidence, EvidenceLike, Pressures, Measure
<1>2. QED
  BY <1>1 DEF IdleReq, RequestLike

\* A request's step: what it becomes, and whether the server carried it out.
LEMMA RequestStep ==
  ASSUME RcInv, NEW c \in RcCall, NEW r, RcGoes(c, r), RequestLike(r), req[c].pc # "done",
         keySent' \subseteq {"loopback"},
         \/ acted' = acted /\ r.result # "ok"
         \/ /\ acted' = acted \cup {c} /\ r.pc = "done" /\ r.result \in {"ok", "error"}
            /\ r.op = "load" => r.decision \in {"allow", "warn"}
  PROVE  RcInv'
<1>1. /\ req' = [d \in RcCall |-> req'[d]] /\ req'[c] = r
      /\ \A d \in RcCall : d # c => req'[d] = req[d]
  BY DEF RcGoes, RcInv, RequestsAreSound
<1>2. c \notin acted
  BY DEF RcInv, ActsAreKnown
<1>3. RequestsAreSound'
  BY <1>1 DEF RcInv, RequestsAreSound
<1>4. ActsAreKnown'
  BY <1>1, <1>2 DEF RcInv, ActsAreKnown
<1>5. QED
  BY <1>3, <1>4 DEF RcInv

LEMMA RcInitInv == RcInit => RcInv
<1> SUFFICES ASSUME RcInit PROVE RcInv
  OBVIOUS
<1>1. req = [c \in RcCall |-> IdleReq] /\ acted = {} /\ keySent = {}
  BY DEF RcInit
<1>2. RequestLike(IdleReq) /\ IdleReq.result = "none"
  BY IdleIsRequest DEF IdleReq
<1>3. QED
  BY <1>1, <1>2 DEF RcInv, RequestsAreSound, ActsAreKnown

LEMMA ServerTogglesInv == RcInv /\ ServerToggles => RcInv'
BY DEF ServerToggles, RcInv, RequestsAreSound, ActsAreKnown

LEMMA AskInv ==
  ASSUME RcInv, NEW c \in RcCall, NEW op, NEW at, NEW model, NEW key, Ask(c, op, at, model, key)
  PROVE  RcInv'
<1> DEFINE pc == IF op = "load" THEN "probe" ELSE "check"
<1>1. PICK k : k = IdleReq
  OBVIOUS
<1>2. RequestLike(k) /\ k.pc = "idle" /\ k.decision = "none" /\ k.result = "none"
  BY <1>1, IdleIsRequest DEF IdleReq
<1>3. PICK r : r = [k EXCEPT !.pc = pc, !.op = op, !.at = at, !.model = model, !.key = key]
  OBVIOUS
<1>4. req[c].pc = "idle" /\ RcGoes(c, r) /\ UNCHANGED <<acted, keySent>>
  BY <1>1, <1>3 DEF Ask
<1>5. pc \in {"probe", "check"} /\ (pc = "check" => op # "load")
  OBVIOUS
<1> HIDE DEF pc
<1>6. r = [pc |-> pc, op |-> op, at |-> at, model |-> model, key |-> key,
           ev |-> k.ev, decision |-> k.decision, cookie |-> k.cookie, result |-> k.result]
  BY <1>2, <1>3 DEF RequestLike
<1>7. RequestLike(r) /\ r.result = "none"
  BY <1>2, <1>5, <1>6 DEF RequestLike
<1>8. QED
  BY <1>4, <1>7, RequestStep DEF RcInv, RequestsAreSound

LEMMA ProbeInv ==
  ASSUME RcInv, NEW c \in RcCall, Probe(c)
  PROVE  RcInv'
<1>1. PICK k : k = req[c]
  OBVIOUS
<1>2. RequestLike(k) /\ k.pc = "probe" /\ EvidenceLike(k.ev)
  BY <1>1 DEF Probe, RcInv, RequestsAreSound, RequestLike
<1>3. PICK listed \in BOOLEAN, estimate \in {Unknown} \cup {ModelSize[m] : m \in RcModel} :
        /\ listed => AdminListed(c)
        /\ RcGoes(c, [req[c] EXCEPT !.pc = "measure",
             !.ev.size = IF listed /\ ValidId(req[c].model) THEN ModelSize[req[c].model] ELSE estimate])
  BY Zenon DEF Probe
<1> DEFINE size == IF listed /\ ValidId(req[c].model) THEN ModelSize[req[c].model] ELSE estimate
<1>4. size \in Measure
  BY RuntimeClientAssumption DEF ValidId, Measure
<1> HIDE DEF size
<1>5. PICK v : v = k.ev
  OBVIOUS
<1>6. PICK ev : ev = [v EXCEPT !.size = size]
  OBVIOUS
<1>7. EvidenceLike(ev)
  <2>1. ev = [pressure |-> v.pressure, thermal |-> v.thermal, training |-> v.training,
              limit |-> v.limit, size |-> size]
    BY <1>2, <1>5, <1>6 DEF EvidenceLike
  <2>2. QED
    BY <1>2, <1>4, <1>5, <2>1 DEF EvidenceLike
<1>8. PICK r : r = [req[c] EXCEPT !.pc = "measure", !.ev.size = size]
  OBVIOUS
<1>9. RcGoes(c, r)
  BY <1>3, <1>8 DEF size
<1>10. RequestLike(r) /\ r.result = "none"
  <2>1. r = [k EXCEPT !.pc = "measure", !.ev = ev]
    <3>1. r = [req[c] EXCEPT !.pc = "measure", !.ev = [req[c].ev EXCEPT !.size = size]]
      BY <1>1, <1>2, <1>8 DEF RequestLike
    <3>2. QED
      BY <1>1, <1>5, <1>6, <3>1
  <2>2. r = [pc |-> "measure", op |-> k.op, at |-> k.at, model |-> k.model, key |-> k.key,
             ev |-> ev, decision |-> k.decision, cookie |-> k.cookie, result |-> k.result]
    BY <1>2, <2>1 DEF RequestLike
  <2>3. QED
    BY <1>2, <1>7, <2>2 DEF RequestLike
<1>11. keySent' \subseteq {"loopback"} /\ acted' = acted
  BY DEF Probe, Loopback, RcInv, RequestsAreSound
<1>12. QED
  BY <1>1, <1>2, <1>9, <1>10, <1>11, RequestStep

LEMMA MeasureHostInv ==
  ASSUME RcInv, NEW c \in RcCall, MeasureHost(c)
  PROVE  RcInv'
<1>1. PICK k : k = req[c]
  OBVIOUS
<1>2. RequestLike(k) /\ k.pc = "measure" /\ EvidenceLike(k.ev)
  BY <1>1 DEF MeasureHost, RcInv, RequestsAreSound, RequestLike
<1>3. PICK p \in Pressures, t \in Thermals :
        RcGoes(c, [req[c] EXCEPT !.pc = "slot", !.ev.pressure = p, !.ev.thermal = t])
  BY Zenon DEF MeasureHost
<1>4. PICK v : v = k.ev
  OBVIOUS
<1>5. PICK ev : ev = [v EXCEPT !.pressure = p, !.thermal = t]
  OBVIOUS
<1>6. EvidenceLike(ev)
  <2>1. ev = [pressure |-> p, thermal |-> t, training |-> v.training,
              limit |-> v.limit, size |-> v.size]
    BY <1>2, <1>4, <1>5 DEF EvidenceLike
  <2>2. QED
    BY <1>2, <1>4, <2>1 DEF EvidenceLike
<1>7. PICK r : r = [req[c] EXCEPT !.pc = "slot", !.ev.pressure = p, !.ev.thermal = t]
  OBVIOUS
<1>8. RcGoes(c, r)
  BY <1>3, <1>7
<1>9. RequestLike(r) /\ r.result = "none"
  <2>1. r = [k EXCEPT !.pc = "slot", !.ev = ev]
    <3>1. r = [req[c] EXCEPT !.pc = "slot", !.ev = [req[c].ev EXCEPT !.pressure = p, !.thermal = t]]
      BY <1>1, <1>2, <1>7 DEF RequestLike
    <3>2. QED
      BY <1>1, <1>4, <1>5, <3>1
  <2>2. r = [pc |-> "slot", op |-> k.op, at |-> k.at, model |-> k.model, key |-> k.key,
             ev |-> ev, decision |-> k.decision, cookie |-> k.cookie, result |-> k.result]
    BY <1>2, <2>1 DEF RequestLike
  <2>3. QED
    BY <1>2, <1>6, <2>2 DEF RequestLike
<1>10. UNCHANGED <<acted, keySent>>
  BY DEF MeasureHost
<1>11. QED
  BY <1>1, <1>2, <1>8, <1>9, <1>10, RequestStep DEF RcInv, RequestsAreSound

LEMMA PreflightInv ==
  ASSUME RcInv, NEW c \in RcCall, Preflight(c)
  PROVE  RcInv'
<1>1. PICK k : k = req[c]
  OBVIOUS
<1>2. RequestLike(k) /\ k.pc = "slot" /\ EvidenceLike(k.ev)
  BY <1>1 DEF Preflight, RcInv, RequestsAreSound, RequestLike
<1>3. PICK v : v = k.ev
  OBVIOUS
<1>4. PICK limit \in {Unknown} \cup RcLimit, training \in BOOLEAN :
        LET e == [req[c].ev EXCEPT !.training = training, !.limit = limit] IN
        RcGoes(c, [req[c] EXCEPT !.ev = e, !.decision = Decision(e),
                   !.pc = IF Decision(e) = "deny" THEN "done" ELSE "check",
                   !.result = IF Decision(e) = "deny" THEN "denied" ELSE "none"])
  BY Zenon DEF Preflight
<1>5. PICK e : e = [req[c].ev EXCEPT !.training = training, !.limit = limit]
  OBVIOUS
<1>6. EvidenceLike(e)
  <2>1. e = [pressure |-> v.pressure, thermal |-> v.thermal, training |-> training,
             limit |-> limit, size |-> v.size]
    <3>1. e = [v EXCEPT !.training = training, !.limit = limit]
      BY <1>1, <1>3, <1>5
    <3>2. QED
      BY <1>2, <1>3, <3>1 DEF EvidenceLike
  <2>2. limit \in Measure
    BY RuntimeClientAssumption DEF Measure
  <2>3. QED
    BY <1>2, <1>3, <2>1, <2>2 DEF EvidenceLike
<1> DEFINE d == Decision(e)
           pc == IF d = "deny" THEN "done" ELSE "check"
           result == IF d = "deny" THEN "denied" ELSE "none"
<1>7. d \in Judged
  BY <1>6, DecisionIsWorstCheck
<1>8. /\ pc \in {"done", "check"} /\ (pc = "check" => d \in {"allow", "warn"})
      /\ result # "ok" /\ (pc # "done" => result = "none")
  BY <1>7 DEF Judged
<1>9. PICK r : r = [req[c] EXCEPT !.ev = e, !.decision = d, !.pc = pc, !.result = result]
  OBVIOUS
<1>10. RcGoes(c, r)
  BY <1>4, <1>5, <1>9
<1>11. d = Decision(e)
  OBVIOUS
<1> HIDE DEF d, pc, result
<1>12. r = [pc |-> pc, op |-> k.op, at |-> k.at, model |-> k.model, key |-> k.key,
            ev |-> e, decision |-> d, cookie |-> k.cookie, result |-> result]
  <2>1. r = [k EXCEPT !.ev = e, !.decision = d, !.pc = pc, !.result = result]
    BY <1>1, <1>9
  <2>2. QED
    BY <1>2, <2>1 DEF RequestLike
<1>13. RequestLike(r) /\ r.result # "ok"
  BY <1>6, <1>8, <1>11, <1>12 DEF RequestLike
<1>14. UNCHANGED <<acted, keySent>>
  BY DEF Preflight
<1>15. QED
  BY <1>1, <1>2, <1>10, <1>13, <1>14, RequestStep DEF RcInv, RequestsAreSound

LEMMA RefuseInv ==
  ASSUME RcInv, NEW c \in RcCall, Refuse(c)
  PROVE  RcInv'
<1>1. PICK k : k = req[c]
  OBVIOUS
<1>2. RequestLike(k) /\ k.pc = "check"
  BY <1>1 DEF Refuse, RcInv, RequestsAreSound
<1>3. PICK r : r = [req[c] EXCEPT !.pc = "done", !.result = "refused"]
  OBVIOUS
<1>4. RcGoes(c, r) /\ UNCHANGED <<acted, keySent>>
  BY <1>3 DEF Refuse, RcEnds
<1>5. r = [pc |-> "done", op |-> k.op, at |-> k.at, model |-> k.model, key |-> k.key,
           ev |-> k.ev, decision |-> k.decision, cookie |-> k.cookie, result |-> "refused"]
  <2>1. r = [k EXCEPT !.pc = "done", !.result = "refused"]
    BY <1>1, <1>3
  <2>2. QED
    BY <1>2, <2>1 DEF RequestLike
<1>6. RequestLike(r) /\ r.result # "ok"
  BY <1>2, <1>5 DEF RequestLike
<1>7. QED
  BY <1>1, <1>2, <1>4, <1>6, RequestStep DEF RcInv, RequestsAreSound

LEMMA LoginInv ==
  ASSUME RcInv, NEW c \in RcCall, Login(c)
  PROVE  RcInv'
<1>1. PICK k : k = req[c]
  OBVIOUS
<1>2. RequestLike(k) /\ k.pc = "check"
  BY <1>1 DEF Login, RcInv, RequestsAreSound
<1>3. keySent' \subseteq {"loopback"} /\ acted' = acted
  BY DEF Login, Loopback, RcInv, RequestsAreSound
<1>4. PICK r : r = [req[c] EXCEPT !.pc = "done", !.result = "error"]
  OBVIOUS
<1>5. PICK s : s = [req[c] EXCEPT !.pc = "send", !.cookie = server.epoch]
  OBVIOUS
<1>6. RcGoes(c, r) \/ RcGoes(c, s)
  BY <1>4, <1>5 DEF Login, RcEnds
<1>7. RequestLike(r) /\ r.result # "ok"
  <2>1. r = [k EXCEPT !.pc = "done", !.result = "error"]
    BY <1>1, <1>4
  <2>2. r = [pc |-> "done", op |-> k.op, at |-> k.at, model |-> k.model, key |-> k.key,
             ev |-> k.ev, decision |-> k.decision, cookie |-> k.cookie, result |-> "error"]
    BY <1>2, <2>1 DEF RequestLike
  <2>3. QED
    BY <1>2, <2>2 DEF RequestLike
<1>8. RequestLike(s) /\ s.result # "ok"
  <2>1. s = [k EXCEPT !.pc = "send", !.cookie = server.epoch]
    BY <1>1, <1>5
  <2>2. s = [pc |-> "send", op |-> k.op, at |-> k.at, model |-> k.model, key |-> k.key,
             ev |-> k.ev, decision |-> k.decision, cookie |-> server.epoch, result |-> k.result]
    BY <1>2, <2>1 DEF RequestLike
  <2>3. QED
    BY <1>2, <2>2 DEF RequestLike
<1>9. QED
  BY <1>1, <1>2, <1>3, <1>6, <1>7, <1>8, RequestStep

LEMMA SendInv ==
  ASSUME RcInv, NEW c \in RcCall, Send(c)
  PROVE  RcInv'
<1>1. PICK k : k = req[c]
  OBVIOUS
<1>2. RequestLike(k) /\ k.pc = "send" /\ (k.op = "load" => k.decision \in {"allow", "warn"})
  BY <1>1 DEF Send, RcInv, RequestsAreSound, RequestLike
<1>3. PICK result \in {"error", "not-ok", "ok"} :
        /\ RcGoes(c, [req[c] EXCEPT !.pc = "done", !.result = result])
        /\ \/ acted' = acted /\ result # "ok"
           \/ acted' = acted \cup {c} /\ result \in {"ok", "error"}
  BY DEF Send, RcEnds
<1>4. PICK r : r = [req[c] EXCEPT !.pc = "done", !.result = result]
  OBVIOUS
<1>5. RcGoes(c, r) /\ r = [k EXCEPT !.pc = "done", !.result = result]
  BY <1>1, <1>3, <1>4
<1>6. RequestLike(r) /\ r.pc = "done" /\ r.result = result /\ r.op = k.op /\ r.decision = k.decision
  <2>1. r = [pc |-> "done", op |-> k.op, at |-> k.at, model |-> k.model, key |-> k.key,
             ev |-> k.ev, decision |-> k.decision, cookie |-> k.cookie, result |-> result]
    BY <1>2, <1>5 DEF RequestLike
  <2>2. QED
    BY <1>2, <2>1 DEF RequestLike
<1>7. keySent' \subseteq {"loopback"}
  BY DEF Send, RcInv, RequestsAreSound
<1>8. QED
  BY <1>1, <1>2, <1>3, <1>5, <1>6, <1>7, RequestStep

LEMMA RcNextInv == RcInv /\ [RcNext]_rcVars => RcInv'
<1> SUFFICES ASSUME RcInv, [RcNext]_rcVars PROVE RcInv'
  OBVIOUS
<1>1. CASE UNCHANGED rcVars
  BY <1>1 DEF rcVars, RcInv, RequestsAreSound, ActsAreKnown
<1>2. CASE RcNext
  BY <1>2, ServerTogglesInv, AskInv, ProbeInv, MeasureHostInv, PreflightInv, RefuseInv,
     LoginInv, SendInv
  DEF RcNext, RcStep
<1>3. QED
  BY <1>1, <1>2

\* The requests, in every state.
THEOREM RcInvariant == RcSpec => []RcInv
<1>1. RcInit => RcInv
  BY RcInitInv
<1>2. RcInv /\ [RcNext]_rcVars => RcInv'
  BY RcNextInv
<1>3. QED
  BY <1>1, <1>2, PTL DEF RcSpec

\* What a request reports is true, and every load was judged on its evidence: no
\* worse evidence would have let it in more easily.
THEOREM LoadsAreAlwaysJudged == RcSpec => []LoadsAreJudged
<1>1. ASSUME RcInv PROVE LoadsAreJudged
  <2>1. ReportsAreTrue
    BY <1>1 DEF RcInv, RequestsAreSound, RequestLike, ActsAreKnown, ReportsAreTrue
  <2>2. PreflightIsMonotone
    <3> SUFFICES ASSUME NEW c \in RcCall, req[c].decision # "none",
                        NEW p \in Pressures, NEW t \in Thermals, NEW b \in BOOLEAN,
                        NEW s \in {Unknown} \cup {ModelSize[m] : m \in RcModel},
                        Worse(req[c].ev, Varied(req[c].ev, p, t, b, s))
                 PROVE  DecisionRank(req[c].decision) <=
                          DecisionRank(Decision(Varied(req[c].ev, p, t, b, s)))
      BY DEF PreflightIsMonotone
    <3>1. PICK e : e = req[c].ev
      OBVIOUS
    <3>2. EvidenceLike(e) /\ req[c].decision = Decision(e)
      BY <1>1, <3>1 DEF RcInv, RequestsAreSound, RequestLike
    <3>3. PICK f : f = Varied(req[c].ev, p, t, b, s)
      OBVIOUS
    <3>4. f = [pressure |-> p, thermal |-> t, training |-> b, limit |-> e.limit, size |-> s]
      <4>1. f = [e EXCEPT !.pressure = p, !.thermal = t, !.training = b, !.size = s]
        BY <3>1, <3>3 DEF Varied
      <4>2. QED
        BY <3>2, <4>1 DEF EvidenceLike
    <3>5. s \in Measure
      BY RuntimeClientAssumption DEF Measure
    <3>6. EvidenceLike(f)
      BY <3>2, <3>4, <3>5 DEF EvidenceLike
    <3>7. Worse(e, f)
      BY <3>1, <3>3
    <3>8. DecisionRank(Decision(e)) <= DecisionRank(Decision(f))
      BY <3>2, <3>6, <3>7, PreflightNeverRelents
    <3>9. QED
      BY <3>2, <3>3, <3>8
  <2>3. QED
    BY <2>1, <2>2 DEF LoadsAreJudged
<1>2. QED
  BY <1>1, RcInvariant, PTL

-----------------------------------------------------------------------------
\* The removal of expired cache files, for any tree.

CacheDirs == {n \in Node : NodeKind[n] = "dir"}
OpenDir == [dir : CacheDirs, todo : SUBSET (Node \ {Root})]
Walks == [on : BOOLEAN, dry : BOOLEAN, open : Seq(OpenDir), candidates : Nat,
          removed : Nat, removedDirs : Nat, errors : Nat]

CcTypeOK ==
  /\ present \subseteq Node /\ fresh \subseteq CacheFiles
  /\ runtimeUp \in BOOLEAN /\ shownUp \in BOOLEAN /\ preview \in Nat /\ touched \in BOOLEAN
  /\ walk \in Walks /\ looked \in [on : BOOLEAN, node : Node]

\* A walk that goes on has a directory open.
WalkIsOpen == walk.on => walk.open # <<>>

\* The root stays, and every entry is in a directory that is there.
TreeIsWhole == Root \in present /\ \A n \in present \ {Root} : Above[n] \in present

\* A file whose metadata a removal holds was expired when it was looked at.
LookIsHonest ==
  looked.on => /\ walk.on /\ ~walk.dry /\ looked.node \in CacheFiles
               /\ looked.node \in fresh => touched

CcInv == CcTypeOK /\ WalkIsOpen /\ TreeIsWhole /\ LookIsHonest

-----------------------------------------------------------------------------
\* Files are not directories, and only directories have entries.
LEMMA TreeFacts ==
  /\ Root \in CacheDirs /\ Root \notin CacheFiles /\ CacheDirs \cap CacheFiles = {}
  /\ \A n \in CacheFiles : Children(n) = {}
  /\ \A n \in Node : Children(n) \subseteq Node \ {Root} /\ Here(n) \subseteq Node \ {Root}
BY CacheCleanupAssumption DEF CacheDirs, CacheFiles, Children, Here

\* The directory at the end of the walk is open, and the ones before it stay
\* open when it is done.
LEMMA OpenFacts ==
  ASSUME CcTypeOK, WalkIsOpen, walk.on
  PROVE  /\ Top \in OpenDir /\ Below \in Seq(OpenDir)
         /\ \A n : Taken(n) \in Seq(OpenDir) /\ Taken(n) # <<>>
<1>1. walk.open \in Seq(OpenDir) /\ walk.open # <<>>
  BY DEF CcTypeOK, Walks, WalkIsOpen
<1>2. Top \in OpenDir /\ Below \in Seq(OpenDir)
  BY <1>1 DEF Top, Below
<1>3. ASSUME NEW n PROVE [Top EXCEPT !.todo = @ \ {n}] \in OpenDir
  BY <1>2 DEF OpenDir
<1>4. ASSUME NEW n PROVE Taken(n) \in Seq(OpenDir) /\ Taken(n) # <<>>
  <2>1. PICK e : e = [Top EXCEPT !.todo = @ \ {n}]
    OBVIOUS
  <2>2. e \in OpenDir
    BY <1>3, <2>1
  <2>3. Taken(n) = Append(Below, e)
    BY <2>1, Zenon DEF Taken
  <2> QED
    BY <1>2, <2>2, <2>3
<1> QED
  BY <1>2, <1>4

\* What a cleanup starts with.
LEMMA CcInitInv == CcInit => CcInv
<1> SUFFICES ASSUME CcInit PROVE CcInv
  OBVIOUS
<1>1. Root \in Node /\ NoWalk \in Walks
  BY CacheCleanupAssumption DEF NoWalk, Walks
<1>2. CcTypeOK
  BY <1>1 DEF CcInit, CcTypeOK, NotLooking
<1>3. WalkIsOpen /\ LookIsHonest
  BY DEF CcInit, WalkIsOpen, LookIsHonest, NoWalk, NotLooking
<1>4. TreeIsWhole
  BY DEF CcInit, TreeIsWhole
<1> QED
  BY <1>2, <1>3, <1>4 DEF CcInv

\* A step of the walk over one entry keeps the invariant.
LEMMA VisitStep ==
  ASSUME CcInv, NEW n \in Node, Visit(n)
  PROVE  CcInv'
<1> USE DEF CcInv
<1>1. walk.on /\ walk \in Walks /\ Top.todo \subseteq Node \ {Root} /\ Root \in Node
  BY OpenFacts, CacheCleanupAssumption DEF Visit, CcTypeOK, OpenDir
<1>2. n \in CacheDirs => Append(Taken(n), [dir |-> n, todo |-> Here(n)]) \in Seq(OpenDir) \ {<<>>}
  <2>1. ASSUME n \in CacheDirs PROVE [dir |-> n, todo |-> Here(n)] \in OpenDir
    BY <2>1, TreeFacts DEF OpenDir
  <2> QED
    BY <2>1, <1>1, OpenFacts
<1>3. walk' \in Walks /\ walk'.on /\ walk'.open # <<>> /\ walk'.dry = walk.dry
  <2>1. /\ walk.on \in BOOLEAN /\ walk.dry \in BOOLEAN /\ walk.candidates \in Nat
        /\ walk.removed \in Nat /\ walk.removedDirs \in Nat /\ walk.errors \in Nat
    BY <1>1 DEF Walks
  <2>2. Taken(n) \in Seq(OpenDir) /\ Taken(n) # <<>>
    BY <1>1, OpenFacts
  <2>3. PICK w : w = walk
    OBVIOUS
  <2>4. w \in Walks
    BY <1>1, <2>3
  <2>5. PICK t : t = Taken(n)
    OBVIOUS
  <2>6. PICK d : d = Append(Taken(n), [dir |-> n, todo |-> Here(n)])
    OBVIOUS
  <2>7. \/ walk' = [w EXCEPT !.open = t, !.errors = @ + 1]
        \/ n \in CacheDirs /\ walk' = [w EXCEPT !.open = d]
        \/ walk' = [w EXCEPT !.open = t, !.candidates = @ + 1]
        \/ walk' = [w EXCEPT !.open = t, !.candidates = @]
    BY <2>3, <2>5, <2>6, Zenon DEF Visit, CacheDirs
  <2>8. t \in Seq(OpenDir) /\ t # <<>> /\ (n \in CacheDirs => d \in Seq(OpenDir) /\ d # <<>>)
    BY <2>2, <2>5, <2>6, <1>2
  <2>9. w = [on |-> w.on, dry |-> w.dry, open |-> w.open, candidates |-> w.candidates,
             removed |-> w.removed, removedDirs |-> w.removedDirs, errors |-> w.errors]
    BY <2>4 DEF Walks
  <2>10. PICK x : x = walk'
    OBVIOUS
  <2>11. PICK o, c, e : /\ x = [on |-> w.on, dry |-> w.dry, open |-> o, candidates |-> c,
                                removed |-> w.removed, removedDirs |-> w.removedDirs, errors |-> e]
                        /\ o \in Seq(OpenDir) /\ o # <<>> /\ c \in Nat /\ e \in Nat
    <3>1. w.candidates \in Nat /\ w.errors \in Nat
      BY <2>1, <2>3
    <3>2. CASE x = [w EXCEPT !.open = t, !.errors = @ + 1]
      <4>1. x = [on |-> w.on, dry |-> w.dry, open |-> t, candidates |-> w.candidates,
                removed |-> w.removed, removedDirs |-> w.removedDirs, errors |-> w.errors + 1]
        BY <3>2, <2>9
      <4>2. w.errors + 1 \in Nat
        BY <3>1
      <4> QED
        BY <3>1, <4>1, <4>2, <2>8, Zenon
    <3>3. CASE n \in CacheDirs /\ x = [w EXCEPT !.open = d]
      BY <3>1, <3>3, <2>8, <2>9
    <3>4. CASE x = [w EXCEPT !.open = t, !.candidates = @ + 1]
      <4>1. x = [on |-> w.on, dry |-> w.dry, open |-> t, candidates |-> w.candidates + 1,
                removed |-> w.removed, removedDirs |-> w.removedDirs, errors |-> w.errors]
        BY <3>4, <2>9
      <4>2. w.candidates + 1 \in Nat
        BY <3>1
      <4> QED
        BY <3>1, <4>1, <4>2, <2>8, Zenon
    <3>5. CASE x = [w EXCEPT !.open = t, !.candidates = @]
      BY <3>1, <3>5, <2>8, <2>9
    <3> QED
      BY <2>7, <2>10, <3>2, <3>3, <3>4, <3>5
  <2>12. x \in Walks /\ x.on = w.on /\ x.open = o /\ x.dry = w.dry
    BY <2>1, <2>3, <2>11 DEF Walks
  <2> QED
    BY <1>1, <2>3, <2>10, <2>11, <2>12
<1>4. looked' \in [on : BOOLEAN, node : Node]
      /\ (looked'.on => ~walk.dry /\ looked'.node \in CacheFiles \ fresh)
  BY <1>1 DEF Visit, NotLooking
<1>5. /\ touched' = FALSE
      /\ UNCHANGED <<present, fresh, runtimeUp, shownUp, preview>>
  BY DEF Visit
<1> QED
  BY <1>3, <1>4, <1>5 DEF CcTypeOK, WalkIsOpen, TreeIsWhole, LookIsHonest

\* The removal of a file.
LEMMA RemoveFileStep ==
  ASSUME CcInv, RemoveFile
  PROVE  CcInv'
<1> USE DEF CcInv
<1>1. looked.on /\ walk.on /\ looked.node \in CacheFiles /\ walk \in Walks /\ Root \in Node
  BY CacheCleanupAssumption DEF RemoveFile, LookIsHonest, CcTypeOK
<1>2. walk' \in Walks /\ walk'.open = walk.open
  BY <1>1 DEF RemoveFile, Walks
<1>3. /\ present' \in {present, present \ {looked.node}}
      /\ fresh' \subseteq fresh /\ looked' = NotLooking /\ touched' = FALSE
      /\ UNCHANGED <<runtimeUp, shownUp, preview>>
  BY DEF RemoveFile
<1>4. CcTypeOK'
  BY <1>1, <1>2, <1>3 DEF CcTypeOK, NotLooking
<1>5. TreeIsWhole'
  <2>1. Root # looked.node /\ \A n \in present \ {Root} : n \in Node /\ Above[n] # looked.node
    BY <1>1, TreeFacts, CacheCleanupAssumption DEF CcTypeOK, CacheFiles
  <2> QED
    BY <2>1, <1>3 DEF TreeIsWhole
<1>6. WalkIsOpen' /\ LookIsHonest'
  BY <1>1, <1>2, <1>3 DEF WalkIsOpen, LookIsHonest, NotLooking
<1> QED
  BY <1>4, <1>5, <1>6

\* The end of a directory.
LEMMA CloseDirStep ==
  ASSUME CcInv, CloseDir
  PROVE  CcInv'
<1> USE DEF CcInv
<1>1. /\ walk.on /\ walk \in Walks /\ ~looked.on /\ preview \in Nat
      /\ walk.candidates \in Nat /\ Below \in Seq(OpenDir)
  BY OpenFacts DEF CloseDir, CcTypeOK, Walks
<1>2. walk' \in Walks /\ walk'.open = Below /\ walk'.on = (Below # <<>>)
  <2>1. PICK w : w = walk
    OBVIOUS
  <2>2. PICK b : b = Below
    OBVIOUS
  <2>3. \/ walk' = [w EXCEPT !.open = b, !.removedDirs = @ + 1, !.on = b # <<>>]
        \/ walk' = [w EXCEPT !.open = b, !.on = b # <<>>]
    BY <2>1, <2>2, Zenon DEF CloseDir
  <2>4. w \in Walks /\ b \in Seq(OpenDir)
    BY <1>1, <2>1, <2>2
  <2>5. w = [on |-> w.on, dry |-> w.dry, open |-> w.open, candidates |-> w.candidates,
             removed |-> w.removed, removedDirs |-> w.removedDirs, errors |-> w.errors]
    BY <2>4 DEF Walks
  <2>6. PICK r : /\ r \in Nat
                 /\ walk' = [on |-> b # <<>>, dry |-> w.dry, open |-> b, candidates |-> w.candidates,
                             removed |-> w.removed, removedDirs |-> r, errors |-> w.errors]
    <3>1. w.removedDirs \in Nat
      BY <2>4 DEF Walks
    <3>2. CASE walk' = [w EXCEPT !.open = b, !.removedDirs = @ + 1, !.on = b # <<>>]
      <4>1. walk' = [on |-> b # <<>>, dry |-> w.dry, open |-> b, candidates |-> w.candidates,
                     removed |-> w.removed, removedDirs |-> w.removedDirs + 1, errors |-> w.errors]
        BY <3>2, <2>5
      <4>2. w.removedDirs + 1 \in Nat
        BY <3>1
      <4> QED
        BY <4>1, <4>2, Zenon
    <3>3. CASE walk' = [w EXCEPT !.open = b, !.on = b # <<>>]
      BY <3>1, <3>3, <2>5
    <3> QED
      BY <2>3, <3>2, <3>3
  <2> QED
    BY <2>2, <2>4, <2>6 DEF Walks
<1>3. /\ \/ UNCHANGED present
         \/ RemovesDir(Top.dir) /\ present' = present \ {Top.dir}
      /\ preview' \in Nat
      /\ UNCHANGED <<fresh, runtimeUp, shownUp, looked, touched>>
  BY <1>1 DEF CloseDir
<1>4. CcTypeOK'
  BY <1>2, <1>3 DEF CcTypeOK
<1>5. TreeIsWhole'
  BY <1>3 DEF TreeIsWhole, RemovesDir, Here, Children, CcTypeOK
<1>6. WalkIsOpen' /\ LookIsHonest'
  BY <1>1, <1>2, <1>3 DEF WalkIsOpen, LookIsHonest
<1> QED
  BY <1>4, <1>5, <1>6

\* The card, the path, the runtime and the beginning of a walk.
LEMMA CcOtherStep ==
  ASSUME CcInv,
         \/ RefreshCard \/ EditPath \/ RuntimeToggles \/ UNCHANGED ccVars
         \/ \E dry \in BOOLEAN : Cleanup(dry)
         \/ \E n \in Node : RuntimeWrites(n)
  PROVE  CcInv'
<1> USE DEF CcInv
<1>1. ASSUME RefreshCard \/ EditPath \/ RuntimeToggles \/ UNCHANGED ccVars PROVE CcInv'
  <2>1. UNCHANGED <<present, fresh, walk, looked, touched>>
    BY <1>1 DEF RefreshCard, EditPath, RuntimeToggles, ccVars
  <2>2. runtimeUp' \in BOOLEAN /\ shownUp' \in BOOLEAN /\ preview' \in Nat
    <3>1. runtimeUp \in BOOLEAN /\ shownUp \in BOOLEAN /\ preview \in Nat /\ 0 \in Nat
      BY DEF CcTypeOK
    <3>2. \/ runtimeUp' = ~runtimeUp /\ UNCHANGED <<shownUp, preview>>
          \/ shownUp' = runtimeUp /\ UNCHANGED <<runtimeUp, preview>>
          \/ preview' = 0 /\ UNCHANGED <<runtimeUp, shownUp>>
          \/ UNCHANGED <<runtimeUp, shownUp, preview>>
      BY <1>1, Zenon DEF RefreshCard, EditPath, RuntimeToggles, ccVars
    <3> QED
      BY <3>1, <3>2, Zenon
  <2> QED
    BY <2>1, <2>2 DEF CcTypeOK, WalkIsOpen, TreeIsWhole, LookIsHonest
<1>2. ASSUME NEW dry \in BOOLEAN, Cleanup(dry) PROVE CcInv'
  <2>1. [dir |-> Root, todo |-> Here(Root)] \in OpenDir
    BY TreeFacts, CacheCleanupAssumption DEF OpenDir, CacheDirs
  <2>2. walk' = [on |-> TRUE, dry |-> dry, open |-> <<[dir |-> Root, todo |-> Here(Root)]>>,
                 candidates |-> 0, removed |-> 0, removedDirs |-> 0, errors |-> 0]
    <3>1. PICK w : w = NoWalk
      OBVIOUS
    <3>2. PICK o : o = <<[dir |-> Root, todo |-> Here(Root)]>>
      OBVIOUS
    <3>3. walk' = [w EXCEPT !.on = TRUE, !.dry = dry, !.open = o]
      BY <1>2, <3>1, <3>2, Zenon DEF Cleanup
    <3> QED
      BY <3>1, <3>2, <3>3 DEF NoWalk
  <2>3. walk' \in Walks /\ walk'.open # <<>>
    BY <2>1, <2>2 DEF Walks
  <2>4. ~looked.on /\ UNCHANGED <<present, fresh, runtimeUp, shownUp, preview, looked, touched>>
    <3>1. ~walk.on /\ UNCHANGED <<present, fresh, runtimeUp, shownUp, preview, looked, touched>>
      BY <1>2, Zenon DEF Cleanup
    <3> QED
      BY <3>1 DEF LookIsHonest
  <2> QED
    BY <2>3, <2>4 DEF CcTypeOK, WalkIsOpen, TreeIsWhole, LookIsHonest
<1>3. ASSUME NEW f \in Node, RuntimeWrites(f) PROVE CcInv'
  BY <1>3 DEF RuntimeWrites, CcTypeOK, WalkIsOpen, TreeIsWhole, LookIsHonest, CacheFiles
<1> QED
  BY <1>1, <1>2, <1>3

\* Every step keeps the invariant.
LEMMA CcStep ==
  ASSUME CcInv, [CcNext]_ccVars
  PROVE  CcInv'
BY VisitStep, RemoveFileStep, CloseDirStep, CcOtherStep DEF CcNext

\* A file whose metadata is held was expired when it was looked at, and the tree
\* stays whole, however the runtime writes in between.
THEOREM CcInvariant == CcSpec => []CcInv
BY CcInitInv, CcStep, PTL DEF CcSpec

\* A removal takes nothing in use: no link, no root, nothing that has entries,
\* nothing in a dry run, and no file written since the cutoff unless it was
\* written after the walk looked at it.
THEOREM RemovalsNeverLoseWhatIsInUse == CcSpec => LosesNothingInUse
<1> DEFINE Loses == \A n \in present \ present' :
                      /\ walk.on /\ ~walk.dry
                      /\ n # Root /\ NodeKind[n] # "link"
                      /\ n \in fresh => touched
                      /\ Children(n) \cap present' = {}
<1>1. ASSUME CcInv, RemoveFile PROVE Loses
  <2>1. /\ walk.on /\ ~walk.dry /\ looked.node \in CacheFiles
        /\ looked.node \in fresh => touched
    BY <1>1 DEF CcInv, LookIsHonest, RemoveFile
  <2>2. present \ present' \subseteq {looked.node}
    BY <1>1 DEF RemoveFile
  <2> QED
    BY <2>1, <2>2, TreeFacts DEF CacheFiles
<1>2. ASSUME CcInv, CloseDir PROVE Loses
  <2>1. walk.on /\ Top.dir \in CacheDirs /\ Top.dir \notin fresh
    BY <1>2, OpenFacts, TreeFacts DEF CcInv, CloseDir, OpenDir, CcTypeOK
  <2>2. \/ present' = present
        \/ RemovesDir(Top.dir) /\ present' = present \ {Top.dir}
    BY <1>2 DEF CloseDir
  <2> QED
    BY <2>1, <2>2 DEF RemovesDir, Here, CacheDirs
<1>3. ASSUME CcInv, CcNext, ~RemoveFile, ~CloseDir PROVE present \subseteq present'
  <2>1. \/ RefreshCard \/ EditPath \/ RuntimeToggles
        \/ \E dry \in BOOLEAN : Cleanup(dry)
        \/ \E n \in Node : Visit(n)
        \/ \E n \in Node : RuntimeWrites(n)
    BY <1>3 DEF CcNext
  <2>2. ASSUME NEW n, RuntimeWrites(n) PROVE present \subseteq present'
    BY <2>2 DEF RuntimeWrites
  <2>3. ASSUME \/ RefreshCard \/ EditPath \/ RuntimeToggles
               \/ \E dry \in BOOLEAN : Cleanup(dry)
               \/ \E n \in Node : Visit(n)
        PROVE  present' = present
    BY <2>3, Zenon DEF RefreshCard, EditPath, RuntimeToggles, Cleanup, Visit
  <2> QED
    BY <2>1, <2>2, <2>3
<1>4. ASSUME CcInv, [CcNext]_ccVars PROVE [Loses]_ccVars
  BY <1>1, <1>2, <1>3, <1>4
<1> QED
  BY <1>4, CcInvariant, PTL DEF CcSpec, LosesNothingInUse
=============================================================================
