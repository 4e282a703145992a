--------------------------- MODULE Stores_proofs ---------------------------
\* What is kept on disk: checkpoints, downloaded models, support bundles.
EXTENDS CheckpointResume, ModelHub, SupportBundle, TLAPS

-----------------------------------------------------------------------------
\* Checkpoints and resumes, for any attempts, steps and harm.

\* The contents a file may have.
Content == {Absent} \cup {Weights(a, s) : a \in Try, s \in Step} \cup {Harmed(n) : n \in Nat}

Record == [state : {"none", "created", "running", "failed", "killed", "exited_ok"},
           last : 0..MaxStep, pin : Content, from : Try \cup {0}]
Held == [last : 0..MaxStep, pin : Content]
Snapshot == [weights : Content, manifest : Content, durable : BOOLEAN]
Recording == [pc : {"idle", "copy", "manifest", "hash", "sync", "pin"}, step : 0..MaxStep,
              pin : Content]
Resume == [pc : {"none", "verify", "copy", "copy_manifest", "check", "ready", "refused"},
           of : Try \cup {0}, step : 0..MaxStep, pin : Content, weights : Content,
           manifest : Content]

CkTypeOK ==
  /\ record \in [Try -> Record] /\ held \in [Try -> Held]
  /\ stepsSaved \in [Try -> SUBSET Step] /\ snap \in [Try -> [Step -> Snapshot]]
  /\ ckTask \in [Try -> Recording] /\ resume \in [Try -> Resume]
  /\ trained \in [Try -> Content] /\ harm \in Nat

\* The snapshot of a step is on disk for good, and is the pinned one unless
\* something was harmed.
Lasting(a, s, pin) ==
  s \in Step /\ snap[a][s].durable /\ (harm = 0 => Verified(snap[a][s], pin))

\* Only a running attempt records; until its snapshot is synced it is not
\* durable. What a record or the reader's copy names lasts.
PinsAreDurable ==
  \A a \in Try :
    /\ record[a].last # 0 => Lasting(a, record[a].last, record[a].pin)
    /\ held[a].last # 0 => Lasting(a, held[a].last, held[a].pin)
    /\ ckTask[a].pc # "idle" => record[a].state = "running" /\ ckTask[a].step \in Step
    /\ ckTask[a].pc \in {"copy", "manifest", "hash", "sync"} => ~snap[a][ckTask[a].step].durable
    /\ ckTask[a].pc = "pin" => Lasting(a, ckTask[a].step, ckTask[a].pin)

\* A resume that was prepared has the pin of its source, which has ended; what
\* is ready to train is the pinned content.
ResumesArePinned ==
  \A a \in Try :
    LET r == resume[a] IN
    /\ record[a].state = "none" => r.pc = "none"
    /\ r.pc = "none" => r.of = 0
    /\ r.pc \in {"verify", "copy", "copy_manifest", "check"} => record[a].state = "created"
    /\ r.of = 0 => r.weights = Absent /\ r.pc \in {"none", "ready", "refused"}
    /\ r.pc \in {"copy", "copy_manifest", "check", "ready"} /\ r.of # 0 =>
         /\ record[r.of].state \in {"failed", "killed"} /\ r.pin = record[r.of].pin
         /\ r.step # 0
    /\ r.pc = "ready" /\ r.of # 0 => r.weights = r.pin
    /\ trained[a] # Absent =>
         record[a].state \notin {"none", "created"} /\ r.pc = "ready" /\ trained[a] = r.weights

CkInv == CkTypeOK /\ PinsAreDurable /\ ResumesArePinned

-----------------------------------------------------------------------------
LEMMA ContentFacts ==
  /\ Absent \in Content /\ \A a \in Try, s \in Step : Weights(a, s) \in Content
  /\ \A n \in Nat : Harmed(n) \in Content
BY DEF Content

\* What the parts of a state are.
LEMMA CkParts ==
  ASSUME CkTypeOK, NEW a \in Try
  PROVE  /\ record[a] \in Record /\ held[a] \in Held /\ stepsSaved[a] \subseteq Step
         /\ snap[a] \in [Step -> Snapshot] /\ ckTask[a] \in Recording /\ resume[a] \in Resume
         /\ trained[a] \in Content /\ harm \in Nat
BY DEF CkTypeOK

\* The task of the reader changes: nobody else's does.
LEMMA TaskChanges ==
  ASSUME CkTypeOK, NEW a \in Try, NEW pc \in {"idle", "copy", "manifest", "hash", "sync", "pin"},
         NEW s \in 0..MaxStep, NEW pin \in Content, Task(a, pc, s, pin)
  PROVE  /\ ckTask' \in [Try -> Recording]
         /\ ckTask'[a].pc = pc /\ ckTask'[a].step = s /\ ckTask'[a].pin = pin
         /\ \A b \in Try : b # a => ckTask'[b] = ckTask[b]
<1>1. [pc |-> pc, step |-> s, pin |-> pin] \in Recording
  BY DEF Recording
<1>2. QED
  BY <1>1 DEF CkTypeOK, Task

\* One snapshot changes: no other one does.
SnapGoes(a, s, d) == snap' = [snap EXCEPT ![a] = [snap[a] EXCEPT ![s] = d]]

LEMMA SnapChanges ==
  ASSUME CkTypeOK, NEW a \in Try, NEW s \in Step, NEW d \in Snapshot,
         SnapGoes(a, s, d)
  PROVE  /\ snap' \in [Try -> [Step -> Snapshot]] /\ snap'[a][s] = d
         /\ \A b \in Try, u \in Step : b # a \/ u # s => snap'[b][u] = snap[b][u]
<1> DEFINE f == [snap[a] EXCEPT ![s] = d]
<1>1. f \in [Step -> Snapshot] /\ f[s] = d /\ \A u \in Step : u # s => f[u] = snap[a][u]
  BY DEF CkTypeOK
<1> HIDE DEF f
<1>2. /\ snap' \in [Try -> [Step -> Snapshot]] /\ snap'[a] = f
      /\ \A b \in Try : b # a => snap'[b] = snap[b]
  BY <1>1 DEF CkTypeOK, SnapGoes, f
<1>3. QED
  BY <1>1, <1>2

\* Nothing is recorded at the start.
LEMMA CkInitInv == CkInit => CkInv
<1> SUFFICES ASSUME CkInit PROVE CkInv
  OBVIOUS
<1>1. CkTypeOK
  BY ContentFacts, CheckpointResumeAssumption DEF CkInit, CkTypeOK, Record, Held, Snapshot,
     Recording, Resume, NoSnapshot, NoTask, NoResume
<1>2. PinsAreDurable
  BY DEF CkInit, PinsAreDurable, NoTask
<1>3. ResumesArePinned
  BY DEF CkInit, ResumesArePinned, NoResume
<1>4. QED
  BY <1>1, <1>2, <1>3 DEF CkInv

\* A saved step is no record.
LEMMA SaveInv ==
  ASSUME CkInv, NEW a \in Try, Save(a)
  PROVE  CkInv'
<1>1. CkTypeOK'
  BY DEF CkInv, CkTypeOK, Save
<1>2. PinsAreDurable' /\ ResumesArePinned'
  BY DEF CkInv, PinsAreDurable, Lasting, ResumesArePinned, Save
<1>3. QED
  BY <1>1, <1>2 DEF CkInv

\* A step of the reader that leaves the records and the snapshots alone.
LEMMA ReaderStep ==
  ASSUME CkInv, NEW a \in Try, NEW pc \in {"idle", "copy", "manifest", "hash", "sync", "pin"},
         NEW s \in 0..MaxStep, NEW pin \in Content, Task(a, pc, s, pin),
         UNCHANGED <<record, held, stepsSaved, snap, resume, trained, harm>>,
         pc # "idle" => /\ record[a].state = "running" /\ s \in Step
                        /\ pc # "pin" /\ ~snap[a][s].durable
  PROVE  CkInv'
<1>1. /\ ckTask' \in [Try -> Recording]
      /\ ckTask'[a].pc = pc /\ ckTask'[a].step = s /\ ckTask'[a].pin = pin
      /\ \A b \in Try : b # a => ckTask'[b] = ckTask[b]
  BY TaskChanges DEF CkInv
<1>2. CkTypeOK'
  BY <1>1 DEF CkInv, CkTypeOK
<1>3. PinsAreDurable'
  BY <1>1 DEF CkInv, PinsAreDurable, Lasting
<1>4. ResumesArePinned'
  BY DEF CkInv, ResumesArePinned
<1>5. QED
  BY <1>2, <1>3, <1>4 DEF CkInv

\* A recording begins, in a directory that is new; it fails; its manifest is hashed.
LEMMA RecordBeginsInv ==
  ASSUME CkInv, NEW a \in Try, NEW s \in Step, RecordBegins(a, s)
  PROVE  CkInv'
<1>1. s \in 0..MaxStep /\ ~snap[a][s].durable
  BY CheckpointResumeAssumption DEF RecordBegins, Step, NoSnapshot
<1>2. QED
  BY <1>1, ReaderStep, ContentFacts DEF RecordBegins

LEMMA RecordFailsInv ==
  ASSUME CkInv, NEW a \in Try, RecordFails(a)
  PROVE  CkInv'
BY ReaderStep, ContentFacts, CheckpointResumeAssumption DEF RecordFails

LEMMA HashManifestInv ==
  ASSUME CkInv, NEW a \in Try, HashManifest(a)
  PROVE  CkInv'
<1> DEFINE s == ckTask[a].step
<1>1. record[a].state = "running" /\ s \in Step /\ ~snap[a][s].durable
  BY DEF CkInv, PinsAreDurable, HashManifest
<1>2. s \in 0..MaxStep /\ snap[a][s].manifest \in Content
  BY <1>1, CkParts, CheckpointResumeAssumption DEF CkInv, Step, Snapshot
<1>3. QED
  BY <1>1, <1>2, ReaderStep DEF HashManifest

\* A step of the reader on its snapshot: while it is not durable nothing names it.
LEMMA SnapshotStep ==
  ASSUME CkInv, NEW a \in Try, NEW pc \in {"manifest", "hash", "pin"}, NEW s \in Step,
         NEW pin \in Content, NEW d \in Snapshot, Task(a, pc, s, pin),
         SnapGoes(a, s, d),
         UNCHANGED <<record, held, stepsSaved, resume, trained, harm>>,
         record[a].state = "running", ~snap[a][s].durable,
         IF pc = "pin" THEN d.durable /\ Verified(d, pin) ELSE ~d.durable
  PROVE  CkInv'
<1>1. /\ ckTask' \in [Try -> Recording]
      /\ ckTask'[a].pc = pc /\ ckTask'[a].step = s /\ ckTask'[a].pin = pin
      /\ \A b \in Try : b # a => ckTask'[b] = ckTask[b]
  BY TaskChanges, CheckpointResumeAssumption DEF CkInv, Step
<1>2. /\ snap' \in [Try -> [Step -> Snapshot]] /\ snap'[a][s] = d
      /\ \A b \in Try, u \in Step : b # a \/ u # s => snap'[b][u] = snap[b][u]
  BY SnapChanges DEF CkInv
<1>3. CkTypeOK'
  BY <1>1, <1>2 DEF CkInv, CkTypeOK
<1>4. \A b \in Try, u \in Nat, p \in Content : Lasting(b, u, p) => Lasting(b, u, p)'
  BY <1>2 DEF Lasting, Step
<1>5. PinsAreDurable'
  <2>1. ASSUME NEW b \in Try
        PROVE  /\ record[b].last # 0 => Lasting(b, record[b].last, record[b].pin)'
               /\ held[b].last # 0 => Lasting(b, held[b].last, held[b].pin)'
    BY <1>4, CkParts DEF CkInv, PinsAreDurable, Record, Held
  <2>2. ASSUME NEW b \in Try, b # a, ckTask[b].pc # "idle"
        PROVE  /\ record[b].state = "running" /\ ckTask[b].step \in Step
               /\ snap'[b][ckTask[b].step] = snap[b][ckTask[b].step]
               /\ ckTask'[b].pc = "pin" => Lasting(b, ckTask[b].step, ckTask[b].pin)'
    <3>1. PICK t : t = ckTask[b]
      OBVIOUS
    <3>2. record[b].state = "running" /\ t.step \in Step /\ t.pin \in Content
          /\ (t.pc = "pin" => Lasting(b, t.step, t.pin))
      BY <2>2, <3>1, CkParts DEF CkInv, PinsAreDurable, Recording
    <3>3. snap'[b][t.step] = snap[b][t.step] /\ ckTask'[b] = t
      BY <1>1, <1>2, <2>2, <3>1, <3>2
    <3>4. t.pc = "pin" => Lasting(b, t.step, t.pin)'
      BY <1>4, <3>2 DEF Step
    <3>5. QED
      BY <3>1, <3>2, <3>3, <3>4
  <2>3. pc = "pin" => Lasting(a, s, pin)'
    BY <1>2 DEF Lasting
  <2>4. QED
    BY <1>1, <1>2, <2>1, <2>2, <2>3 DEF CkInv, PinsAreDurable
<1>6. ResumesArePinned'
  BY DEF CkInv, ResumesArePinned
<1>7. QED
  BY <1>3, <1>5, <1>6 DEF CkInv

\* The weights are copied, their manifest written, and the whole is synced.
LEMMA CopyWeightsInv ==
  ASSUME CkInv, NEW a \in Try, CopyWeights(a)
  PROVE  CkInv'
<1> DEFINE s == ckTask[a].step
           d == [snap[a][s] EXCEPT !.weights = Weights(a, s)]
<1>1. record[a].state = "running" /\ s \in Step /\ ~snap[a][s].durable
  BY DEF CkInv, PinsAreDurable, CopyWeights
<1>2. snap[a][s] \in Snapshot
  BY <1>1, CkParts DEF CkInv
<1>3. d \in Snapshot /\ ~d.durable
  BY <1>1, <1>2, ContentFacts DEF Snapshot
<1>4. SnapGoes(a, s, d)
  BY DEF CopyWeights, SnapGoes
<1> HIDE DEF d
<1>5. QED
  BY <1>1, <1>3, <1>4, ContentFacts, SnapshotStep DEF CopyWeights

LEMMA WriteManifestInv ==
  ASSUME CkInv, NEW a \in Try, WriteManifest(a)
  PROVE  CkInv'
<1> DEFINE s == ckTask[a].step
           d == [snap[a][s] EXCEPT !.manifest = snap[a][s].weights]
<1>1. record[a].state = "running" /\ s \in Step /\ ~snap[a][s].durable
  BY DEF CkInv, PinsAreDurable, WriteManifest
<1>2. snap[a][s] \in Snapshot
  BY <1>1, CkParts DEF CkInv
<1>3. d \in Snapshot /\ ~d.durable
  BY <1>1, <1>2 DEF Snapshot
<1>4. SnapGoes(a, s, d)
  BY DEF WriteManifest, SnapGoes
<1> HIDE DEF d
<1>5. QED
  BY <1>1, <1>3, <1>4, ContentFacts, SnapshotStep DEF WriteManifest

LEMMA SyncSnapshotInv ==
  ASSUME CkInv, NEW a \in Try, SyncSnapshot(a)
  PROVE  CkInv'
<1> DEFINE s == ckTask[a].step
           d == [snap[a][s] EXCEPT !.durable = TRUE]
<1>1. record[a].state = "running" /\ s \in Step /\ ~snap[a][s].durable
  BY DEF CkInv, PinsAreDurable, SyncSnapshot
<1>2. snap[a][s] \in Snapshot /\ ckTask[a].pin \in Content
  BY <1>1, CkParts DEF CkInv, Recording
<1>3. d \in Snapshot /\ d.durable /\ Verified(d, ckTask[a].pin)
  BY <1>1, <1>2 DEF Snapshot, SyncSnapshot, Verified, Matches
<1>4. SnapGoes(a, s, d)
  BY DEF SyncSnapshot, SnapGoes
<1> HIDE DEF d
<1>5. QED
  BY <1>1, <1>2, <1>3, <1>4, SnapshotStep DEF SyncSnapshot

\* A record changes: nobody else's does.
LEMMA RecordChanges ==
  ASSUME CkTypeOK, NEW a \in Try, NEW r \in Record, record' = [record EXCEPT ![a] = r]
  PROVE  /\ record' \in [Try -> Record] /\ record'[a] = r
         /\ \A b \in Try : b # a => record'[b] = record[b]
BY DEF CkTypeOK

\* The record of a running attempt names a snapshot that lasts, and a reader
\* whose rename was not synced keeps its old copy.
LEMMA PinInv ==
  ASSUME CkInv, NEW a \in Try, Pin(a)
  PROVE  CkInv'
<1> DEFINE s == ckTask[a].step
           pin == ckTask[a].pin
           r == [record[a] EXCEPT !.last = s, !.pin = pin]
           h == [last |-> s, pin |-> pin]
<1>1. record[a].state = "running" /\ s \in Step /\ Lasting(a, s, pin)
  BY DEF CkInv, PinsAreDurable, Pin
<1>2. s \in 0..MaxStep /\ pin \in Content /\ record[a] \in Record
  BY <1>1, CkParts, CheckpointResumeAssumption DEF CkInv, Step, Recording
<1>3. /\ r \in Record /\ r.state = "running" /\ r.last = s /\ r.pin = pin
      /\ h \in Held
  BY <1>1, <1>2 DEF Record, Held
<1>4. /\ UNCHANGED <<stepsSaved, snap, resume, trained, harm>> /\ Task(a, "idle", 0, Absent)
      /\ record' = [record EXCEPT ![a] = r]
      /\ held' = held \/ held' = [held EXCEPT ![a] = h]
  BY DEF Pin
<1> HIDE DEF r
<1>5. /\ record' \in [Try -> Record] /\ record'[a] = r
      /\ \A b \in Try : b # a => record'[b] = record[b]
  BY <1>3, <1>4, RecordChanges DEF CkInv
<1>6. /\ held' \in [Try -> Held]
      /\ held'[a] = held[a] \/ held'[a] = h
      /\ \A b \in Try : b # a => held'[b] = held[b]
  BY <1>3, <1>4 DEF CkInv, CkTypeOK
<1>7. /\ ckTask' \in [Try -> Recording] /\ ckTask'[a].pc = "idle"
      /\ \A b \in Try : b # a => ckTask'[b] = ckTask[b]
  BY <1>4, TaskChanges, ContentFacts, CheckpointResumeAssumption DEF CkInv
<1>8. CkTypeOK'
  BY <1>4, <1>5, <1>6, <1>7 DEF CkInv, CkTypeOK
<1>9. PinsAreDurable'
  BY <1>1, <1>3, <1>4, <1>5, <1>6, <1>7 DEF CkInv, PinsAreDurable, Lasting
<1>10. ResumesArePinned'
  BY <1>1, <1>3, <1>4, <1>5, CkParts DEF CkInv, ResumesArePinned, Resume
<1>11. QED
  BY <1>8, <1>9, <1>10 DEF CkInv

\* A run ends with the reader's copy of its record.
LEMMA TryEndsInv ==
  ASSUME CkInv, NEW a \in Try, NEW state \in {"failed", "killed", "exited_ok"},
         TryEnds(a, state)
  PROVE  CkInv'
<1> DEFINE r == [record[a] EXCEPT !.state = state, !.last = held[a].last, !.pin = held[a].pin]
<1>1. record[a] \in Record /\ held[a] \in Held
  BY CkParts DEF CkInv
<1>2. r \in Record /\ r.state = state /\ r.last = held[a].last /\ r.pin = held[a].pin
  BY <1>1 DEF Record, Held
<1>3. /\ UNCHANGED <<held, stepsSaved, snap, ckTask, resume, trained, harm>>
      /\ record' = [record EXCEPT ![a] = r] /\ record[a].state = "running"
      /\ ckTask[a].pc = "idle"
  BY DEF TryEnds
<1> HIDE DEF r
<1>4. /\ record' \in [Try -> Record] /\ record'[a] = r
      /\ \A b \in Try : b # a => record'[b] = record[b]
  BY <1>2, <1>3, RecordChanges DEF CkInv
<1>5. CkTypeOK'
  BY <1>3, <1>4 DEF CkInv, CkTypeOK
<1>6. PinsAreDurable'
  BY <1>2, <1>3, <1>4 DEF CkInv, PinsAreDurable, Lasting
<1>7. ResumesArePinned'
  BY <1>2, <1>3, <1>4, CkParts DEF CkInv, ResumesArePinned, Resume
<1>8. QED
  BY <1>5, <1>6, <1>7 DEF CkInv

\* A step of a resume: its own record and state change, nothing of the reader's.
LEMMA ResumeStep ==
  ASSUME CkInv, NEW a \in Try, NEW r \in Record, NEW p \in Resume,
         record' = [record EXCEPT ![a] = r], resume' = [resume EXCEPT ![a] = p],
         UNCHANGED <<held, stepsSaved, snap, ckTask, trained, harm>>,
         r.last = record[a].last, r.pin = record[a].pin,
         record[a].state \in {"none", "created"}, r.state \in {"created", "failed"},
         p.pc # "none", p.of = 0 => p.weights = Absent /\ p.pc \in {"ready", "refused"},
         p.pc \in {"verify", "copy", "copy_manifest", "check"} => r.state = "created",
         p.pc \in {"copy", "copy_manifest", "check", "ready"} /\ p.of # 0 =>
           /\ record[p.of].state \in {"failed", "killed"} /\ p.pin = record[p.of].pin
           /\ p.step # 0
           /\ p.pc = "ready" => p.weights = p.pin
  PROVE  CkInv'
<1>1. /\ record' \in [Try -> Record] /\ record'[a] = r
      /\ \A b \in Try : b # a => record'[b] = record[b]
  BY RecordChanges DEF CkInv
<1>2. /\ resume' \in [Try -> Resume] /\ resume'[a] = p
      /\ \A b \in Try : b # a => resume'[b] = resume[b]
  BY DEF CkInv, CkTypeOK
<1>3. CkTypeOK'
  BY <1>1, <1>2 DEF CkInv, CkTypeOK
<1>4. PinsAreDurable'
  BY <1>1 DEF CkInv, PinsAreDurable, Lasting
<1>5. \A b \in Try : record[b].state \in {"failed", "killed"} =>
        record'[b].state \in {"failed", "killed"} /\ record'[b].pin = record[b].pin
  BY <1>1
<1>6. ResumesArePinned'
  BY <1>1, <1>2, <1>5, CkParts, CheckpointResumeAssumption
  DEF CkInv, ResumesArePinned, Resume
<1>7. QED
  BY <1>3, <1>4, <1>6 DEF CkInv

\* An attempt is created, with or without a source to resume from.
LEMMA CreateInv ==
  ASSUME CkInv, NEW a \in Try, Create(a)
  PROVE  CkInv'
<1> DEFINE r == [record[a] EXCEPT !.state = "created"]
           p == [resume[a] EXCEPT !.pc = "ready"]
<1>1. record[a] \in Record /\ resume[a] \in Resume /\ record[a].state = "none"
  BY CkParts DEF CkInv, Create, Unborn
<1>2. /\ r \in Record /\ r.last = record[a].last /\ r.pin = record[a].pin /\ r.state = "created"
  BY <1>1 DEF Record
<1>3. p \in Resume /\ p.pc = "ready" /\ p.of = 0 /\ p.weights = Absent
  BY <1>1 DEF Resume, CkInv, ResumesArePinned
<1>4. /\ record' = [record EXCEPT ![a] = r] /\ resume' = [resume EXCEPT ![a] = p]
      /\ UNCHANGED <<held, stepsSaved, snap, ckTask, trained, harm>>
  BY DEF Create
<1> HIDE DEF r, p
<1>5. QED
  BY <1>1, <1>2, <1>3, <1>4, ResumeStep

LEMMA CreateResumedInv ==
  ASSUME CkInv, NEW a \in Try, NEW src \in Try, CreateResumed(a, src)
  PROVE  CkInv'
<1> DEFINE r == [record[a] EXCEPT !.state = "created"]
           p == [resume[a] EXCEPT !.pc = "verify", !.of = src]
<1>1. record[a] \in Record /\ resume[a] \in Resume /\ record[a].state = "none" /\ src # 0
  BY CkParts, CheckpointResumeAssumption DEF CkInv, CreateResumed, Unborn
<1>2. /\ r \in Record /\ r.last = record[a].last /\ r.pin = record[a].pin /\ r.state = "created"
  BY <1>1 DEF Record
<1>3. p \in Resume /\ p.pc = "verify" /\ p.of = src
  BY <1>1 DEF Resume
<1>4. /\ record' = [record EXCEPT ![a] = r] /\ resume' = [resume EXCEPT ![a] = p]
      /\ UNCHANGED <<held, stepsSaved, snap, ckTask, trained, harm>>
  BY DEF CreateResumed
<1> HIDE DEF r, p
<1>5. QED
  BY <1>1, <1>2, <1>3, <1>4, ResumeStep

\* A resume that fails is refused for good.
LEMMA PrepareFailsInv ==
  ASSUME CkInv, NEW a \in Try, resume[a].pc \in {"verify", "check"}, PrepareFails(a),
         UNCHANGED <<held, stepsSaved, snap, ckTask, trained, harm>>
  PROVE  CkInv'
<1> DEFINE r == [record[a] EXCEPT !.state = "failed"]
           p == [resume[a] EXCEPT !.pc = "refused"]
<1>1. /\ record[a] \in Record /\ resume[a] \in Resume /\ record[a].state = "created"
      /\ resume[a].of # 0
  BY CkParts DEF CkInv, ResumesArePinned
<1>2. /\ r \in Record /\ r.last = record[a].last /\ r.pin = record[a].pin /\ r.state = "failed"
  BY <1>1 DEF Record
<1>3. p \in Resume /\ p.pc = "refused" /\ p.of # 0
  BY <1>1 DEF Resume
<1>4. record' = [record EXCEPT ![a] = r] /\ resume' = [resume EXCEPT ![a] = p]
  BY DEF PrepareFails
<1> HIDE DEF r, p
<1>5. QED
  BY <1>1, <1>2, <1>3, <1>4, ResumeStep

\* The snapshot of the source verifies: its pin is the resume's.
LEMMA PrepareInv ==
  ASSUME CkInv, NEW a \in Try, Prepare(a)
  PROVE  CkInv'
<1> DEFINE src == resume[a].of
           s == record[src].last
           p == [resume[a] EXCEPT !.pc = "copy", !.step = s, !.pin = record[src].pin]
<1>1. CASE PrepareFails(a)
  BY <1>1, PrepareFailsInv DEF Prepare
<1>2. CASE ~PrepareFails(a)
  <2>1. /\ record[a] \in Record /\ resume[a] \in Resume /\ record[a].state = "created"
        /\ src # 0 /\ src \in Try /\ record[src] \in Record
    BY CkParts DEF CkInv, ResumesArePinned, Prepare, Resume
  <2>2. /\ record' = record /\ resume' = [resume EXCEPT ![a] = p]
        /\ UNCHANGED <<held, stepsSaved, snap, ckTask, trained, harm>>
        /\ record[src].state \in {"failed", "killed"} /\ s # 0
    BY <1>2 DEF Prepare, Resumable
  <2>3. p \in Resume /\ p.pc = "copy" /\ p.of = src /\ p.pin = record[src].pin /\ p.step = s
    BY <2>1 DEF Resume, Record
  <2>4. record' = [record EXCEPT ![a] = record[a]]
    BY <2>2 DEF CkInv, CkTypeOK
  <2> HIDE DEF p
  <2>5. QED
    BY <2>1, <2>2, <2>3, <2>4, ResumeStep
<1>3. QED
  BY <1>1, <1>2

\* The copy has the bytes the files have by then.
LEMMA CopyStep ==
  ASSUME CkInv, NEW a \in Try, NEW p \in Resume, resume[a].pc \in {"copy", "copy_manifest"},
         p.of = resume[a].of, p.pin = resume[a].pin, p.step = resume[a].step,
         p.pc \in {"copy_manifest", "check"},
         resume' = [resume EXCEPT ![a] = p],
         UNCHANGED <<record, held, stepsSaved, snap, ckTask, trained, harm>>
  PROVE  CkInv'
<1>1. /\ record[a] \in Record /\ record[a].state = "created" /\ p.of # 0
      /\ record[p.of].state \in {"failed", "killed"} /\ p.pin = record[p.of].pin
      /\ p.step # 0
  BY CkParts DEF CkInv, ResumesArePinned
<1>2. record' = [record EXCEPT ![a] = record[a]]
  BY DEF CkInv, CkTypeOK
<1>3. QED
  BY <1>1, <1>2, ResumeStep

LEMMA CopyOriginInv ==
  ASSUME CkInv, NEW a \in Try, CopyOrigin(a)
  PROVE  CkInv'
<1> DEFINE r == resume[a]
           d == snap[r.of][r.step]
           p == [r EXCEPT !.pc = "copy_manifest", !.weights = d.weights]
<1>1. r \in Resume /\ r.of \in Try /\ r.step \in Step
  BY CkParts, CheckpointResumeAssumption DEF CkInv, ResumesArePinned, CopyOrigin, Resume, Step
<1>2. d \in Snapshot
  BY <1>1, CkParts DEF CkInv
<1>3. p \in Resume /\ p.of = r.of /\ p.pin = r.pin /\ p.step = r.step /\ p.pc = "copy_manifest"
  BY <1>1, <1>2 DEF Resume, Snapshot
<1>4. resume' = [resume EXCEPT ![a] = p]
  BY DEF CopyOrigin
<1> HIDE DEF p
<1>5. QED
  BY <1>3, <1>4, CopyStep DEF CopyOrigin

LEMMA CopyOriginManifestInv ==
  ASSUME CkInv, NEW a \in Try, CopyOriginManifest(a)
  PROVE  CkInv'
<1> DEFINE r == resume[a]
           d == snap[r.of][r.step]
           p == [r EXCEPT !.pc = "check", !.manifest = d.manifest]
<1>1. r \in Resume /\ r.of \in Try /\ r.step \in Step
  BY CkParts, CheckpointResumeAssumption
  DEF CkInv, ResumesArePinned, CopyOriginManifest, Resume, Step
<1>2. d \in Snapshot
  BY <1>1, CkParts DEF CkInv
<1>3. p \in Resume /\ p.of = r.of /\ p.pin = r.pin /\ p.step = r.step /\ p.pc = "check"
  BY <1>1, <1>2 DEF Resume, Snapshot
<1>4. resume' = [resume EXCEPT ![a] = p]
  BY DEF CopyOriginManifest
<1> HIDE DEF p
<1>5. QED
  BY <1>3, <1>4, CopyStep DEF CopyOriginManifest

\* A copy that is checked has the pinned bytes.
LEMMA CheckCopyInv ==
  ASSUME CkInv, NEW a \in Try, CheckCopy(a)
  PROVE  CkInv'
<1> DEFINE q == resume[a]
           r == [record[a] EXCEPT !.from = q.of]
           p == [q EXCEPT !.pc = "ready"]
<1>1. CASE PrepareFails(a)
  BY <1>1, PrepareFailsInv DEF CheckCopy
<1>2. CASE ~PrepareFails(a)
  <2>1. /\ record[a] \in Record /\ q \in Resume /\ record[a].state = "created"
        /\ q.of # 0 /\ q.of \in Try /\ q.pin = record[q.of].pin /\ q.step # 0
        /\ record[q.of].state \in {"failed", "killed"}
    BY CkParts DEF CkInv, ResumesArePinned, CheckCopy, Resume
  <2>2. /\ record' = [record EXCEPT ![a] = r] /\ resume' = [resume EXCEPT ![a] = p]
        /\ UNCHANGED <<held, stepsSaved, snap, ckTask, trained, harm>>
        /\ q.weights = q.pin
    BY <1>2 DEF CheckCopy, Verified, Matches
  <2>3. /\ p \in Resume /\ p.pc = "ready" /\ p.of = q.of /\ p.step = q.step
        /\ p.pin = q.pin /\ p.weights = q.weights
    BY <2>1 DEF Resume
  <2>4. /\ r \in Record /\ r.state = "created" /\ r.last = record[a].last
        /\ r.pin = record[a].pin
    BY <2>1 DEF Record
  <2> HIDE DEF p, r
  <2>5. QED
    BY <2>1, <2>2, <2>3, <2>4, ResumeStep
<1>3. QED
  BY <1>1, <1>2

\* Training starts from what is ready.
LEMMA RunInv ==
  ASSUME CkInv, NEW a \in Try, Run(a)
  PROVE  CkInv'
<1> DEFINE r == [record[a] EXCEPT !.state = "running"]
<1>1. /\ record[a] \in Record /\ resume[a] \in Resume /\ record[a].state = "created"
      /\ resume[a].pc = "ready"
  BY CkParts DEF CkInv, Run
<1>2. r \in Record /\ r.state = "running" /\ r.last = record[a].last /\ r.pin = record[a].pin
  BY <1>1 DEF Record
<1>3. /\ record' = [record EXCEPT ![a] = r]
      /\ trained' = [trained EXCEPT ![a] = resume[a].weights]
      /\ UNCHANGED <<held, stepsSaved, snap, ckTask, resume, harm>>
  BY DEF Run
<1> HIDE DEF r
<1>4. /\ record' \in [Try -> Record] /\ record'[a] = r
      /\ \A b \in Try : b # a => record'[b] = record[b]
  BY <1>2, <1>3, RecordChanges DEF CkInv
<1>5. /\ trained' \in [Try -> Content] /\ trained'[a] = resume[a].weights
      /\ \A b \in Try : b # a => trained'[b] = trained[b]
  BY <1>1, <1>3 DEF CkInv, CkTypeOK, Resume
<1>6. CkTypeOK'
  BY <1>3, <1>4, <1>5 DEF CkInv, CkTypeOK
<1>7. PinsAreDurable'
  BY <1>2, <1>3, <1>4 DEF CkInv, PinsAreDurable, Lasting
<1>8. ResumesArePinned'
  BY <1>1, <1>2, <1>3, <1>4, <1>5, CkParts DEF CkInv, ResumesArePinned, Resume
<1>9. QED
  BY <1>6, <1>7, <1>8 DEF CkInv

\* A power loss spares what is durable, and nothing is recorded or resumed after it.
LEMMA PowerLossInv == CkInv /\ PowerLoss => CkInv'
<1> SUFFICES ASSUME CkInv, PowerLoss PROVE CkInv'
  OBVIOUS
<1>1. /\ UNCHANGED <<held, stepsSaved, trained>> /\ harm' = harm + 1 /\ harm' \in Nat
      /\ ckTask' = [a \in Try |-> NoTask]
  BY DEF PowerLoss, CkInv, CkTypeOK
<1>2. snap' \in [Try -> [Step -> Snapshot]]
      /\ \A a \in Try, s \in Step : snap[a][s].durable => snap'[a][s] = snap[a][s]
  <2>1. PICK lost \in SUBSET Try :
          snap' = [a \in Try |-> [s \in Step |->
                     IF a \in lost /\ ~snap[a][s].durable THEN NoSnapshot ELSE snap[a][s]]]
    BY DEF PowerLoss
  <2>2. NoSnapshot \in Snapshot
    BY ContentFacts DEF NoSnapshot, Snapshot
  <2>3. \A a \in Try, s \in Step : snap[a][s] \in Snapshot
    BY DEF CkInv, CkTypeOK
  <2>4. QED
    BY <2>1, <2>2, <2>3
<1>3. \A a \in Try :
        /\ record'[a] \in Record
        /\ record'[a].last = record[a].last /\ record'[a].pin = record[a].pin
        /\ record'[a].state = IF record[a].state \in {"created", "running"} THEN "failed"
                              ELSE record[a].state
  BY CkParts DEF CkInv, PowerLoss, Record
<1>4. \A a \in Try :
        /\ resume'[a] \in Resume
        /\ resume'[a].of = resume[a].of /\ resume'[a].pin = resume[a].pin
        /\ resume'[a].step = resume[a].step
        /\ resume'[a].weights = resume[a].weights
        /\ resume'[a].pc = IF record[a].state = "created" THEN "refused" ELSE resume[a].pc
  BY CkParts DEF CkInv, PowerLoss, Resume
<1>5. CkTypeOK'
  <2>1. record' \in [Try -> Record] /\ resume' \in [Try -> Resume]
    BY <1>3, <1>4 DEF PowerLoss
  <2>2. ckTask' \in [Try -> Recording]
    BY <1>1, ContentFacts, CheckpointResumeAssumption DEF NoTask, Recording
  <2>3. QED
    BY <1>1, <1>2, <2>1, <2>2 DEF CkInv, CkTypeOK
<1>6. PinsAreDurable'
  <2>1. \A a \in Try : ckTask'[a].pc = "idle"
    BY <1>1 DEF NoTask
  <2>2. \A a \in Try, s \in Nat, p \in Content : Lasting(a, s, p) => Lasting(a, s, p)'
    BY <1>1, <1>2, CkParts DEF Lasting, CkInv
  <2>3. QED
    BY <1>1, <1>3, <2>1, <2>2, CkParts DEF CkInv, PinsAreDurable, Record, Held
<1>7. ResumesArePinned'
  <2>1. \A b \in Try : record[b].state \in {"failed", "killed"} =>
          record'[b].state \in {"failed", "killed"} /\ record'[b].pin = record[b].pin
    BY <1>3
  <2>2. \A a \in Try : resume[a] \in Resume /\ (resume[a].of = 0 \/ resume[a].of \in Try)
    BY CkParts DEF CkInv, Resume
  <2>3. ASSUME NEW a \in Try, resume'[a].pc # "refused"
        PROVE  resume'[a].pc = resume[a].pc /\ record[a].state # "created"
    BY <1>4, <2>3
  <2>4. ASSUME NEW a \in Try, resume'[a].of # 0,
               resume'[a].pc \in {"copy", "copy_manifest", "check", "ready"}
        PROVE  /\ record'[resume'[a].of].state \in {"failed", "killed"}
               /\ resume'[a].pin = record'[resume'[a].of].pin /\ resume'[a].step # 0
    BY <1>4, <2>1, <2>2, <2>3, <2>4 DEF CkInv, ResumesArePinned
  <2>5. ASSUME NEW a \in Try
        PROVE  /\ record'[a].state = "none" => resume'[a].pc = "none"
               /\ resume'[a].pc = "none" => resume'[a].of = 0
               /\ resume'[a].pc \in {"verify", "copy", "copy_manifest", "check"} =>
                    record'[a].state = "created"
               /\ resume'[a].of = 0 =>
                    resume'[a].weights = Absent /\ resume'[a].pc \in {"none", "ready", "refused"}
               /\ resume'[a].pc = "ready" /\ resume'[a].of # 0 =>
                    resume'[a].weights = resume'[a].pin
    BY <1>3, <1>4, <2>2 DEF CkInv, ResumesArePinned
  <2>6. ASSUME NEW a \in Try, trained'[a] # Absent
        PROVE  /\ record'[a].state \notin {"none", "created"} /\ resume'[a].pc = "ready"
               /\ trained'[a] = resume'[a].weights
    BY <1>1, <1>3, <1>4, <2>6 DEF CkInv, ResumesArePinned
  <2>7. QED
    BY <2>4, <2>5, <2>6 DEF ResumesArePinned
<1>8. QED
  BY <1>5, <1>6, <1>7 DEF CkInv

\* Damage is counted, and takes no file away.
LEMMA DamageInv ==
  ASSUME CkInv, NEW a \in Try, NEW s \in Step, Damage(a, s)
  PROVE  CkInv'
<1> DEFINE w == [snap[a][s] EXCEPT !.weights = Harmed(harm')]
           m == [snap[a][s] EXCEPT !.manifest = Harmed(harm')]
<1>1. harm' = harm + 1 /\ harm' \in Nat /\ harm' # 0 /\ Harmed(harm') \in Content
      /\ snap[a][s] \in Snapshot
  BY CkParts, ContentFacts DEF CkInv, Damage
<1>2. /\ w \in Snapshot /\ w.durable = snap[a][s].durable
      /\ m \in Snapshot /\ m.durable = snap[a][s].durable
  BY <1>1 DEF Snapshot
<1>3. SnapGoes(a, s, w) \/ SnapGoes(a, s, m)
  BY DEF Damage, SnapGoes
<1>4. UNCHANGED <<record, held, stepsSaved, ckTask, resume, trained>>
  BY DEF Damage
<1> HIDE DEF w, m
<1>5. /\ snap' \in [Try -> [Step -> Snapshot]]
      /\ \A b \in Try, u \in Step : snap'[b][u].durable = snap[b][u].durable
  BY <1>2, <1>3, SnapChanges DEF CkInv
<1>6. CkTypeOK'
  BY <1>1, <1>4, <1>5 DEF CkInv, CkTypeOK
<1>7. PinsAreDurable'
  BY <1>1, <1>4, <1>5 DEF CkInv, PinsAreDurable, Lasting
<1>8. ResumesArePinned'
  BY <1>4 DEF CkInv, ResumesArePinned
<1>9. QED
  BY <1>6, <1>7, <1>8 DEF CkInv

\* Every step keeps the invariant: one case for each action.
LEMMA CkNextInv == CkInv /\ [CkNext]_ckVars => CkInv'
<1> SUFFICES ASSUME CkInv, [CkNext]_ckVars PROVE CkInv'
  OBVIOUS
<1>1. CASE PowerLoss
  BY <1>1, PowerLossInv
<1>2. ASSUME NEW a \in Try, Save(a) PROVE CkInv'
  BY <1>2, SaveInv
<1>3. ASSUME NEW a \in Try, \E s \in Step : RecordBegins(a, s) PROVE CkInv'
  BY <1>3, RecordBeginsInv
<1>4. ASSUME NEW a \in Try, RecordFails(a) PROVE CkInv'
  BY <1>4, RecordFailsInv
<1>5. ASSUME NEW a \in Try, CopyWeights(a) PROVE CkInv'
  BY <1>5, CopyWeightsInv
<1>6. ASSUME NEW a \in Try, WriteManifest(a) PROVE CkInv'
  BY <1>6, WriteManifestInv
<1>7. ASSUME NEW a \in Try, HashManifest(a) PROVE CkInv'
  BY <1>7, HashManifestInv
<1>8. ASSUME NEW a \in Try, SyncSnapshot(a) PROVE CkInv'
  BY <1>8, SyncSnapshotInv
<1>9. ASSUME NEW a \in Try, Pin(a) PROVE CkInv'
  BY <1>9, PinInv
<1>10. ASSUME NEW a \in Try, \E state \in {"failed", "killed", "exited_ok"} : TryEnds(a, state)
       PROVE  CkInv'
  BY <1>10, TryEndsInv
<1>11. ASSUME NEW a \in Try, Create(a) PROVE CkInv'
  BY <1>11, CreateInv
<1>12. ASSUME NEW a \in Try, \E src \in Try : CreateResumed(a, src) PROVE CkInv'
  BY <1>12, CreateResumedInv
<1>13. ASSUME NEW a \in Try, Prepare(a) PROVE CkInv'
  BY <1>13, PrepareInv
<1>14. ASSUME NEW a \in Try, CopyOrigin(a) PROVE CkInv'
  BY <1>14, CopyOriginInv
<1>15. ASSUME NEW a \in Try, CopyOriginManifest(a) PROVE CkInv'
  BY <1>15, CopyOriginManifestInv
<1>16. ASSUME NEW a \in Try, CheckCopy(a) PROVE CkInv'
  BY <1>16, CheckCopyInv
<1>17. ASSUME NEW a \in Try, Run(a) PROVE CkInv'
  BY <1>17, RunInv
<1>18. ASSUME NEW a \in Try, \E s \in Step : Damage(a, s) PROVE CkInv'
  BY <1>18, DamageInv
<1>19. CASE UNCHANGED ckVars
  BY <1>19 DEF ckVars, CkInv, CkTypeOK, PinsAreDurable, Lasting, ResumesArePinned
<1>20. QED
  BY <1>1, <1>2, <1>3, <1>4, <1>5, <1>6, <1>7, <1>8, <1>9, <1>10, <1>11, <1>12, <1>13, <1>14,
     <1>15, <1>16, <1>17, <1>18, <1>19 DEF CkNext

\* The invariant holds throughout.
THEOREM CkInvariant == CkSpec => []CkInv
BY CkInitInv, CkNextInv, PTL DEF CkSpec

\* CheckpointsAreGenuine: a resumed trainer starts from exactly the weights its
\* source's record pinned, and a record never names a snapshot that a power loss
\* could take (record_checkpoint, prepare_resume).
THEOREM CheckpointsAreAlwaysGenuine == CkSpec => []CheckpointsAreGenuine
<1>1. CkInv => CheckpointsAreGenuine
  BY CkParts, CheckpointResumeAssumption
  DEF CkInv, PinsAreDurable, Lasting, ResumesArePinned, NoSnapshot, CheckpointsAreGenuine, Resume
<1>2. QED
  BY <1>1, CkInvariant, PTL

-----------------------------------------------------------------------------
\* Downloads and uploads of models, for any repos, tasks and uploads.

Bytes == [RepoFiles -> Repo \cup {"absent", "partial"}]
Status == [state : {"none", "downloading", "done", "error"}, total : 0..MaxFile, done : Nat]
TaskState == [pc : {"off", "list", "fetch", "curl", "over"}, repo : Repo \cup {"none"},
              total : 0..MaxFile, at : Nat]
UploadState == [pc : {"idle", "put", "ok", "error"}, dir : Slugs \cup {"none"}, at : Nat]

HubTypeOK ==
  /\ download \in [Repo -> Status] /\ task \in [HubTask -> TaskState]
  /\ local \in [Slugs -> Bytes] /\ bucket \in [Slugs -> Bytes]
  /\ upload \in [HubUpload -> UploadState]
  /\ registry \in [Slugs -> [named : BOOLEAN, versions : Nat]]
  /\ hubOverlapped \subseteq HubUpload

\* A task at work is the only one of its repo, and its repo is shown as loading.
AtWork(t) == task[t].pc \in {"list", "fetch", "curl"}

TasksAgree ==
  \A t \in HubTask : AtWork(t) =>
    /\ task[t].repo \in Repo /\ download[task[t].repo].state = "downloading"
    /\ \A u \in HubTask : AtWork(u) /\ task[u].repo = task[t].repo => u = t

\* The status of a repo counts what its task has fetched, and that is whole on disk.
Counts(d, w) ==
  /\ w.pc = "list" => d.total = 0 /\ d.done = 0
  /\ w.pc \in {"fetch", "curl"} => d.total = w.total /\ w.at = d.done + 1 /\ d.done <= d.total
  /\ w.pc = "curl" => d.done < d.total

Whole(dirs, r, n) == \A i \in 1..n : dirs[Slug[r]][i] = r

CountsAgree ==
  \A t \in HubTask : AtWork(t) =>
    LET r == task[t].repo IN
    /\ Counts(download[r], task[t])
    /\ Alone(r) => Whole(local, r, download[r].done)

\* No task writes into the directory of an upload that nothing overlapped; what
\* it has put of a finished download is in the store.
Stored(u) ==
  \A r \in Repo : upload[u].dir = Slug[r] /\ Alone(r) /\ download[r].state = "done" =>
    \A i \in 1..download[r].total : i < upload[u].at => bucket[Slug[r]][i] = r

UploadsAgree ==
  \A u \in HubUpload : upload[u].pc \in {"put", "ok"} =>
    /\ upload[u].dir \in Slugs /\ upload[u].at \in 1..(MaxFile + 1)
    /\ upload[u].pc = "ok" => upload[u].at > MaxFile
    /\ u \notin hubOverlapped =>
         /\ \A t \in HubTask : AtWork(t) => Slug[task[t].repo] # upload[u].dir
         /\ Stored(u)

HubInv == HubTypeOK /\ TasksAgree /\ CountsAgree /\ DoneIsWhole /\ UploadsAgree

-----------------------------------------------------------------------------
\* A status that is updated stays one, and the other ones stay as they are.
LEMMA UpdateKeeps ==
  ASSUME HubTypeOK, NEW r \in Repo, NEW s \in Status, Update(r, s), download[r].state # "none"
  PROVE  /\ download' \in [Repo -> Status] /\ download'[r] = s
         /\ \A q \in Repo : q # r => download'[q] = download[q]
BY DEF HubTypeOK, Update

\* The same of the state of a task.
LEMMA TaskKeeps ==
  ASSUME HubTypeOK, NEW t \in HubTask, NEW s \in TaskState, TaskGoes(t, s)
  PROVE  /\ task' \in [HubTask -> TaskState] /\ task'[t] = s
         /\ \A u \in HubTask : u # t => task'[u] = task[u]
BY DEF HubTypeOK, TaskGoes

\* One file of one directory is written: nothing else changes.
WrittenOver(dirs, new, d, i, b) ==
  /\ new \in [Slugs -> Bytes] /\ new[d][i] = b
  /\ \A e \in Slugs : e # d => new[e] = dirs[e]
  /\ \A j \in RepoFiles : j # i => new[d][j] = dirs[d][j]

LEMMA WriteKeeps ==
  ASSUME NEW dirs \in [Slugs -> Bytes], NEW d \in Slugs, NEW i \in RepoFiles,
         NEW b \in Repo \cup {"absent", "partial"}
  PROVE  WrittenOver(dirs, [dirs EXCEPT ![d][i] = b], d, i, b)
<1> DEFINE f == [dirs[d] EXCEPT ![i] = b]
           new == [dirs EXCEPT ![d] = f]
<1>1. dirs[d] \in Bytes /\ f \in Bytes /\ f[i] = b /\ \A j \in RepoFiles : j # i => f[j] = dirs[d][j]
  BY DEF Bytes
<1>2. [dirs EXCEPT ![d][i] = b] = new
  OBVIOUS
<1> HIDE DEF f
<1>3. new \in [Slugs -> Bytes] /\ new[d] = f /\ \A e \in Slugs : e # d => new[e] = dirs[e]
  BY <1>1
<1>4. WrittenOver(dirs, new, d, i, b)
  BY <1>1, <1>3 DEF WrittenOver
<1>5. QED
  BY <1>2, <1>4

\* What the parts of the states are, for a task at work.
LEMMA WorkFacts ==
  ASSUME HubInv, NEW t \in HubTask, AtWork(t)
  PROVE  /\ task[t] \in TaskState /\ task[t].repo \in Repo /\ Slug[task[t].repo] \in Slugs
         /\ download[task[t].repo] \in Status
         /\ download[task[t].repo].state = "downloading"
         /\ \A u \in HubTask : AtWork(u) /\ u # t => task[u].repo # task[t].repo
BY DEF HubInv, HubTypeOK, TasksAgree, Slugs

\* At the start nothing is downloaded or uploaded.
LEMMA HubInitInv == HubInit => HubInv
<1> SUFFICES ASSUME HubInit PROVE HubInv
  OBVIOUS
<1>1. HubTypeOK
  BY ModelHubAssumption DEF HubInit, HubTypeOK, Status, TaskState, UploadState, NoDownload,
     NoFetch, NoUpload, NoFiles, Bytes
<1>2. TasksAgree /\ CountsAgree /\ DoneIsWhole /\ UploadsAgree
  BY DEF HubInit, TasksAgree, CountsAgree, DoneIsWhole, UploadsAgree, AtWork, NoDownload,
     NoFetch, NoUpload
<1>3. QED
  BY <1>1, <1>2 DEF HubInv

\* A download begins: its repo had no task at work.
LEMMA DownloadInv ==
  ASSUME HubInv, NEW t \in HubTask, NEW r \in Repo, Download(t, r)
  PROVE  HubInv'
<1> DEFINE s == [state |-> "downloading", total |-> 0, done |-> 0]
           w == [NoFetch EXCEPT !.pc = "list", !.repo = r]
<1>1. s \in Status /\ w \in TaskState /\ w.pc = "list" /\ w.repo = r
  <2>1. NoFetch \in TaskState
    BY ModelHubAssumption DEF NoFetch, TaskState
  <2>2. w \in TaskState /\ w.pc = "list" /\ w.repo = r
    BY <2>1 DEF TaskState
  <2>3. QED
    BY <2>2, ModelHubAssumption DEF Status
<1>2. /\ download' \in [Repo -> Status] /\ download'[r] = s
      /\ \A q \in Repo : q # r => download'[q] = download[q]
  BY <1>1 DEF HubInv, HubTypeOK, Download
<1>3. /\ task' \in [HubTask -> TaskState] /\ task'[t] = w
      /\ \A u \in HubTask : u # t => task'[u] = task[u]
  BY <1>1, TaskKeeps DEF HubInv, Download
<1>4. UNCHANGED <<local, upload, bucket, registry>> /\ hubOverlapped' \subseteq HubUpload
      /\ \A u \in HubUpload : u \notin hubOverlapped' => u \notin hubOverlapped /\ upload[u].dir # Slug[r]
  BY DEF HubInv, HubTypeOK, Download, Reading
<1>5. \A u \in HubTask : AtWork(u) => u # t /\ task[u].repo # r
  BY WorkFacts DEF Download, MayDownload, AtWork
<1> HIDE DEF s, w
<1>6. HubTypeOK'
  BY <1>2, <1>3, <1>4 DEF HubInv, HubTypeOK
<1>7. TasksAgree'
  BY <1>1, <1>2, <1>3, <1>5 DEF HubInv, TasksAgree, AtWork, s
<1>8. CountsAgree'
  BY <1>1, <1>2, <1>3, <1>4, <1>5 DEF HubInv, TasksAgree, CountsAgree, Counts, Whole, AtWork, s
<1>9. DoneIsWhole'
  BY <1>2, <1>4, ModelHubAssumption DEF HubInv, DoneIsWhole, Alone, s
<1>10. UploadsAgree'
  BY <1>1, <1>2, <1>3, <1>4, <1>5 DEF HubInv, UploadsAgree, Stored, AtWork, Alone, s
<1>11. QED
  BY <1>6, <1>7, <1>8, <1>9, <1>10 DEF HubInv

\* A task that goes on keeps the invariant when the new status of its repo
\* counts what it has fetched and is done only when every file is there: it
\* writes into its own directory alone.
LEMMA TaskGoesOn ==
  ASSUME HubInv, NEW t \in HubTask, AtWork(t),
         NEW r \in Repo, r = task[t].repo, NEW s \in Status, NEW w \in TaskState,
         Update(r, s), TaskGoes(t, w), w.repo = r, local' \in [Slugs -> Bytes],
         \A e \in Slugs : e # Slug[r] => local'[e] = local[e],
         UNCHANGED <<upload, bucket, registry, hubOverlapped>>,
         w.pc # "over" => s.state = "downloading" /\ w.pc \in {"fetch", "curl"},
         Counts(s, w), s.done <= s.total, Alone(r) => Whole(local', r, s.done),
         s.state = "done" => s.done = s.total
  PROVE  HubInv'
<1>1. /\ Slug[r] \in Slugs /\ download[r].state = "downloading"
      /\ \A u \in HubTask : AtWork(u) /\ u # t => task[u].repo # r
  BY WorkFacts
<1>2. /\ download' \in [Repo -> Status] /\ download'[r] = s
      /\ \A q \in Repo : q # r => download'[q] = download[q]
  BY <1>1, UpdateKeeps DEF HubInv
<1>3. /\ task' \in [HubTask -> TaskState] /\ task'[t] = w
      /\ \A u \in HubTask : u # t => task'[u] = task[u]
  BY TaskKeeps DEF HubInv
<1>4. HubTypeOK'
  BY <1>2, <1>3 DEF HubInv, HubTypeOK
<1>5. TasksAgree'
  BY <1>1, <1>2, <1>3 DEF HubInv, TasksAgree, AtWork
<1>6. \A q \in Repo : Alone(q) /\ q # r => Slug[q] \in Slugs /\ local'[Slug[q]] = local[Slug[q]]
  BY DEF Alone, Slugs
<1>7. CountsAgree'
  <2> SUFFICES ASSUME NEW u \in HubTask, AtWork(u)', NEW q \in Repo, q = task'[u].repo
               PROVE  Counts(download[q], task[u])' /\ (Alone(q) => Whole(local', q, download[q].done'))
    BY <1>5 DEF CountsAgree, TasksAgree, Alone
  <2>1. CASE u = t
    BY <1>2, <1>3, <2>1 DEF Counts, Whole
  <2>2. CASE u # t
    BY <1>1, <1>2, <1>3, <1>6, <2>2 DEF HubInv, CountsAgree, Counts, Whole, AtWork
  <2>3. QED
    BY <2>1, <2>2
<1>8. DoneIsWhole'
  BY <1>2, <1>6 DEF HubInv, DoneIsWhole, Alone, Whole
<1>9. UploadsAgree'
  BY <1>1, <1>2, <1>3 DEF HubInv, UploadsAgree, Stored, AtWork, Alone
<1>10. QED
  BY <1>4, <1>5, <1>7, <1>8, <1>9 DEF HubInv

\* The file list arrives.
LEMMA ListFilesInv ==
  ASSUME HubInv, NEW t \in HubTask, NEW n \in 0..MaxFile, ListFiles(t, n)
  PROVE  HubInv'
<1> DEFINE r == task[t].repo
           s == [download[r] EXCEPT !.total = n]
           w == [task[t] EXCEPT !.pc = "fetch", !.total = n, !.at = 1]
<1>1. /\ AtWork(t) /\ r \in Repo /\ task[t] \in TaskState
      /\ download[r] \in Status /\ download[r].state = "downloading"
  BY WorkFacts DEF ListFiles, AtWork
<1>2. download[r].done = 0
  BY <1>1 DEF HubInv, CountsAgree, Counts, ListFiles
<1>3. /\ s \in Status /\ s.state = "downloading" /\ s.total = n /\ s.done = 0
      /\ w \in TaskState /\ w.pc = "fetch" /\ w.repo = r /\ w.total = n /\ w.at = 1
  <2>1. s \in Status /\ s.state = "downloading" /\ s.total = n /\ s.done = 0
    BY <1>1, <1>2 DEF Status
  <2>2. w \in TaskState
    BY <1>1 DEF TaskState
  <2>3. w.pc = "fetch" /\ w.repo = r /\ w.total = n /\ w.at = 1
    BY <1>1 DEF TaskState
  <2>4. QED
    BY <2>1, <2>2, <2>3
<1>4. /\ UNCHANGED <<local, upload, bucket, registry, hubOverlapped>>
      /\ Update(r, s) /\ TaskGoes(t, w)
  BY DEF ListFiles
<1> HIDE DEF r, s, w
<1>5. Counts(s, w) /\ Whole(local', r, s.done)
  BY <1>3 DEF Counts, Whole
<1>6. QED
  BY <1>1, <1>3, <1>4, <1>5, TaskGoesOn DEF HubInv, HubTypeOK, r

\* A file is being written: it is none that was counted.
LEMMA FetchInv ==
  ASSUME HubInv, NEW t \in HubTask, Fetch(t)
  PROVE  HubInv'
<1> DEFINE r == task[t].repo
           i == task[t].at
           s == download[r]
           w == [task[t] EXCEPT !.pc = "curl"]
<1>1. /\ AtWork(t) /\ r \in Repo /\ task[t] \in TaskState /\ Slug[r] \in Slugs
      /\ s \in Status /\ s.state = "downloading"
  BY WorkFacts DEF Fetch, AtWork
<1>2. /\ s.total = task[t].total /\ i = s.done + 1 /\ i <= task[t].total
      /\ Alone(r) => Whole(local, r, s.done)
  BY <1>1 DEF HubInv, CountsAgree, Counts, Fetch
<1>3. /\ w \in TaskState /\ w.pc = "curl" /\ w.repo = r /\ w.total = task[t].total
      /\ w.at = task[t].at
  BY <1>1 DEF TaskState
<1>4. s.total \in 0..MaxFile /\ s.done \in Nat /\ i \in RepoFiles
  BY <1>1, <1>2, ModelHubAssumption DEF Status, RepoFiles
<1>5. /\ UNCHANGED <<download, upload, bucket, registry, hubOverlapped>>
      /\ local' = [local EXCEPT ![Slug[r]][i] = "partial"] /\ TaskGoes(t, w)
  BY DEF Fetch
<1>6. Update(r, s)
  BY <1>5 DEF Update, HubInv, HubTypeOK
<1> HIDE DEF r, i, s, w
<1>7. /\ local' \in [Slugs -> Bytes] /\ \A e \in Slugs : e # Slug[r] => local'[e] = local[e]
      /\ \A j \in RepoFiles : j # i => local'[Slug[r]][j] = local[Slug[r]][j]
  <2>1. local \in [Slugs -> Bytes]
    BY DEF HubInv, HubTypeOK
  <2>2. WrittenOver(local, local', Slug[r], i, "partial")
    BY <1>1, <1>4, <1>5, <2>1, WriteKeeps
  <2>3. QED
    BY <2>2 DEF WrittenOver
<1>8. Counts(s, w) /\ s.done <= s.total
  BY <1>2, <1>3, <1>4 DEF Counts, i
<1>9. Alone(r) => Whole(local', r, s.done)
  BY <1>2, <1>4, <1>5, <1>7, ModelHubAssumption DEF Whole, RepoFiles
<1>10. QED
  BY <1>1, <1>2, <1>3, <1>4, <1>5, <1>6, <1>7, <1>8, <1>9, TaskGoesOn DEF r

\* A file is whole, and is counted.
LEMMA FetchedInv ==
  ASSUME HubInv, NEW t \in HubTask, Fetched(t)
  PROVE  HubInv'
<1> DEFINE r == task[t].repo
           i == task[t].at
           s == [download[r] EXCEPT !.done = @ + 1]
           w == [task[t] EXCEPT !.pc = "fetch", !.at = @ + 1]
<1>1. /\ AtWork(t) /\ r \in Repo /\ task[t] \in TaskState /\ Slug[r] \in Slugs
      /\ download[r] \in Status /\ download[r].state = "downloading"
  BY WorkFacts DEF Fetched, AtWork
<1>2. /\ download[r].total = task[t].total /\ i = download[r].done + 1
      /\ download[r].done < download[r].total
      /\ Alone(r) => Whole(local, r, download[r].done)
  BY <1>1 DEF HubInv, CountsAgree, Counts, Fetched
<1>3. download[r].total \in 0..MaxFile /\ download[r].done \in Nat /\ i \in RepoFiles
  BY <1>1, <1>2, ModelHubAssumption DEF Status, RepoFiles
<1>4. /\ s \in Status /\ s.state = "downloading" /\ s.total = download[r].total
      /\ s.done = i
  BY <1>1, <1>2, <1>3 DEF Status
<1>5. /\ w \in TaskState /\ w.pc = "fetch" /\ w.repo = r /\ w.total = task[t].total
      /\ w.at = i + 1
  <2>1. i + 1 \in Nat
    BY <1>2, <1>3
  <2>2. QED
    BY <1>1, <2>1 DEF TaskState
<1>6. /\ UNCHANGED <<upload, bucket, registry, hubOverlapped>>
      /\ local' = [local EXCEPT ![Slug[r]][i] = r] /\ Update(r, s) /\ TaskGoes(t, w)
  BY DEF Fetched
<1> HIDE DEF r, i, s, w
<1>7. /\ local' \in [Slugs -> Bytes] /\ \A e \in Slugs : e # Slug[r] => local'[e] = local[e]
      /\ local'[Slug[r]][i] = r
      /\ \A j \in RepoFiles : j # i => local'[Slug[r]][j] = local[Slug[r]][j]
  <2>1. local \in [Slugs -> Bytes]
    BY DEF HubInv, HubTypeOK
  <2>2. WrittenOver(local, local', Slug[r], i, r)
    BY <1>1, <1>3, <1>6, <2>1, WriteKeeps
  <2>3. QED
    BY <2>2 DEF WrittenOver
<1>8. Counts(s, w) /\ s.done <= s.total
  BY <1>2, <1>3, <1>4, <1>5 DEF Counts
<1>9. Alone(r) => Whole(local', r, s.done)
  BY <1>2, <1>3, <1>4, <1>6, <1>7, ModelHubAssumption DEF Whole, RepoFiles
<1>10. QED
  BY <1>1, <1>4, <1>5, <1>6, <1>7, <1>8, <1>9, TaskGoesOn DEF r

\* A task ends, with an error or with every file.
LEMMA TaskEnds ==
  ASSUME HubInv, NEW t \in HubTask, AtWork(t), NEW r \in Repo, r = task[t].repo,
         NEW st \in {"error", "done"}, st = "done" => AllFetched(t),
         Update(r, [download[r] EXCEPT !.state = st]), TaskGoes(t, [task[t] EXCEPT !.pc = "over"]),
         UNCHANGED <<local, upload, bucket, registry, hubOverlapped>>
  PROVE  HubInv'
<1> DEFINE s == [download[r] EXCEPT !.state = st]
           w == [task[t] EXCEPT !.pc = "over"]
<1>1. task[t] \in TaskState /\ download[r] \in Status
  BY WorkFacts
<1>2. /\ download[r].done <= download[r].total
      /\ Alone(r) => Whole(local, r, download[r].done)
      /\ AllFetched(t) => download[r].done = download[r].total
  BY <1>1 DEF HubInv, CountsAgree, Counts, AllFetched, Status, AtWork
<1>3. /\ s \in Status /\ s.state = st /\ s.total = download[r].total /\ s.done = download[r].done
      /\ w \in TaskState /\ w.pc = "over" /\ w.repo = r
  BY <1>1 DEF Status, TaskState
<1> HIDE DEF s, w
<1>4. Counts(s, w) /\ s.done <= s.total /\ (Alone(r) => Whole(local', r, s.done))
  BY <1>2, <1>3 DEF Counts
<1>5. st = "done" => s.done = s.total
  BY <1>2, <1>3
<1>6. Update(r, s) /\ TaskGoes(t, w) /\ local' \in [Slugs -> Bytes]
  BY DEF HubInv, HubTypeOK, s, w
<1>7. QED
  BY <1>1, <1>3, <1>4, <1>5, <1>6, TaskGoesOn

LEMMA DownloadFailsInv ==
  ASSUME HubInv, NEW t \in HubTask, DownloadFails(t)
  PROVE  HubInv'
<1>1. AtWork(t) /\ task[t].repo \in Repo
  BY WorkFacts DEF DownloadFails, AtWork
<1>2. QED
  BY <1>1, TaskEnds DEF DownloadFails

LEMMA DownloadEndsInv ==
  ASSUME HubInv, NEW t \in HubTask, DownloadEnds(t)
  PROVE  HubInv'
<1>1. AtWork(t) /\ task[t].repo \in Repo
  BY WorkFacts DEF DownloadEnds, AllFetched, AtWork
<1>2. QED
  BY <1>1, TaskEnds DEF DownloadEnds

\* An upload begins: it has put nothing, and is marked where a task is at work.
LEMMA UploadInv ==
  ASSUME HubInv, NEW u \in HubUpload, NEW r \in Repo, Upload(u, r)
  PROVE  HubInv'
<1> DEFINE w == [pc |-> "put", dir |-> Slug[r], at |-> 1]
<1>1. /\ UNCHANGED <<download, task, local, bucket, registry>>
      /\ upload' = [upload EXCEPT ![u] = w] /\ w \in UploadState
      /\ hubOverlapped' \subseteq HubUpload /\ hubOverlapped \subseteq hubOverlapped'
      /\ u \notin hubOverlapped' => Writers(Slug[r]) = {}
  BY DEF HubInv, HubTypeOK, Upload, UploadState, Slugs
<1>2. HubTypeOK'
  BY <1>1 DEF HubInv, HubTypeOK
<1>3. TasksAgree' /\ CountsAgree' /\ DoneIsWhole'
  BY <1>1 DEF HubInv, TasksAgree, CountsAgree, Whole, Alone, DoneIsWhole, AtWork
<1>4. \A v \in HubUpload : v # u => upload'[v] = upload[v]
  BY <1>1 DEF HubInv, HubTypeOK
<1>5. upload'[u] = w
  BY <1>1 DEF HubInv, HubTypeOK
<1>6. UploadsAgree'
  BY <1>1, <1>4, <1>5, ModelHubAssumption DEF HubInv, HubTypeOK, UploadsAgree, Stored, Writers,
     AtWork, Alone, Slugs
<1>7. QED
  BY <1>2, <1>3, <1>6 DEF HubInv

\* An upload puts one file: a whole one, where a finished download is.
LEMMA PutInv ==
  ASSUME HubInv, NEW u \in HubUpload, Put(u)
  PROVE  HubInv'
<1> DEFINE d == upload[u].dir
           i == upload[u].at
           w == [upload[u] EXCEPT !.at = i + 1]
<1>1. /\ upload[u] \in UploadState /\ upload[u].pc = "put" /\ d \in Slugs
      /\ i \in 1..(MaxFile + 1) /\ i <= MaxFile /\ i + 1 \in 1..(MaxFile + 1)
  BY ModelHubAssumption DEF HubInv, HubTypeOK, UploadsAgree, Put
<1>2. i \in RepoFiles /\ local[d] \in Bytes /\ local[d][i] \in Repo \cup {"absent", "partial"}
  BY <1>1, ModelHubAssumption DEF HubInv, HubTypeOK, Bytes, RepoFiles
<1>3. w \in UploadState /\ w.pc = "put" /\ w.dir = d /\ w.at = i + 1
  BY <1>1 DEF UploadState
<1>4. /\ UNCHANGED <<download, task, local, registry, hubOverlapped>>
      /\ upload' = [upload EXCEPT ![u] = w]
      /\ bucket' = IF local[d][i] = "absent" THEN bucket
                   ELSE [bucket EXCEPT ![d][i] = local[d][i]]
  BY DEF Put
<1> HIDE DEF w
<1>5. /\ upload' \in [HubUpload -> UploadState] /\ upload'[u] = w
      /\ \A v \in HubUpload : v # u => upload'[v] = upload[v]
  BY <1>3, <1>4 DEF HubInv, HubTypeOK
<1> HIDE DEF d, i
<1>6. /\ bucket' \in [Slugs -> Bytes]
      /\ local[d][i] # "absent" => bucket'[d][i] = local[d][i]
      /\ \A e \in Slugs, j \in RepoFiles : e # d \/ j # i => bucket'[e][j] = bucket[e][j]
  <2>1. bucket \in [Slugs -> Bytes]
    BY DEF HubInv, HubTypeOK
  <2>2. CASE local[d][i] = "absent"
    BY <1>4, <2>1, <2>2
  <2>3. CASE local[d][i] # "absent"
    <3>1. WrittenOver(bucket, bucket', d, i, local[d][i])
      BY <1>1, <1>2, <1>4, <2>1, <2>3, WriteKeeps
    <3>2. QED
      BY <3>1 DEF WrittenOver
  <2>4. QED
    BY <2>2, <2>3
<1>7. HubTypeOK'
  BY <1>4, <1>5, <1>6 DEF HubInv, HubTypeOK
<1>8. TasksAgree' /\ CountsAgree' /\ DoneIsWhole'
  BY <1>4 DEF HubInv, TasksAgree, CountsAgree, Whole, Alone, DoneIsWhole, AtWork
<1>9. UploadsAgree'
  <2> SUFFICES ASSUME NEW v \in HubUpload, upload'[v].pc \in {"put", "ok"}
               PROVE  /\ upload'[v].dir \in Slugs /\ upload'[v].at \in 1..(MaxFile + 1)
                      /\ upload'[v].pc = "ok" => upload'[v].at > MaxFile
                      /\ v \notin hubOverlapped =>
                           /\ \A t \in HubTask : AtWork(t) => Slug[task[t].repo] # upload'[v].dir
                           /\ Stored(v)'
    BY <1>4 DEF UploadsAgree, AtWork
  <2>1. /\ upload'[v].dir = upload[v].dir /\ upload'[v].pc = upload[v].pc
        /\ upload'[v].at = IF v = u THEN i + 1 ELSE upload[v].at
    BY <1>1, <1>3, <1>5 DEF d
  <2>2. ASSUME v \notin hubOverlapped PROVE Stored(v)'
    <3> SUFFICES ASSUME NEW r \in Repo, upload[v].dir = Slug[r], Alone(r),
                        download[r].state = "done", NEW j \in 1..download[r].total,
                        j < upload'[v].at
                 PROVE  bucket'[Slug[r]][j] = r
      BY <1>4, <2>1 DEF Stored, Alone
    <3>1. local[Slug[r]][j] = r /\ Slug[r] \in Slugs /\ j \in RepoFiles /\ r # "absent"
      BY ModelHubAssumption DEF HubInv, HubTypeOK, Status, DoneIsWhole, Slugs, RepoFiles
    <3>2. CASE Slug[r] = d /\ j = i
      BY <1>6, <3>1, <3>2
    <3>3. CASE Slug[r] # d \/ j # i
      <4>1. j < upload[v].at
        BY <1>1, <2>1, <3>1, <3>3 DEF d, i, RepoFiles
      <4>2. bucket[Slug[r]][j] = r
        BY <2>1, <2>2, <4>1 DEF HubInv, UploadsAgree, Stored
      <4>3. QED
        BY <1>6, <3>1, <3>3, <4>2
    <3>4. QED
      BY <3>2, <3>3
  <2>3. QED
    BY <1>1, <1>5, <2>1, <2>2 DEF HubInv, UploadsAgree, i
<1>10. QED
  BY <1>7, <1>8, <1>9 DEF HubInv

\* An upload is answered, with success only after its last file.
LEMMA UploadEndsInv ==
  ASSUME HubInv, NEW u \in HubUpload, NEW ok \in BOOLEAN, UploadEnds(u, ok)
  PROVE  HubInv'
<1> DEFINE w == [upload[u] EXCEPT !.pc = IF ok THEN "ok" ELSE "error"]
<1>1. upload[u] \in UploadState
  BY DEF HubInv, HubTypeOK
<1>2. /\ w \in UploadState /\ w.dir = upload[u].dir /\ w.at = upload[u].at
      /\ w.pc = IF ok THEN "ok" ELSE "error"
  BY <1>1 DEF UploadState
<1>3. /\ UNCHANGED <<download, task, local, bucket, registry, hubOverlapped>>
      /\ upload' = [upload EXCEPT ![u] = w] /\ upload[u].pc = "put"
      /\ ok => upload[u].at > MaxFile
  BY DEF UploadEnds
<1> HIDE DEF w
<1>4. /\ upload' \in [HubUpload -> UploadState] /\ upload'[u] = w
      /\ \A v \in HubUpload : v # u => upload'[v] = upload[v]
  BY <1>2, <1>3 DEF HubInv, HubTypeOK
<1>5. HubTypeOK'
  BY <1>3, <1>4 DEF HubInv, HubTypeOK
<1>6. TasksAgree' /\ CountsAgree' /\ DoneIsWhole'
  BY <1>3 DEF HubInv, TasksAgree, CountsAgree, Whole, Alone, DoneIsWhole, AtWork
<1>7. UploadsAgree'
  BY <1>2, <1>3, <1>4 DEF HubInv, UploadsAgree, Stored, AtWork, Alone
<1>8. QED
  BY <1>5, <1>6, <1>7 DEF HubInv

\* The answer of an upload has been shown.
LEMMA UploadForgottenInv ==
  ASSUME HubInv, NEW u \in HubUpload, UploadForgotten(u)
  PROVE  HubInv'
<1>1. UNCHANGED <<download, task, local, bucket, registry>>
  BY DEF UploadForgotten
<1>2. /\ upload' \in [HubUpload -> UploadState] /\ upload'[u].pc = "idle"
      /\ \A v \in HubUpload : v # u => upload'[v] = upload[v]
      /\ hubOverlapped' = hubOverlapped \ {u}
  <2>1. NoUpload \in UploadState /\ NoUpload.pc = "idle"
    BY DEF NoUpload, UploadState
  <2>2. QED
    BY <2>1 DEF HubInv, HubTypeOK, UploadForgotten
<1>3. HubTypeOK'
  BY <1>1, <1>2 DEF HubInv, HubTypeOK
<1>4. TasksAgree' /\ CountsAgree' /\ DoneIsWhole'
  BY <1>1 DEF HubInv, TasksAgree, CountsAgree, Whole, Alone, DoneIsWhole, AtWork
<1>5. UploadsAgree'
  BY <1>1, <1>2 DEF HubInv, UploadsAgree, Stored, AtWork, Alone
<1>6. QED
  BY <1>3, <1>4, <1>5 DEF HubInv

\* A model is registered: no status, file or upload changes.
LEMMA RegisterInv ==
  ASSUME HubInv, NEW r \in Repo, NEW both \in BOOLEAN, Register(r, both)
  PROVE  HubInv'
<1>1. UNCHANGED <<download, task, local, upload, bucket, hubOverlapped>>
  BY DEF Register
<1>2. HubTypeOK'
  <2> DEFINE d == Slug[r]
             v == registry[d].versions + IF both THEN 1 ELSE 0
  <2>1. v \in Nat
    BY DEF HubInv, HubTypeOK, Slugs
  <2>2. registry' \in [Slugs -> [named : BOOLEAN, versions : Nat]]
    BY <2>1 DEF HubInv, HubTypeOK, Register
  <2>3. QED
    BY <1>1, <2>2 DEF HubInv, HubTypeOK
<1>3. TasksAgree' /\ CountsAgree' /\ DoneIsWhole' /\ UploadsAgree'
  BY <1>1 DEF HubInv, TasksAgree, CountsAgree, Whole, Alone, DoneIsWhole, UploadsAgree, Stored,
     AtWork
<1>4. QED
  BY <1>2, <1>3 DEF HubInv

\* Every step keeps the invariant: one case for each action.
LEMMA HubNextInv == HubInv /\ [HubNext]_hubVars => HubInv'
<1> SUFFICES ASSUME HubInv, [HubNext]_hubVars PROVE HubInv'
  OBVIOUS
<1>1. ASSUME NEW t \in HubTask, \E r \in Repo : Download(t, r) PROVE HubInv'
  BY <1>1, DownloadInv
<1>2. ASSUME NEW t \in HubTask, \E n \in 0..MaxFile : ListFiles(t, n) PROVE HubInv'
  BY <1>2, ListFilesInv
<1>3. ASSUME NEW t \in HubTask, Fetch(t) PROVE HubInv'
  BY <1>3, FetchInv
<1>4. ASSUME NEW t \in HubTask, Fetched(t) PROVE HubInv'
  BY <1>4, FetchedInv
<1>5. ASSUME NEW t \in HubTask, DownloadFails(t) PROVE HubInv'
  BY <1>5, DownloadFailsInv
<1>6. ASSUME NEW t \in HubTask, DownloadEnds(t) PROVE HubInv'
  BY <1>6, DownloadEndsInv
<1>7. ASSUME NEW u \in HubUpload, \E r \in Repo : Upload(u, r) PROVE HubInv'
  BY <1>7, UploadInv
<1>8. ASSUME NEW u \in HubUpload, Put(u) PROVE HubInv'
  BY <1>8, PutInv
<1>9. ASSUME NEW u \in HubUpload, UploadForgotten(u) PROVE HubInv'
  BY <1>9, UploadForgottenInv
<1>10. ASSUME NEW u \in HubUpload, \E ok \in BOOLEAN : UploadEnds(u, ok) PROVE HubInv'
  BY <1>10, UploadEndsInv
<1>11. ASSUME \E r \in Repo, both \in BOOLEAN : Register(r, both) PROVE HubInv'
  BY <1>11, RegisterInv
<1>12. CASE UNCHANGED hubVars
  BY <1>12 DEF hubVars, HubInv, HubTypeOK, TasksAgree, CountsAgree, Whole, Alone, DoneIsWhole,
     UploadsAgree, Stored, AtWork
<1>13. QED
  BY <1>1, <1>2, <1>3, <1>4, <1>5, <1>6, <1>7, <1>8, <1>9, <1>10, <1>11, <1>12 DEF HubNext

\* The invariant holds throughout.
THEOREM HubInvariant == HubSpec => []HubInv
BY HubInitInv, HubNextInv, PTL DEF HubSpec

\* DownloadsAreWhole: a model shown as downloaded is whole on disk, and one
\* uploaded without a download meanwhile is whole in the store
\* (run_download_inner, upload_model_to_storage).
THEOREM DownloadsAreAlwaysWhole == HubSpec => []DownloadsAreWhole
<1>1. HubInv => UploadIsWhole
  <2> SUFFICES ASSUME HubInv, NEW u \in HubUpload, NEW r \in Repo, upload[u].pc = "ok",
                      u \notin hubOverlapped, upload[u].dir = Slug[r], Alone(r),
                      download[r].state = "done", NEW i \in 1..download[r].total
               PROVE  bucket[Slug[r]][i] = r
    BY DEF UploadIsWhole
  <2>1. upload[u].at \in 1..(MaxFile + 1) /\ upload[u].at > MaxFile /\ Stored(u)
    BY DEF HubInv, UploadsAgree
  <2>2. download[r].total \in 0..MaxFile
    BY DEF HubInv, HubTypeOK, Status
  <2>3. i < upload[u].at
    BY <2>1, <2>2, ModelHubAssumption
  <2> QED
    BY <2>1, <2>3 DEF Stored
<1>2. HubInv => DownloadsAreWhole
  BY <1>1 DEF HubInv, DownloadsAreWhole
<1>3. QED
  BY <1>2, HubInvariant, PTL

-----------------------------------------------------------------------------
\* Bundles and their verification, for any logs, names and changes by others.

FileKind == {"absent", "own", "long", "other", "link"}
BundleFiles == [Name -> FileKind]
Manifest == [files : BundleFiles, omitted : SUBSET (Log \cup {"logs/", "none"})]
Generator == [pc : {"idle", "write", "ok", "failed"}, at : Nat, todo : SUBSET Log,
              omitted : SUBSET (Log \cup {"logs/"}), files : BundleFiles, seen : SUBSET Log]
Verifier == [pc : {"idle", "files", "pass", "fail"}, pinned : BOOLEAN, found : Manifest,
             todo : SUBSET Name, bad : BOOLEAN, steady : BOOLEAN]

SbTypeOK ==
  /\ gen \in Generator /\ bundle \in BundleFiles /\ manifest \in Manifest /\ damages \in Nat
  /\ original \in [manifest : Manifest, bundle : BundleFiles] /\ verifier \in Verifier

\* Until it is finished the bundle holds what was written, and no manifest is
\* kept; a finished one was described as it was written, its fixed files first.
BundleIsListed ==
  /\ gen.pc \in {"idle", "write"} => bundle = gen.files /\ manifest = NoManifest
  /\ IF gen.pc = "ok"
     THEN /\ original.manifest.files = gen.files /\ original.manifest.omitted = gen.omitted
          /\ original.bundle = gen.files /\ gen.at > Len(Fixed) /\ gen.todo = {}
     ELSE original.manifest = NoManifest /\ original.bundle = NoBundle
  /\ gen.at # 0
  /\ \A i \in 1..Len(Fixed) : gen.files[Fixed[i]] = IF i < gen.at THEN "own" ELSE "absent"
  /\ \A n \in Log : gen.files[n] \in {"absent", "own", "long"}
  /\ gen.files[Extra] = "absent"

\* A log that was seen is written, left out or still to come, and only one of these.
LogsAreAccounted ==
  /\ \A n \in gen.seen : gen.files[n] # "absent" \/ n \in gen.omitted \cup gen.todo
  /\ \A n \in Log : gen.files[n] # "absent" => n \notin gen.omitted \cup gen.todo
  /\ gen.todo \cap gen.omitted = {}
  /\ gen.pc = "idle" => \A n \in Log : gen.files[n] = "absent"

\* What a verification of an unchanged bundle has found is there; with no fault
\* so far each file it went through is as listed.
FoundIsThere ==
  verifier.pc # "idle" /\ verifier.steady =>
    /\ verifier.found = manifest
    /\ \A n \in verifier.todo : verifier.pc = "files" => manifest.files[n] # "absent"
    /\ verifier.pc \in {"files", "pass"} /\ ~verifier.bad =>
         /\ verifier.pinned => manifest = original.manifest /\ manifest # NoManifest
         /\ \A n \in Name : manifest.files[n] # "absent" /\ n \notin verifier.todo =>
              bundle[n] = manifest.files[n]
    /\ verifier.pc = "pass" => ~verifier.bad /\ verifier.todo = {} /\ Unlisted(manifest) = {}

\* A fault of an unchanged bundle has one of these causes.
Fault ==
  \/ manifest = NoManifest \/ manifest # original.manifest
  \/ \E n \in Required : manifest.files[n] = "absent"
  \/ \E n \in Name : manifest.files[n] # "absent" /\ ~FileMatches(manifest, n, bundle[n])
  \/ Unlisted(manifest) # {}
  \/ \E n \in manifest.omitted \cap Name : manifest.files[n] # "absent"

BadHasCause ==
  verifier.steady /\ (verifier.pc = "fail" \/ (verifier.pc = "files" /\ verifier.bad)) => Fault

SbInv == SbTypeOK /\ BundleIsListed /\ LogsAreAccounted /\ FoundIsThere /\ BadHasCause

-----------------------------------------------------------------------------
\* The fixed names, the logs and the file nobody lists are told apart.
LEMMA NameFacts ==
  /\ Len(Fixed) \in Nat /\ \A i \in 1..Len(Fixed) : Fixed[i] \in FixedName
  /\ \A n \in FixedName : \E i \in 1..Len(Fixed) : n = Fixed[i]
  /\ FixedName \subseteq Name /\ Log \subseteq Name /\ Extra \in Name
  /\ \A n \in Name : n \in FixedName \/ n \in Log \/ n = Extra
  /\ \A n \in FixedName : n \notin Log /\ n # Extra
  /\ Extra \notin Log /\ Unsafe \subseteq Log
<1>1. Fixed \in Seq(STRING)
  BY SupportBundleAssumption
<1>2. Len(Fixed) \in Nat
  BY <1>1
<1>3. QED
  BY <1>2, SupportBundleAssumption DEF Name, FixedName

\* What the verifier and the manifest are made of.
LEMMA SbParts ==
  ASSUME SbTypeOK
  PROVE  /\ gen \in Generator /\ verifier \in Verifier /\ manifest \in Manifest
         /\ gen.files \in BundleFiles /\ manifest.files \in BundleFiles
         /\ verifier.todo \subseteq Name /\ NoManifest \in Manifest
<1>1. NoBundle \in BundleFiles
  BY DEF NoBundle, BundleFiles, FileKind
<1>2. NoManifest \in Manifest
  BY <1>1 DEF NoManifest, Manifest
<1>3. gen \in Generator /\ gen.files \in BundleFiles
  BY DEF SbTypeOK, Generator
<1>4. verifier \in Verifier /\ verifier.todo \subseteq Name
  BY DEF SbTypeOK, Verifier
<1>5. manifest \in Manifest /\ manifest.files \in BundleFiles
  <2>1. manifest \in Manifest
    BY DEF SbTypeOK
  <2>2. QED
    BY <2>1 DEF Manifest
<1>6. QED
  BY <1>2, <1>3, <1>4, <1>5

\* A verification that saw the directory change is held to nothing.
LEMMA UnsteadyInv ==
  ASSUME SbInv, Unsteadies
  PROVE  verifier' \in Verifier /\ FoundIsThere' /\ BadHasCause'
<1>1. verifier' \in Verifier /\ verifier'.steady = FALSE
  BY DEF SbInv, SbTypeOK, Verifier, Unsteadies
<1>2. QED
  BY <1>1 DEF FoundIsThere, BadHasCause

\* Nothing that a verification looks at changes.
LEMMA LookedAtInv ==
  ASSUME SbInv, UNCHANGED <<bundle, manifest, original, verifier>>
  PROVE  FoundIsThere' /\ BadHasCause'
BY DEF SbInv, FoundIsThere, BadHasCause, Fault, Unlisted, FileMatches

\* Nothing of the bundle changes.
LEMMA BundleStaysInv ==
  ASSUME SbInv, UNCHANGED <<gen, bundle, manifest, original>>
  PROVE  BundleIsListed' /\ LogsAreAccounted'
BY DEF SbInv, BundleIsListed, LogsAreAccounted

\* There is no bundle at the start.
LEMMA SbInitInv == SbInit => SbInv
<1> SUFFICES ASSUME SbInit PROVE SbInv
  OBVIOUS
<1>1. NoBundle \in BundleFiles /\ \A n \in Name : NoBundle[n] = "absent"
  BY DEF NoBundle, BundleFiles, FileKind
<1>2. NoManifest \in Manifest /\ NoManifest.files = NoBundle
  BY <1>1 DEF NoManifest, Manifest
<1>3. SbTypeOK
  <2>1. gen \in Generator
    BY <1>1 DEF SbInit, Generator
  <2>2. verifier \in Verifier
    BY <1>2 DEF SbInit, Verifier, NoVerifier
  <2>3. QED
    BY <1>1, <1>2, <2>1, <2>2 DEF SbInit, SbTypeOK
<1>4. BundleIsListed
  <2>1. gen.files = NoBundle /\ gen.pc = "idle" /\ gen.at = 1
    BY DEF SbInit
  <2>2. QED
    BY <1>1, <2>1, NameFacts DEF SbInit, BundleIsListed
<1>5. LogsAreAccounted
  <2>1. gen.files = NoBundle /\ gen.seen = {} /\ gen.todo = {}
    BY DEF SbInit
  <2>2. QED
    BY <1>1, <2>1, NameFacts DEF LogsAreAccounted
<1>6. FoundIsThere /\ BadHasCause
  BY DEF SbInit, NoVerifier, FoundIsThere, BadHasCause
<1>7. QED
  BY <1>3, <1>4, <1>5, <1>6 DEF SbInv

\* The logs are listed: each is still to come, left out or ignored.
LEMMA StartBundleInv ==
  ASSUME SbInv, NEW readable \in BOOLEAN, StartBundle(readable)
  PROVE  SbInv'
<1> DEFINE regular == IF readable THEN {n \in Log : logs[n] \notin {"link", "dir", "gone"}} ELSE {}
           links == IF readable THEN {n \in Log : logs[n] = "link"} ELSE {}
           omitted == IF readable THEN links ELSE {"logs/"}
<1>1. /\ gen \in Generator /\ gen.pc = "idle"
      /\ UNCHANGED <<bundle, manifest, original, verifier, damages>>
  BY SbParts DEF SbInv, StartBundle
<1>2. gen' = [gen EXCEPT !.pc = "write", !.todo = regular, !.seen = regular \cup links,
                         !.omitted = omitted]
  BY DEF StartBundle
<1>3. /\ regular \subseteq Log /\ links \subseteq Log /\ regular \cap links = {}
      /\ omitted \subseteq Log \cup {"logs/"} /\ links \subseteq omitted
      /\ regular \cap omitted = {} /\ regular \cup links \subseteq Log
  BY NameFacts, SupportBundleAssumption
<1> HIDE DEF regular, links, omitted
<1>4. /\ gen' \in Generator /\ gen'.pc = "write" /\ gen'.todo = regular
      /\ gen'.seen = regular \cup links /\ gen'.omitted = omitted
      /\ gen'.files = gen.files /\ gen'.at = gen.at
  BY <1>1, <1>2, <1>3 DEF Generator
<1>5. SbTypeOK'
  BY <1>1, <1>4 DEF SbInv, SbTypeOK
<1>6. BundleIsListed'
  BY <1>1, <1>4 DEF SbInv, BundleIsListed
<1>7. LogsAreAccounted'
  BY <1>1, <1>3, <1>4 DEF SbInv, LogsAreAccounted
<1>8. FoundIsThere' /\ BadHasCause'
  BY <1>1, LookedAtInv
<1>9. QED
  BY <1>5, <1>6, <1>7, <1>8 DEF SbInv

\* A file is written and described.
LEMMA WrittenFacts ==
  ASSUME SbInv, NEW n \in Name, NEW content \in FileKind, NEW source, Written(n, content, source)
  PROVE  /\ bundle' = [bundle EXCEPT ![n] = content] /\ bundle' \in BundleFiles
         /\ gen' \in Generator /\ gen'.files = [gen.files EXCEPT ![n] = content]
         /\ gen'.pc = gen.pc /\ gen'.at = gen.at + 1 /\ gen'.todo = gen.todo \ {n}
         /\ gen'.omitted = gen.omitted /\ gen'.seen = gen.seen
         /\ gen'.files[n] = content
         /\ \A m \in Name : m # n => gen'.files[m] = gen.files[m]
         /\ Unsteadies
<1> DEFINE f == [gen.files EXCEPT ![n] = content]
<1>1. gen \in Generator /\ gen.files \in BundleFiles /\ bundle \in BundleFiles
  BY SbParts DEF SbInv, SbTypeOK
<1>2. /\ f \in BundleFiles /\ [bundle EXCEPT ![n] = content] \in BundleFiles
      /\ f[n] = content /\ \A m \in Name : m # n => f[m] = gen.files[m]
  BY <1>1 DEF BundleFiles
<1>3. gen.at \in Nat /\ gen.at + 1 \in Nat
  BY <1>1 DEF Generator
<1>4. gen' = [gen EXCEPT !.files = f, !.at = gen.at + 1, !.todo = gen.todo \ {n}]
  BY <1>1 DEF Written, Describe, Generator
<1> HIDE DEF f
<1>5. /\ gen' \in Generator /\ gen'.files = f
      /\ gen'.pc = gen.pc /\ gen'.at = gen.at + 1 /\ gen'.todo = gen.todo \ {n}
      /\ gen'.omitted = gen.omitted /\ gen'.seen = gen.seen
  BY <1>1, <1>2, <1>3, <1>4 DEF Generator
<1>6. QED
  BY <1>2, <1>5 DEF Written, f

\* The next fixed file is written.
LEMMA WriteFixedInv == SbInv /\ WriteFixed => SbInv'
<1> SUFFICES ASSUME SbInv, WriteFixed PROVE SbInv'
  OBVIOUS
<1> DEFINE n == Fixed[gen.at]
<1>1. /\ gen.pc = "write" /\ gen.at \in 1..Len(Fixed)
      /\ n \in FixedName /\ n \in Name /\ n \notin Log /\ n # Extra
      /\ UNCHANGED <<logs, manifest, original, damages>> /\ "own" \in FileKind
  BY NameFacts, SbParts DEF SbInv, BundleIsListed, Generator, WriteFixed, FileKind
<1>2. /\ bundle' = [bundle EXCEPT ![n] = "own"] /\ bundle' \in BundleFiles
      /\ gen' \in Generator /\ gen'.files = [gen.files EXCEPT ![n] = "own"]
      /\ gen'.pc = gen.pc /\ gen'.at = gen.at + 1 /\ gen'.todo = gen.todo \ {n}
      /\ gen'.omitted = gen.omitted /\ gen'.seen = gen.seen
      /\ gen'.files[n] = "own" /\ \A m \in Name : m # n => gen'.files[m] = gen.files[m]
      /\ Unsteadies
  BY <1>1, WrittenFacts DEF WriteFixed
<1>3. verifier' \in Verifier /\ FoundIsThere' /\ BadHasCause'
  BY <1>2, UnsteadyInv
<1>4. SbTypeOK'
  BY <1>1, <1>2, <1>3 DEF SbInv, SbTypeOK
<1>5. \A i \in 1..Len(Fixed) : i # gen.at => Fixed[i] # n /\ Fixed[i] \in Name
  BY <1>1, NameFacts, SupportBundleAssumption
<1>6. BundleIsListed'
  <2>1. \A i \in 1..Len(Fixed) : gen'.files[Fixed[i]] = IF i < gen'.at THEN "own" ELSE "absent"
    BY <1>1, <1>2, <1>5, NameFacts DEF SbInv, BundleIsListed
  <2>2. /\ bundle' = gen'.files /\ manifest' = NoManifest
        /\ original'.manifest = NoManifest /\ original'.bundle = NoBundle
    BY <1>1, <1>2 DEF SbInv, BundleIsListed
  <2>3. gen'.files[Extra] = "absent" /\ \A m \in Log : gen'.files[m] \in {"absent", "own", "long"}
    BY <1>1, <1>2, NameFacts DEF SbInv, BundleIsListed
  <2>4. gen'.at # 0
    BY <1>1, <1>2, NameFacts
  <2>5. QED
    BY <1>1, <1>2, <2>1, <2>2, <2>3, <2>4 DEF BundleIsListed
<1> HIDE DEF n
<1>7. LogsAreAccounted'
  <2>1. gen.seen \subseteq Log /\ gen.todo \subseteq Log
    BY SbParts DEF SbInv, Generator
  <2>2. \A m \in Log : gen'.files[m] = gen.files[m] /\ (m \in gen'.todo <=> m \in gen.todo)
    BY <1>1, <1>2, NameFacts
  <2>3. QED
    BY <1>1, <1>2, <2>1, <2>2 DEF SbInv, LogsAreAccounted
<1>8. QED
  BY <1>3, <1>4, <1>6, <1>7 DEF SbInv

\* A log is written, whole or longer than the limit.
LEMMA WriteLogInv ==
  ASSUME SbInv, NEW n \in Log, WriteLog(n)
  PROVE  SbInv'
<1> DEFINE content == IF logs[n] = "grows" THEN "long" ELSE "own"
<1>1. /\ gen.pc = "write" /\ n \in Name /\ n \notin FixedName /\ n # Extra /\ content \in FileKind
      /\ content \in {"own", "long"} /\ UNCHANGED <<logs, manifest, original, damages>>
      /\ gen.at > Len(Fixed) /\ gen.at \in Nat /\ n \in gen.todo
  BY NameFacts, SbParts DEF SbInv, Generator, WriteLog, LogsTurn, FileKind
<1>2. /\ bundle' = [bundle EXCEPT ![n] = content] /\ bundle' \in BundleFiles
      /\ gen' \in Generator /\ gen'.files = [gen.files EXCEPT ![n] = content]
      /\ gen'.pc = gen.pc /\ gen'.at = gen.at + 1 /\ gen'.todo = gen.todo \ {n}
      /\ gen'.omitted = gen.omitted /\ gen'.seen = gen.seen
      /\ gen'.files[n] = content /\ \A m \in Name : m # n => gen'.files[m] = gen.files[m]
      /\ Unsteadies
  BY <1>1, WrittenFacts DEF WriteLog
<1> HIDE DEF content
<1>3. verifier' \in Verifier /\ FoundIsThere' /\ BadHasCause'
  BY <1>2, UnsteadyInv
<1>4. SbTypeOK'
  BY <1>1, <1>2, <1>3 DEF SbInv, SbTypeOK
<1>5. \A i \in 1..Len(Fixed) : Fixed[i] # n /\ Fixed[i] \in Name
  BY <1>1, NameFacts
<1>6. BundleIsListed'
  <2>1. \A i \in 1..Len(Fixed) : gen'.files[Fixed[i]] = IF i < gen'.at THEN "own" ELSE "absent"
    BY <1>1, <1>2, <1>5, NameFacts DEF SbInv, BundleIsListed
  <2>2. /\ bundle' = gen'.files /\ manifest' = NoManifest
        /\ original'.manifest = NoManifest /\ original'.bundle = NoBundle
    BY <1>1, <1>2 DEF SbInv, BundleIsListed
  <2>3. gen'.files[Extra] = "absent" /\ \A m \in Log : gen'.files[m] \in {"absent", "own", "long"}
    BY <1>1, <1>2, NameFacts DEF SbInv, BundleIsListed
  <2>4. gen'.at # 0
    BY <1>1, <1>2, NameFacts
  <2>5. QED
    BY <1>1, <1>2, <2>1, <2>2, <2>3, <2>4 DEF BundleIsListed
<1>7. LogsAreAccounted'
  <2>1. gen.seen \subseteq Log /\ gen.todo \subseteq Log /\ content # "absent"
    BY <1>1, SbParts DEF SbInv, Generator
  <2>2. \A m \in Log : m # n => gen'.files[m] = gen.files[m] /\ (m \in gen'.todo <=> m \in gen.todo)
    BY <1>2, NameFacts
  <2>3. QED
    BY <1>1, <1>2, <2>1, <2>2 DEF SbInv, LogsAreAccounted
<1>8. QED
  BY <1>3, <1>4, <1>6, <1>7 DEF SbInv

\* A log is left out, by name.
LEMMA OmitLogInv ==
  ASSUME SbInv, NEW n \in Log, OmitLog(n)
  PROVE  SbInv'
<1>1. /\ gen \in Generator /\ gen.pc = "write" /\ n \in gen.todo
      /\ UNCHANGED <<bundle, manifest, original, verifier, damages>>
      /\ gen' = [gen EXCEPT !.todo = gen.todo \ {n}, !.omitted = gen.omitted \cup {n}]
  BY SbParts DEF SbInv, OmitLog, LogsTurn
<1>2. /\ gen' \in Generator /\ gen'.pc = gen.pc /\ gen'.todo = gen.todo \ {n}
      /\ gen'.seen = gen.seen /\ gen'.omitted = gen.omitted \cup {n}
      /\ gen'.files = gen.files /\ gen'.at = gen.at
  BY <1>1 DEF Generator
<1>3. SbTypeOK'
  BY <1>1, <1>2 DEF SbInv, SbTypeOK
<1>4. BundleIsListed'
  BY <1>1, <1>2 DEF SbInv, BundleIsListed
<1>5. LogsAreAccounted'
  BY <1>1, <1>2 DEF SbInv, LogsAreAccounted
<1>6. QED
  BY <1>1, <1>3, <1>4, <1>5, LookedAtInv DEF SbInv

LEMMA BundleFailsInv == SbInv /\ BundleFails => SbInv'
<1> SUFFICES ASSUME SbInv, BundleFails PROVE SbInv'
  OBVIOUS
<1>1. /\ gen \in Generator /\ gen.pc = "write"
      /\ UNCHANGED <<bundle, manifest, original, verifier, damages>>
      /\ gen' = [gen EXCEPT !.pc = "failed"]
  BY SbParts DEF SbInv, BundleFails
<1>2. /\ gen' \in Generator /\ gen'.pc = "failed" /\ gen'.todo = gen.todo
      /\ gen'.seen = gen.seen /\ gen'.omitted = gen.omitted
      /\ gen'.files = gen.files /\ gen'.at = gen.at
  BY <1>1 DEF Generator
<1>3. SbTypeOK' /\ BundleIsListed' /\ LogsAreAccounted'
  BY <1>1, <1>2 DEF SbInv, SbTypeOK, BundleIsListed, LogsAreAccounted
<1>4. QED
  BY <1>1, <1>3, LookedAtInv DEF SbInv

\* The manifest is written, of what was described.
LEMMA WriteBundleManifestInv == SbInv /\ WriteBundleManifest => SbInv'
<1> SUFFICES ASSUME SbInv, WriteBundleManifest PROVE SbInv'
  OBVIOUS
<1> DEFINE m == [files |-> gen.files, omitted |-> gen.omitted]
<1>1. /\ gen \in Generator /\ gen.pc = "write" /\ gen.at > Len(Fixed) /\ gen.todo = {}
      /\ UNCHANGED <<bundle, damages>> /\ manifest' = m /\ Unsteadies
      /\ original' = [manifest |-> m, bundle |-> bundle]
      /\ gen' = [gen EXCEPT !.pc = "ok"]
  BY SbParts DEF SbInv, WriteBundleManifest
<1>2. m \in Manifest /\ m.files = gen.files /\ m.omitted = gen.omitted
  <2>1. gen.files \in BundleFiles /\ gen.omitted \subseteq Log \cup {"logs/"}
    BY <1>1 DEF Generator
  <2>2. QED
    BY <2>1 DEF Manifest
<1>3. /\ gen' \in Generator /\ gen'.pc = "ok" /\ gen'.todo = gen.todo
      /\ gen'.seen = gen.seen /\ gen'.omitted = gen.omitted
      /\ gen'.files = gen.files /\ gen'.at = gen.at
  BY <1>1 DEF Generator
<1> HIDE DEF m
<1>4. verifier' \in Verifier /\ FoundIsThere' /\ BadHasCause'
  BY <1>1, UnsteadyInv
<1>5. SbTypeOK'
  BY <1>1, <1>2, <1>3, <1>4 DEF SbInv, SbTypeOK
<1>6. BundleIsListed' /\ LogsAreAccounted'
  BY <1>1, <1>2, <1>3 DEF SbInv, BundleIsListed, LogsAreAccounted
<1>7. QED
  BY <1>4, <1>5, <1>6 DEF SbInv

\* Others change a file of the bundle, or write a manifest that fits: neither
\* is held against the generation.
LEMMA DamageBundleInv ==
  ASSUME SbInv, NEW n \in Name, NEW content \in {"absent", "other", "link"},
         DamageBundle(n, content)
  PROVE  SbInv'
<1>1. /\ gen.pc \in {"ok", "failed"} /\ Unsteadies /\ damages' = damages + 1
      /\ UNCHANGED <<gen, manifest, original>> /\ bundle' = [bundle EXCEPT ![n] = content]
  BY DEF DamageBundle, Disturbed
<1>2. verifier' \in Verifier /\ FoundIsThere' /\ BadHasCause'
  BY <1>1, UnsteadyInv
<1>3. bundle' \in BundleFiles
  BY <1>1 DEF SbInv, SbTypeOK, BundleFiles, FileKind
<1>4. SbTypeOK'
  BY <1>1, <1>2, <1>3 DEF SbInv, SbTypeOK
<1>5. BundleIsListed' /\ LogsAreAccounted'
  BY <1>1 DEF SbInv, BundleIsListed, LogsAreAccounted
<1>6. QED
  BY <1>2, <1>4, <1>5 DEF SbInv

LEMMA RefitInv == SbInv /\ Refit => SbInv'
<1> SUFFICES ASSUME SbInv, Refit PROVE SbInv'
  OBVIOUS
<1>1. /\ gen.pc \in {"ok", "failed"} /\ Unsteadies /\ damages' = damages + 1
      /\ UNCHANGED <<gen, bundle, original>>
      /\ manifest' = [files |-> bundle, omitted |-> {}]
  BY DEF Refit, Disturbed
<1>2. verifier' \in Verifier /\ FoundIsThere' /\ BadHasCause'
  BY <1>1, UnsteadyInv
<1>3. manifest' \in Manifest
  BY <1>1 DEF SbInv, SbTypeOK, Manifest
<1>4. SbTypeOK'
  BY <1>1, <1>2, <1>3 DEF SbInv, SbTypeOK
<1>5. BundleIsListed' /\ LogsAreAccounted'
  BY <1>1 DEF SbInv, BundleIsListed, LogsAreAccounted
<1>6. QED
  BY <1>2, <1>4, <1>5 DEF SbInv

\* The manifest is read: what it lacks, or its digest, may be at fault at once.
LEMMA ReadManifestInv ==
  ASSUME SbInv, NEW pinned \in BOOLEAN, ReadManifest(pinned)
  PROVE  SbInv'
<1> DEFINE bad == \/ pinned /\ manifest # original.manifest
                  \/ \E n \in Required : manifest.files[n] = "absent"
           todo == {n \in Name : manifest.files[n] # "absent"}
           pc == IF manifest = NoManifest THEN "fail" ELSE "files"
<1>1. /\ UNCHANGED <<gen, bundle, manifest, original, damages>>
      /\ pinned => original.manifest # NoManifest
      /\ verifier' = [pc |-> pc, pinned |-> pinned, found |-> manifest, todo |-> todo,
                      bad |-> bad, steady |-> TRUE]
  BY DEF ReadManifest
<1>2. manifest \in Manifest /\ todo \subseteq Name /\ bad \in BOOLEAN /\ pc \in {"fail", "files"}
  BY SbParts DEF SbInv
<1>3. verifier' \in Verifier
  <2> HIDE DEF bad, todo, pc
  <2>1. QED
    BY <1>1, <1>2 DEF Verifier
<1>4. /\ verifier'.pc = pc /\ verifier'.pinned = pinned /\ verifier'.found = manifest
      /\ verifier'.todo = todo /\ verifier'.bad = bad
  <2> HIDE DEF bad, todo, pc
  <2>1. QED
    BY <1>1
<1>5. SbTypeOK'
  BY <1>1, <1>3 DEF SbInv, SbTypeOK
<1>6. FoundIsThere'
  BY <1>1, <1>4 DEF FoundIsThere
<1>7. BadHasCause'
  BY <1>1, <1>4 DEF BadHasCause, Fault
<1>8. QED
  BY <1>1, <1>5, <1>6, <1>7, BundleStaysInv DEF SbInv

\* One file is compared with what the manifest lists.
LEMMA VerifyFileInv ==
  ASSUME SbInv, NEW n \in Name, VerifyFile(n)
  PROVE  SbInv'
<1> DEFINE bad == verifier.bad \/ ~FileMatches(verifier.found, n, bundle[n])
           todo == verifier.todo \ {n}
<1>1. /\ UNCHANGED <<gen, bundle, manifest, original, damages>> /\ verifier \in Verifier
      /\ verifier.pc = "files" /\ n \in verifier.todo
      /\ verifier' = [verifier EXCEPT !.todo = todo, !.bad = bad]
  BY SbParts DEF VerifyFile, SbInv
<1>2. todo \subseteq Name /\ bad \in BOOLEAN
  BY <1>1 DEF Verifier, FileMatches
<1>3. /\ verifier' \in Verifier /\ verifier'.pc = "files" /\ verifier'.pinned = verifier.pinned
      /\ verifier'.found = verifier.found /\ verifier'.steady = verifier.steady
      /\ verifier'.todo = todo /\ verifier'.bad = bad
  <2> HIDE DEF bad, todo
  <2>1. QED
    BY <1>1, <1>2 DEF Verifier
<1>4. SbTypeOK'
  BY <1>1, <1>3 DEF SbInv, SbTypeOK
<1>5. FoundIsThere'
  BY <1>1, <1>3 DEF SbInv, FoundIsThere, FileMatches
<1>6. BadHasCause'
  <2> SUFFICES ASSUME verifier.steady, bad PROVE Fault'
    BY <1>3 DEF BadHasCause
  <2>1. CASE verifier.bad
    BY <1>1, <2>1 DEF SbInv, BadHasCause, Fault, Unlisted, FileMatches
  <2>2. CASE ~FileMatches(verifier.found, n, bundle[n])
    BY <1>1, <2>2 DEF SbInv, FoundIsThere, Fault, FileMatches
  <2>3. QED
    BY <2>1, <2>2
<1>7. QED
  BY <1>1, <1>4, <1>5, <1>6, BundleStaysInv DEF SbInv

\* The verdict, after the last file.
LEMMA ConcludeInv == SbInv /\ Conclude => SbInv'
<1> SUFFICES ASSUME SbInv, Conclude PROVE SbInv'
  OBVIOUS
<1> DEFINE m == verifier.found
           bad == \/ verifier.bad \/ Unlisted(m) # {}
                  \/ \E n \in m.omitted \cap Name : m.files[n] # "absent"
           pc == IF bad THEN "fail" ELSE "pass"
<1>1. /\ UNCHANGED <<gen, bundle, manifest, original, damages>> /\ verifier \in Verifier
      /\ verifier.pc = "files" /\ verifier.todo = {}
      /\ verifier' = [verifier EXCEPT !.pc = pc]
  BY SbParts DEF Conclude, SbInv
<1>2. /\ verifier' \in Verifier /\ verifier'.pc = pc /\ verifier'.pinned = verifier.pinned
      /\ verifier'.found = verifier.found /\ verifier'.steady = verifier.steady
      /\ verifier'.todo = verifier.todo /\ verifier'.bad = verifier.bad
  <2>1. pc \in {"fail", "pass"}
    OBVIOUS
  <2> HIDE DEF pc
  <2>2. QED
    BY <1>1, <2>1 DEF Verifier
<1>3. SbTypeOK'
  BY <1>1, <1>2 DEF SbInv, SbTypeOK
<1>4. FoundIsThere'
  BY <1>1, <1>2 DEF SbInv, FoundIsThere, Unlisted
<1>5. BadHasCause'
  <2> SUFFICES ASSUME verifier.steady, bad PROVE Fault'
    BY <1>2 DEF BadHasCause
  <2>1. m = manifest
    BY <1>1 DEF SbInv, FoundIsThere
  <2>2. CASE verifier.bad
    BY <1>1, <2>2 DEF SbInv, BadHasCause, Fault, Unlisted, FileMatches
  <2>3. CASE ~verifier.bad
    BY <1>1, <2>1, <2>3 DEF Fault, Unlisted
  <2>4. QED
    BY <2>2, <2>3
<1>6. QED
  BY <1>1, <1>3, <1>4, <1>5, BundleStaysInv DEF SbInv

LEMMA VerifyAgainInv == SbInv /\ VerifyAgain => SbInv'
<1> SUFFICES ASSUME SbInv, VerifyAgain PROVE SbInv'
  OBVIOUS
<1>1. UNCHANGED <<gen, bundle, manifest, original, damages>> /\ verifier' = NoVerifier
  BY DEF VerifyAgain
<1>2. NoVerifier \in Verifier /\ NoVerifier.pc = "idle"
  BY SbParts DEF SbInv, Verifier, NoVerifier
<1>3. SbTypeOK' /\ FoundIsThere' /\ BadHasCause'
  BY <1>1, <1>2 DEF SbInv, SbTypeOK, FoundIsThere, BadHasCause
<1>4. QED
  BY <1>1, <1>3, BundleStaysInv DEF SbInv

\* Every step keeps the invariant: one case for each action.
LEMMA SbNextInv == SbInv /\ [SbNext]_sbVars => SbInv'
<1> SUFFICES ASSUME SbInv, [SbNext]_sbVars PROVE SbInv'
  OBVIOUS
<1>1. ASSUME UNCHANGED <<gen, bundle, manifest, original, verifier, damages>> PROVE SbInv'
  <2>1. SbTypeOK'
    BY <1>1 DEF SbInv, SbTypeOK
  <2>2. QED
    BY <1>1, <2>1, BundleStaysInv, LookedAtInv DEF SbInv
<1>2. ASSUME NEW n \in Log, Rotate(n) PROVE SbInv'
  BY <1>1, <1>2 DEF Rotate
<1>3. ASSUME NEW n \in Log, WriteLog(n) PROVE SbInv'
  BY <1>3, WriteLogInv
<1>4. ASSUME NEW n \in Log, OmitLog(n) PROVE SbInv'
  BY <1>4, OmitLogInv
<1>5. ASSUME NEW readable \in BOOLEAN, StartBundle(readable) PROVE SbInv'
  BY <1>5, StartBundleInv
<1>6. CASE WriteFixed \/ BundleFails \/ WriteBundleManifest
  BY <1>6, WriteFixedInv, BundleFailsInv, WriteBundleManifestInv
<1>7. ASSUME NEW n \in Name, NEW content \in {"absent", "other", "link"},
             DamageBundle(n, content)
      PROVE  SbInv'
  BY <1>7, DamageBundleInv
<1>8. CASE Refit
  BY <1>8, RefitInv
<1>9. ASSUME NEW pinned \in BOOLEAN, ReadManifest(pinned) PROVE SbInv'
  BY <1>9, ReadManifestInv
<1>10. ASSUME NEW n \in Name, VerifyFile(n) PROVE SbInv'
  BY <1>10, VerifyFileInv
<1>11. CASE Conclude \/ VerifyAgain
  BY <1>11, ConcludeInv, VerifyAgainInv
<1>12. CASE UNCHANGED sbVars
  BY <1>1, <1>12 DEF sbVars
<1>13. QED
  BY <1>2, <1>3, <1>4, <1>5, <1>6, <1>7, <1>8, <1>9, <1>10, <1>11, <1>12 DEF SbNext

\* The invariant holds throughout.
THEOREM SbInvariant == SbSpec => []SbInv
BY SbInitInv, SbNextInv, PTL DEF SbSpec

\* A finished bundle has its fixed files, and each other file is a log's.
LEMMA FinishedFiles ==
  ASSUME SbInv, gen.pc = "ok"
  PROVE  /\ \A n \in FixedName : gen.files[n] = "own"
         /\ \A n \in Name : gen.files[n] # "absent" /\ n \notin FixedName =>
              n \in Log /\ gen.files[n] \in {"own", "long"} /\ n \notin gen.omitted
         /\ \A n \in FixedName : n \notin gen.omitted
         /\ original.manifest.files = gen.files /\ original.manifest.omitted = gen.omitted
         /\ original.bundle = gen.files /\ original.manifest # NoManifest
<1>1. \A n \in FixedName : gen.files[n] = "own"
  <2>1. gen.at \in Nat /\ gen.at > Len(Fixed)
    BY SbParts DEF SbInv, Generator, BundleIsListed
  <2>2. \A i \in 1..Len(Fixed) : gen.files[Fixed[i]] = "own"
    <3>1. \A i \in 1..Len(Fixed) : i < gen.at
      BY <2>1, NameFacts
    <3>2. QED
      BY <3>1 DEF SbInv, BundleIsListed
  <2>3. QED
    BY <2>2, NameFacts
<1>2. \A n \in FixedName : n \notin gen.omitted
  <2>1. gen.omitted \subseteq Log \cup {"logs/"}
    BY SbParts DEF SbInv, Generator
  <2>2. QED
    BY <2>1, NameFacts, SupportBundleAssumption
<1>3. original.manifest # NoManifest
  <2>1. "app_info.json" \in FixedName /\ "app_info.json" \in Name
    BY NameFacts, SupportBundleAssumption DEF Required
  <2>2. NoManifest.files["app_info.json"] = "absent"
    BY <2>1 DEF NoManifest, NoBundle
  <2>3. QED
    BY <1>1, <2>1, <2>2 DEF SbInv, BundleIsListed
<1>4. QED
  BY <1>1, <1>2, <1>3, NameFacts DEF SbInv, BundleIsListed, LogsAreAccounted

\* BundleTellsTheTruth: a finished bundle accounts for every log, one that passes
\* is as it was generated, and one that fails unchanged does so for a known
\* reason (create_support_bundle_inner, verify_support_bundle_dir).
THEOREM BundleAlwaysTellsTheTruth == SbSpec => []BundleTellsTheTruth
<1>1. SbInv => EveryLogIsAccounted
  <2> SUFFICES ASSUME SbInv, gen.pc = "ok"
               PROVE  LET m == original.manifest
                          listed == {n \in Name : m.files[n] # "absent"} IN
                      gen.seen \subseteq listed \cup m.omitted /\ listed \cap m.omitted = {}
    BY DEF EveryLogIsAccounted
  <2>1. gen.seen \subseteq Name /\ gen.todo = {}
    BY SbParts, NameFacts DEF SbInv, Generator, BundleIsListed
  <2>2. QED
    BY <2>1, FinishedFiles DEF SbInv, LogsAreAccounted
<1>2. SbInv => PassedIsAsGenerated
  <2> SUFFICES ASSUME SbInv, verifier.pc = "pass", verifier.pinned, verifier.steady
               PROVE  AsGenerated
    BY DEF PassedIsAsGenerated
  <2>1. /\ manifest = original.manifest /\ manifest # NoManifest /\ Unlisted(manifest) = {}
        /\ \A n \in Name : manifest.files[n] # "absent" => bundle[n] = manifest.files[n]
    BY DEF SbInv, FoundIsThere
  <2>2. gen.pc = "ok"
    BY <2>1 DEF SbInv, BundleIsListed
  <2>3. \A n \in Name : bundle[n] = manifest.files[n]
    BY <2>1 DEF Unlisted
  <2>4. bundle \in BundleFiles /\ manifest.files \in BundleFiles
    BY SbParts DEF SbInv, SbTypeOK
  <2>5. bundle = manifest.files
    BY <2>3, <2>4 DEF BundleFiles
  <2>6. QED
    BY <2>1, <2>2, <2>5, FinishedFiles DEF AsGenerated
<1>3. SbInv => FailsOnlyForKnown
  <2> SUFFICES ASSUME SbInv, verifier.pc = "fail", verifier.steady, AsGenerated
               PROVE  \E n \in Log : bundle[n] # "absent" /\ (n \in Unsafe \/ bundle[n] = "long")
    BY DEF FailsOnlyForKnown
  <2>1. /\ gen.pc = "ok" /\ manifest = original.manifest /\ bundle = gen.files
        /\ manifest.files = gen.files /\ manifest.omitted = gen.omitted /\ manifest # NoManifest
    BY FinishedFiles DEF AsGenerated
  <2>2. Fault
    BY DEF SbInv, BadHasCause
  <2>3. \A n \in Required : manifest.files[n] # "absent"
    BY <2>1, FinishedFiles, SupportBundleAssumption
  <2>4. Unlisted(manifest) = {}
    BY <2>1 DEF Unlisted
  <2>5. \A n \in manifest.omitted \cap Name : manifest.files[n] = "absent"
    BY <2>1, FinishedFiles
  <2>6. PICK n \in Name : manifest.files[n] # "absent" /\ ~FileMatches(manifest, n, bundle[n])
    BY <2>1, <2>2, <2>3, <2>4, <2>5 DEF Fault
  <2>7. bundle[n] \in {"own", "long"} /\ (n \in FixedName => bundle[n] = "own")
    BY <2>1, <2>6, FinishedFiles
  <2>8. n \in Unsafe \/ bundle[n] = "long"
    BY <2>1, <2>6, <2>7 DEF FileMatches
  <2>9. n \in Log
    BY <2>1, <2>6, <2>7, <2>8, FinishedFiles, NameFacts
  <2>10. QED
    BY <2>7, <2>8, <2>9
<1>4. QED
  BY <1>1, <1>2, <1>3, SbInvariant, PTL DEF BundleTellsTheTruth
=============================================================================
