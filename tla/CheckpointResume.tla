--------------------------- MODULE CheckpointResume ---------------------------
\* services/adapter_staging/checkpoints.rs: recovery snapshots of a running
\* trainer and the resume of a failed or killed attempt from one of them, with
\* the manifests of services/artifact_manifest.rs that pin their bytes.
\*
\* A snapshot is a directory of two parts: the weights, with the adapter's
\* configuration, and the manifest. Weights are named by the attempt and step
\* that trained them; the digest of a manifest stands for its bytes.
EXTENDS Naturals, FiniteSets

CONSTANTS Try,       \* attempts
          BaseOf,    \* base model of each
          MaxStep,   \* bound: the iterations an attempt trains
          MaxHarm    \* bound: crashes and damaged files

ASSUME CheckpointResumeAssumption == Try \subseteq Nat \ {0} /\ MaxStep \in Nat \ {0} /\ MaxHarm \in Nat

Step == 1 .. MaxStep
Absent == <<"absent", 0, 0>>
Harmed(n) == <<"harmed", n, 0>>   \* the bytes after the n-th harm
NoSnapshot == [weights |-> Absent, manifest |-> Absent, durable |-> FALSE]

VARIABLES
  record,   \* attempt.json: state, last checkpoint and its digest, source of a resume
  held,     \* last checkpoint and pin in the reader's copy of the record
  stepsSaved,    \* steps whose weights the trainer has written to out/
  snap,     \* the directory checkpoints/<step>
  ckTask,   \* the reader's record_checkpoint
  resume,   \* prepare_resume and its copied directory
  trained,  \* ghost: the weights a resumed trainer started from
  harm      \* crashes and damage so far
ckVars == <<record, held, stepsSaved, snap, ckTask, resume, trained, harm>>

NoResume == [pc |-> "none", of |-> 0, step |-> 0, pin |-> Absent, weights |-> Absent, manifest |-> Absent]
NoTask == [pc |-> "idle", step |-> 0, pin |-> Absent]

CkInit ==
  /\ record = [a \in Try |-> [state |-> "none", last |-> 0, pin |-> Absent, from |-> 0]]
  /\ held = [a \in Try |-> [last |-> 0, pin |-> Absent]]
  /\ stepsSaved = [a \in Try |-> {}]
  /\ snap = [a \in Try |-> [s \in Step |-> NoSnapshot]]
  /\ ckTask = [a \in Try |-> NoTask]
  /\ resume = [a \in Try |-> NoResume]
  /\ trained = [a \in Try |-> Absent]
  /\ harm = 0

Weights(a, s) == <<"trained", a, s>>
\* verify_manifest: nothing missing, changed or extra. The manifest of some
\* weights is named like them.
Matches(d) == d.weights # Absent /\ d.manifest = d.weights
\* verified_snapshot: the manifest's digest is the pinned one, and it matches.
Verified(d, pin) == d.manifest = pin /\ Matches(d)

Task(a, pc, s, pin) == ckTask' = [ckTask EXCEPT ![a] = [pc |-> pc, step |-> s, pin |-> pin]]
-----------------------------------------------------------------------------
\* The trainer writes a file per saved step and its log says so.
Save(a) ==
  /\ record[a].state = "running" /\ ckTask[a].pc = "idle"
  /\ \E s \in Step : s = Cardinality(stepsSaved[a]) + 1 /\ stepsSaved' = [stepsSaved EXCEPT ![a] = @ \cup {s}]
  /\ UNCHANGED <<record, held, snap, ckTask, resume, trained, harm>>

\* record_checkpoint: the event is for a later step than the last one, and
\* its directory is new.
RecordBegins(a, s) ==
  /\ ckTask[a].pc = "idle" /\ record[a].state = "running"
  /\ s \in stepsSaved[a] /\ s > held[a].last /\ snap[a][s] = NoSnapshot
  /\ Task(a, "copy", s, Absent)
  /\ UNCHANGED <<record, held, stepsSaved, snap, resume, trained, harm>>

\* Any of the copies may fail; the event is then dropped, its directory stays.
RecordFails(a) ==
  /\ ckTask[a].pc \in {"copy", "manifest", "hash", "sync"}
  /\ Task(a, "idle", 0, Absent)
  /\ UNCHANGED <<record, held, stepsSaved, snap, resume, trained, harm>>

CopyWeights(a) ==
  /\ ckTask[a].pc = "copy"
  /\ snap' = [snap EXCEPT ![a][ckTask[a].step].weights = Weights(a, ckTask[a].step)]
  /\ Task(a, "manifest", ckTask[a].step, Absent)
  /\ UNCHANGED <<record, held, stepsSaved, resume, trained, harm>>

\* write_manifest hashes what is in the directory by then.
WriteManifest(a) ==
  /\ ckTask[a].pc = "manifest"
  /\ snap' = [snap EXCEPT ![a][ckTask[a].step].manifest = snap[a][ckTask[a].step].weights]
  /\ Task(a, "hash", ckTask[a].step, Absent)
  /\ UNCHANGED <<record, held, stepsSaved, resume, trained, harm>>

\* The manifest, synced, is hashed: this is the pin.
HashManifest(a) ==
  LET s == ckTask[a].step IN
  /\ ckTask[a].pc = "hash"
  /\ Task(a, "sync", s, snap[a][s].manifest)
  /\ UNCHANGED <<record, held, stepsSaved, snap, resume, trained, harm>>

\* The snapshot is verified against that digest, then its
\* directories are synced.
SyncSnapshot(a) ==
  LET s == ckTask[a].step IN
  /\ ckTask[a].pc = "sync"
  /\ Verified(snap[a][s], ckTask[a].pin)
  /\ snap' = [snap EXCEPT ![a][s].durable = TRUE]
  /\ Task(a, "pin", s, ckTask[a].pin)
  /\ UNCHANGED <<record, held, stepsSaved, resume, trained, harm>>

\* persist: the record is replaced; when only the directory's fsync fails
\* after that, the reader keeps its old copy.
Pin(a) ==
  /\ ckTask[a].pc = "pin"
  /\ \E done \in BOOLEAN :
       LET new == [last |-> ckTask[a].step, pin |-> ckTask[a].pin] IN
       /\ record' = [record EXCEPT ![a].last = new.last, ![a].pin = new.pin]
       /\ held' = IF done THEN [held EXCEPT ![a] = new] ELSE held
  /\ Task(a, "idle", 0, Absent)
  /\ UNCHANGED <<stepsSaved, snap, resume, trained, harm>>

\* The end of a run writes the reader's copy of the record.
TryEnds(a, state) ==
  /\ record[a].state = "running" /\ ckTask[a].pc = "idle"
  /\ record' = [record EXCEPT ![a].state = state, ![a].last = held[a].last, ![a].pin = held[a].pin]
  /\ UNCHANGED <<held, stepsSaved, snap, ckTask, resume, trained, harm>>

-----------------------------------------------------------------------------
\* What a resume asks of its source, in the picker and again in the command.
Resumable(src, a) ==
  /\ record[src].state \in {"failed", "killed"}
  /\ BaseOf[src] = BaseOf[a]
  /\ record[src].last # 0

\* Attempts are numbered in the order they are created.
Unborn(a) == record[a].state = "none" /\ \A b \in Try : b < a => record[b].state # "none"

Create(a) ==
  /\ Unborn(a)
  /\ record' = [record EXCEPT ![a].state = "created"]
  /\ resume' = [resume EXCEPT ![a].pc = "ready"]
  /\ UNCHANGED <<held, stepsSaved, snap, ckTask, trained, harm>>

CreateResumed(a, src) ==
  /\ Unborn(a) /\ Resumable(src, a)
  /\ record' = [record EXCEPT ![a].state = "created"]
  /\ resume' = [resume EXCEPT ![a].pc = "verify", ![a].of = src]
  /\ UNCHANGED <<held, stepsSaved, snap, ckTask, trained, harm>>

PrepareFails(a) ==
  /\ record' = [record EXCEPT ![a].state = "failed"]
  /\ resume' = [resume EXCEPT ![a].pc = "refused"]

\* The pinned snapshot of the source verifies, or the attempt is failed.
Prepare(a) ==
  LET src == resume[a].of  r == record[src]
      good == Resumable(src, a) /\ Verified(snap[src][r.last], r.pin) IN
  /\ resume[a].pc = "verify"
  /\ \/ /\ good
        /\ resume' = [resume EXCEPT ![a].pc = "copy", ![a].step = r.last, ![a].pin = r.pin]
        /\ UNCHANGED record
     \/ ~good /\ PrepareFails(a)
  /\ UNCHANGED <<held, stepsSaved, snap, ckTask, trained, harm>>

CopyOrigin(a) ==
  LET d == snap[resume[a].of][resume[a].step] IN
  /\ resume[a].pc = "copy"
  /\ resume' = [resume EXCEPT ![a].pc = "copy_manifest", ![a].weights = d.weights]
  /\ UNCHANGED <<record, held, stepsSaved, snap, ckTask, trained, harm>>

CopyOriginManifest(a) ==
  LET d == snap[resume[a].of][resume[a].step] IN
  /\ resume[a].pc = "copy_manifest"
  /\ resume' = [resume EXCEPT ![a].pc = "check", ![a].manifest = d.manifest]
  /\ UNCHANGED <<record, held, stepsSaved, snap, ckTask, trained, harm>>

\* Mutant of CheckCopy: what was verified before it was copied is not verified again.
CheckCopyTrusting(a) ==
  /\ resume[a].pc = "check"
  /\ record' = [record EXCEPT ![a].from = resume[a].of]
  /\ resume' = [resume EXCEPT ![a].pc = "ready"]
  /\ UNCHANGED <<held, stepsSaved, snap, ckTask, trained, harm>>

\* The copy is verified against the same pin, and the source is recorded.
CheckCopy(a) ==
  LET r == resume[a]
      good == Verified(r, r.pin) IN
  /\ r.pc = "check"
  /\ \/ /\ good
        /\ record' = [record EXCEPT ![a].from = r.of]
        /\ resume' = [resume EXCEPT ![a].pc = "ready"]
     \/ ~good /\ PrepareFails(a)
  /\ UNCHANGED <<held, stepsSaved, snap, ckTask, trained, harm>>

Run(a) ==
  /\ record[a].state = "created" /\ resume[a].pc = "ready"
  /\ record' = [record EXCEPT ![a].state = "running"]
  /\ trained' = [trained EXCEPT ![a] = resume[a].weights]
  /\ UNCHANGED <<held, stepsSaved, snap, ckTask, resume, harm>>

-----------------------------------------------------------------------------
\* The machine loses power: what was not synced may be gone, a run is over
\* and is found failed at the next start (recover_attempts).
PowerLoss ==
  /\ harm < MaxHarm
  /\ harm' = harm + 1
  /\ \E lost \in SUBSET {a \in Try : \E s \in Step : ~snap[a][s].durable /\ snap[a][s] # NoSnapshot} :
       snap' = [a \in Try |-> [s \in Step |->
                  IF a \in lost /\ ~snap[a][s].durable THEN NoSnapshot ELSE snap[a][s]]]
  /\ ckTask' = [a \in Try |-> NoTask]
  /\ resume' = [a \in Try |-> IF record[a].state = "created"
                                THEN [resume[a] EXCEPT !.pc = "refused"] ELSE resume[a]]
  /\ record' = [a \in Try |-> IF record[a].state \in {"created", "running"}
                                THEN [record[a] EXCEPT !.state = "failed"] ELSE record[a]]
  /\ UNCHANGED <<held, stepsSaved, trained>>

\* A snapshot's file is damaged, at rest.
Damage(a, s) ==
  /\ harm < MaxHarm
  /\ harm' = harm + 1
  /\ \/ snap[a][s].weights # Absent /\ snap' = [snap EXCEPT ![a][s].weights = Harmed(harm')]
     \/ snap[a][s].manifest # Absent /\ snap' = [snap EXCEPT ![a][s].manifest = Harmed(harm')]
  /\ UNCHANGED <<record, held, stepsSaved, ckTask, resume, trained>>

CkNext ==
  \/ PowerLoss
  \/ \E a \in Try :
       \/ Save(a) \/ RecordFails(a) \/ CopyWeights(a) \/ WriteManifest(a) \/ HashManifest(a) \/ SyncSnapshot(a) \/ Pin(a)
       \/ Create(a) \/ Prepare(a) \/ CopyOrigin(a) \/ CopyOriginManifest(a) \/ CheckCopy(a) \/ Run(a)
       \/ \E s \in Step : RecordBegins(a, s) \/ Damage(a, s)
       \/ \E state \in {"failed", "killed", "exited_ok"} : TryEnds(a, state)
       \/ \E src \in Try : CreateResumed(a, src)

CkSpec == CkInit /\ [][CkNext]_ckVars
-----------------------------------------------------------------------------
\* A resumed trainer starts from exactly the weights its source's record
\* pinned, whatever happened to the files between the list, the verification
\* and the copy; and a record that outlives a power loss never names a
\* snapshot that did not: its files are there, damaged afterwards at worst.
CheckpointsAreGenuine ==
  /\ \A a \in Try : trained[a] # Absent => trained[a] = record[resume[a].of].pin
  /\ \A a \in Try : record[a].last # 0 =>
       LET d == snap[a][record[a].last] IN
       /\ d.durable
       /\ d # NoSnapshot /\ (harm = 0 => Verified(d, record[a].pin))
=============================================================================
