----------------------------- MODULE AdapterStaging -----------------------------
(***************************************************************************)
(* services/adapter_staging.rs and the part of commands/mlx that drives    *)
(* it: every training attempt owns <root>/adapter-staging/<id>/ with its   *)
(* durable record attempt.json and its output out/; a verified out/ is     *)
(* renamed to <root>/adapters/<name> exactly once.  Several KubeMetal      *)
(* processes may share one root: each has its own adapter_admission lock,  *)
(* and any of them may crash between two file operations.                  *)
(***************************************************************************)
EXTENDS Naturals, FiniteSets

CONSTANTS App,       \* KubeMetal processes sharing one ~/.kubemetal
          Attempt,   \* attempt identifiers (new_attempt_id never repeats one)
          Name,      \* adapter names
          NoOne,     \* no attempt: a free name, a free lock
          Foreign    \* a directory under adapters/ that KubeMetal did not promote

ASSUME SpecialValues ==
  /\ NoOne \notin Attempt
  /\ Foreign \notin Attempt
  /\ NoOne # Foreign

VARIABLES
  \* files
  disk,       \* state in attempt.json of each attempt, or "none"
  sha,        \* manifest_sha256 recorded at verification
  out,        \* bytes in out/, "gone" when the directory is not there
  manifest,   \* what the manifest.json inside out/ was computed from
  owner,      \* which attempt's directory stands at adapters/<name>
  kept,       \* bytes of that directory
  keptMan,    \* its manifest
  \* processes
  app,        \* the process that runs the attempt
  name,       \* adapter_name of the attempt
  mem,        \* the Attempt value in that process: its state, or "none"
  pc,         \* where the driving code stands
  child,      \* the training child process
  admission,  \* adapter_admission of each process: the attempt finalizing, or NoOne
  \* history
  late        \* attempts whose out/ was altered after the last check before rename

files == <<disk, sha, out, manifest, owner, kept, keptMan>>
vars == <<disk, sha, out, manifest, owner, kept, keptMan,
          app, name, mem, pc, child, admission, late>>

AttemptState == {"Created", "Running", "ExitedOk", "Verified", "Promoted",
                 "Failed", "Killed", "VerifiedUnpromoted"}
Bytes == {"gone", "empty", "full", "altered"}
NoHash == "none"
Content == {NoHash, "full", "altered"}

(* Where a process stands in preparing, running or finalizing one attempt. *)
Preparing == {"made", "created", "spawned"}
Finalizing == {"seal", "verify", "record", "inspect", "recheck", "rename",
               "renamed", "taken", "failing", "killed"}
Phase == {"unborn", "training", "done", "lost"} \cup Preparing \cup Finalizing

TypeOK ==
  /\ disk \in [Attempt -> AttemptState \cup {"none"}]
  /\ sha \in [Attempt -> Content]
  /\ out \in [Attempt -> Bytes]
  /\ manifest \in [Attempt -> Content]
  /\ owner \in [Name -> Attempt \cup {NoOne, Foreign}]
  /\ kept \in [Name -> Bytes]
  /\ keptMan \in [Name -> Content]
  /\ app \in [Attempt -> App]
  /\ name \in [Attempt -> Name]
  /\ mem \in [Attempt -> AttemptState \cup {"none"}]
  /\ pc \in [Attempt -> Phase]
  /\ child \in [Attempt -> {"none", "alive", "exited"}]
  /\ admission \in [App -> Attempt \cup {NoOne}]
  /\ late \subseteq Attempt

Init ==
  /\ disk = [a \in Attempt |-> "none"]
  /\ sha = [a \in Attempt |-> NoHash]
  /\ out = [a \in Attempt |-> "gone"]
  /\ manifest = [a \in Attempt |-> NoHash]
  /\ owner = [n \in Name |-> NoOne]
  /\ kept = [n \in Name |-> "gone"]
  /\ keptMan = [n \in Name |-> NoHash]
  /\ app \in [Attempt -> App]      \* which process will receive the request,
  /\ name \in [Attempt -> Name]    \* and the adapter name it will carry
  /\ mem = [a \in Attempt |-> "none"]
  /\ pc = [a \in Attempt |-> "unborn"]
  /\ child = [a \in Attempt |-> "none"]
  /\ admission = [p \in App |-> NoOne]
  /\ late = {}

----------------------------------------------------------------------------
(* Helpers *)

goto(a, label) == pc' = [pc EXCEPT ![a] = label]

(* write_record: temp file, fsync, rename, fsync of the directory.  It     *)
(* succeeds, fails with nothing written, or reports an error although the  *)
(* rename took effect ("landed").                                          *)
WriteResult == {"ok", "lost", "landed"}

(* The record carries the state and the manifest hash together. *)
write_record(a, state, hash, w) ==
  /\ disk' = IF w = "lost" THEN disk ELSE [disk EXCEPT ![a] = state]
  /\ sha' = IF w = "lost" THEN sha ELSE [sha EXCEPT ![a] = hash]

(* persist: the value in memory follows the record only after a durable    *)
(* write.                                                                  *)
persist(a, state, hash, w) ==
  /\ write_record(a, state, hash, w)
  /\ mem' = IF w = "ok" THEN [mem EXCEPT ![a] = state] ELSE mem

(* The hash in memory: set by a verification that was durably recorded.  A *)
(* later write from memory puts it back over whatever the record says.     *)
MemHash(a) == IF mem[a] \in {"Verified", "VerifiedUnpromoted"} THEN sha[a] ELSE NoHash

(* transition: the legal trainer and publication-failure transitions. *)
LegalTransition(from, to) ==
  \/ from = "Running" /\ to \in {"ExitedOk", "Killed"}
  \/ /\ from \in {"Created", "Running", "ExitedOk", "Verified", "VerifiedUnpromoted"}
     /\ to = "Failed"

(* require_verified_content: a manifest that matches the bytes it lies     *)
(* next to, and whose own hash is the one recorded at verification.        *)
VerifiedContent(bytes, man, recorded) == man # NoHash /\ man = bytes /\ man = recorded

(* verified_out_gone_converges: out/ became the final adapter. *)
Converges(a) ==
  /\ out[a] = "gone"
  /\ sha[a] # NoHash
  /\ owner[name[a]] # NoOne
  /\ VerifiedContent(kept[name[a]], keptMan[name[a]], sha[a])
  /\ owner[name[a]] = a   \* a manifest hash is never shared by two attempts

(* list_one: the read-only inventory row of an attempt. *)
Listed(a) ==
  CASE disk[a] = "none" -> "unknown"
    [] disk[a] = "Running" -> IF child[a] = "alive" THEN "running" ELSE "interrupted"
    [] disk[a] = "Verified" /\ out[a] = "gone" ->
         IF Converges(a) THEN "would_converge_promoted" ELSE "unknown"
    [] OTHER -> "unchanged"
----------------------------------------------------------------------------
(* Preparation: the blocking half of run_mlx_finetune *)

(* create_attempt up to the directories: a name taken in any form is       *)
(* refused, the attempt directory is created exclusively, then out/.       *)
MakeDirs(a) ==
  /\ pc[a] = "unborn"
  /\ owner[name[a]] = NoOne
  /\ out' = [out EXCEPT ![a] = "empty"]
  /\ goto(a, "made")
  /\ UNCHANGED <<disk, sha, manifest, owner, kept, keptMan,
                 app, name, mem, child, admission, late>>

(* create_attempt, the record.  An error returns Err: no Attempt value     *)
(* exists, the directories stay.                                           *)
WriteCreated(a, w) ==
  /\ pc[a] = "made"
  /\ persist(a, "Created", NoHash, w)
  /\ goto(a, IF w = "ok" THEN "created" ELSE "done")
  /\ UNCHANGED <<out, manifest, owner, kept, keptMan,
                 app, name, child, admission, late>>

(* training_staging::spawn *)
SpawnChild(a) ==
  /\ pc[a] = "created"
  /\ child' = [child EXCEPT ![a] = "alive"]
  /\ goto(a, "spawned")
  /\ UNCHANGED <<files, app, name, mem, admission, late>>

(* spawn failed: cleanup_unspawned removes out/, the record and the        *)
(* attempt directory, in that order, and only while the record still says  *)
(* Created; removal may stop after any of the three.                       *)
SpawnFails(a) ==
  /\ pc[a] = "created"
  /\ mem[a] = "Created"
  /\ \/ UNCHANGED <<out, disk>>
     \/ out' = [out EXCEPT ![a] = "gone"] /\ UNCHANGED disk
     \/ /\ out' = [out EXCEPT ![a] = "gone"]
        /\ disk' = [disk EXCEPT ![a] = "none"]
  /\ mem' = [mem EXCEPT ![a] = "none"]
  /\ goto(a, "done")
  /\ UNCHANGED <<sha, manifest, owner, kept, keptMan, app, name, child, admission, late>>

(* prepare_resume failed, or spawn failed while a copied resume/ snapshot   *)
(* keeps the directory from being removed: the attempt is recorded Failed   *)
(* before any child exists.                                                 *)
ResumeFails(a, w) ==
  /\ pc[a] = "created"
  /\ LegalTransition(mem[a], "Failed")
  /\ write_record(a, "Failed", NoHash, w)
  /\ mem' = [mem EXCEPT ![a] = "none"]
  /\ goto(a, "done")
  /\ UNCHANGED <<out, manifest, owner, kept, keptMan, app, name, child, admission, late>>

(* mark_running.  A failed write is a setup error: training goes on in the *)
(* child, but the attempt can no longer be promoted.                       *)
MarkRunning(a, w) ==
  /\ pc[a] = "spawned"
  /\ mem[a] = "Created"
  /\ persist(a, "Running", NoHash, w)
  /\ goto(a, "training")
  /\ UNCHANGED <<out, manifest, owner, kept, keptMan,
                 app, name, child, admission, late>>

----------------------------------------------------------------------------
(* The child process and other writers *)

(* The trainer writes its adapter files. *)
TrainerWrites(a) ==
  /\ child[a] = "alive"
  /\ out[a] = "empty"
  /\ out' = [out EXCEPT ![a] = "full"]
  /\ UNCHANGED <<disk, sha, manifest, owner, kept, keptMan,
                 app, name, mem, pc, child, admission, late>>

(* The child exits, by itself or by a signal. *)
TrainerExits(a) ==
  /\ child[a] = "alive"
  /\ child' = [child EXCEPT ![a] = "exited"]
  /\ UNCHANGED <<files, app, name, mem, pc, admission, late>>

(* Something else rewrites a file in out/: a straggler of the training     *)
(* process group, or the user.  Between the last check and the rename it   *)
(* goes unnoticed; `late` remembers that.                                  *)
Tamper(a) ==
  /\ out[a] = "full"
  /\ out' = [out EXCEPT ![a] = "altered"]
  /\ late' = IF pc[a] = "rename" THEN late \cup {a} ELSE late
  /\ UNCHANGED <<disk, sha, manifest, owner, kept, keptMan,
                 app, name, mem, pc, child, admission>>

(* A directory appears under adapters/ that KubeMetal did not promote. *)
ForeignCreates(n) ==
  /\ owner[n] = NoOne
  /\ owner' = [owner EXCEPT ![n] = Foreign]
  /\ kept' = [kept EXCEPT ![n] = "full"]
  /\ keptMan' = [keptMan EXCEPT ![n] = NoHash]
  /\ UNCHANGED <<disk, sha, out, manifest, app, name, mem, pc, child, admission, late>>

(* remove_adapter_checkpoint under the admission lock of process p.        *)
(* remove_dir_all may stop half way; what is left is torn.                 *)
DeleteAdapter(p, n) ==
  /\ admission[p] = NoOne
  /\ owner[n] # NoOne
  /\ \/ /\ owner' = [owner EXCEPT ![n] = NoOne]
        /\ kept' = [kept EXCEPT ![n] = "gone"]
        /\ keptMan' = [keptMan EXCEPT ![n] = NoHash]
     \/ /\ kept' = [kept EXCEPT ![n] = "altered"]
        /\ keptMan' = [keptMan EXCEPT ![n] = NoHash]
        /\ UNCHANGED owner
  /\ UNCHANGED <<disk, sha, out, manifest, app, name, mem, pc, child, admission, late>>

----------------------------------------------------------------------------
(* finalize_with: one attempt, the admission lock held throughout *)

(* finalize_with decides once, before hashing: the attempt was stopped, it *)
(* failed (exit status, report, setup error, slot lost), or it may be      *)
(* published.                                                              *)
BeginFinalize(a) ==
  /\ pc[a] = "training"
  /\ child[a] = "exited"
  /\ admission[app[a]] = NoOne
  /\ admission' = [admission EXCEPT ![app[a]] = a]
  /\ \/ goto(a, "killed")
     \/ goto(a, "failing")
     \/ mem[a] = "Running" /\ goto(a, "seal")
  /\ UNCHANGED <<files, app, name, mem, child, late>>

(* transition(ExitedOk) *)
Seal(a, w) ==
  /\ pc[a] = "seal"
  /\ IF LegalTransition(mem[a], "ExitedOk")
     THEN persist(a, "ExitedOk", NoHash, w) /\ goto(a, IF w = "ok" THEN "verify" ELSE "failing")
     ELSE goto(a, "failing") /\ UNCHANGED <<disk, sha, mem>>
  /\ UNCHANGED <<out, manifest, owner, kept, keptMan,
                 app, name, child, admission, late>>

(* Mutant of WriteManifest: verification waits for output that may never come. *)
WriteManifestWaits(a) ==
  /\ pc[a] = "verify"
  /\ out[a] \in {"full", "altered"}
  /\ manifest' = [manifest EXCEPT ![a] = out[a]]
  /\ goto(a, "record")
  /\ UNCHANGED <<disk, sha, out, owner, kept, keptMan, app, name, mem, child, admission, late>>

(* verify_out, first half: required files present and not empty, then      *)
(* write_manifest over whatever is there.                                  *)
WriteManifest(a) ==
  /\ pc[a] = "verify"
  /\ IF mem[a] = "ExitedOk" /\ out[a] \in {"full", "altered"}
     THEN /\ manifest' = [manifest EXCEPT ![a] = out[a]]
          /\ goto(a, "record")
     ELSE goto(a, "failing") /\ UNCHANGED manifest
  /\ UNCHANGED <<disk, sha, out, owner, kept, keptMan,
                 app, name, mem, child, admission, late>>

(* verify_out, second half: the manifest still describes the bytes; its    *)
(* hash and the state Verified reach the record together.                  *)
RecordVerified(a, w) ==
  /\ pc[a] = "record"
  /\ IF manifest[a] = out[a]
     THEN /\ persist(a, "Verified", manifest[a], w)
          /\ goto(a, IF w = "ok" THEN "inspect" ELSE "failing")
     ELSE goto(a, "failing") /\ UNCHANGED <<disk, sha, mem>>
  /\ UNCHANGED <<out, manifest, owner, kept, keptMan, app, name, child, admission, late>>

(* promote: lstat of the final path. *)
InspectFinal(a) ==
  /\ pc[a] = "inspect"
  /\ mem[a] = "Verified"
  /\ goto(a, IF owner[name[a]] = NoOne THEN "recheck" ELSE "taken")
  /\ UNCHANGED <<files, app, name, mem, child, admission, late>>

(* Mutant of RecheckContent: the content is trusted since verification. *)
RecheckSkipped(a) ==
  /\ pc[a] = "recheck"
  /\ goto(a, "rename")
  /\ UNCHANGED <<files, app, name, mem, child, admission, late>>

(* promote: require_verified_content, the last check before the rename. *)
RecheckContent(a) ==
  /\ pc[a] = "recheck"
  /\ goto(a, IF VerifiedContent(out[a], manifest[a], sha[a]) THEN "rename" ELSE "failing")
  /\ UNCHANGED <<files, app, name, mem, child, admission, late>>

(* Mutants of RenameExcl: a rename that replaces what is there, and a copy. *)
RenameReplaces(a) ==
  /\ pc[a] = "rename"
  /\ owner' = [owner EXCEPT ![name[a]] = a]
  /\ kept' = [kept EXCEPT ![name[a]] = out[a]]
  /\ keptMan' = [keptMan EXCEPT ![name[a]] = manifest[a]]
  /\ out' = [out EXCEPT ![a] = "gone"]
  /\ goto(a, "renamed")
  /\ UNCHANGED <<disk, sha, manifest, app, name, mem, child, admission, late>>

CopyInstead(a) ==
  /\ pc[a] = "rename"
  /\ owner[name[a]] = NoOne
  /\ owner' = [owner EXCEPT ![name[a]] = a]
  /\ kept' = [kept EXCEPT ![name[a]] = out[a]]
  /\ keptMan' = [keptMan EXCEPT ![name[a]] = manifest[a]]
  /\ goto(a, "renamed")
  /\ UNCHANGED <<disk, sha, out, manifest, app, name, mem, child, admission, late>>

(* promote: renamex_np(RENAME_EXCL).  The whole directory moves, or the    *)
(* name turns out to be taken.                                             *)
RenameExcl(a) ==
  LET n == name[a] IN
  /\ pc[a] = "rename"
  /\ IF owner[n] = NoOne
     THEN /\ owner' = [owner EXCEPT ![n] = a]
          /\ kept' = [kept EXCEPT ![n] = out[a]]
          /\ keptMan' = [keptMan EXCEPT ![n] = manifest[a]]
          /\ out' = [out EXCEPT ![a] = "gone"]
          /\ goto(a, "renamed")
     ELSE goto(a, "taken") /\ UNCHANGED <<owner, kept, keptMan, out>>
  /\ UNCHANGED <<disk, sha, manifest, app, name, mem, child, admission, late>>

(* promote: any other error of the checks or of the rename. *)
PromoteFails(a) ==
  /\ pc[a] \in {"inspect", "recheck", "rename"}
  /\ goto(a, "failing")
  /\ UNCHANGED <<files, app, name, mem, child, admission, late>>

(* promote: the record follows the rename.  A failed write is only a       *)
(* warning, the adapter is published either way.                           *)
RecordPromoted(a, w) ==
  /\ pc[a] = "renamed"
  /\ write_record(a, "Promoted", MemHash(a), w)
  /\ mem' = [mem EXCEPT ![a] = "none"]
  /\ admission' = [admission EXCEPT ![app[a]] = NoOne]
  /\ goto(a, "done")
  /\ UNCHANGED <<out, manifest, owner, kept, keptMan, app, name, child, late>>

(* name_taken: the verified output stays in staging. *)
RecordUnpromoted(a, w) ==
  /\ pc[a] = "taken"
  /\ persist(a, "VerifiedUnpromoted", MemHash(a), w)
  /\ goto(a, "failing")
  /\ UNCHANGED <<out, manifest, owner, kept, keptMan,
                 app, name, child, admission, late>>

(* The tail of finalize_with: a failed or stopped attempt gets its         *)
(* terminal state; the Attempt value is dropped and the lock released.     *)
RecordFailure(a, w) ==
  LET terminal == IF pc[a] = "killed" /\ mem[a] = "Running" THEN "Killed" ELSE "Failed" IN
  /\ pc[a] \in {"failing", "killed"}
  /\ IF LegalTransition(mem[a], terminal)
     THEN write_record(a, terminal, MemHash(a), w) ELSE UNCHANGED <<disk, sha>>
  /\ mem' = [mem EXCEPT ![a] = "none"]
  /\ admission' = [admission EXCEPT ![app[a]] = NoOne]
  /\ goto(a, "done")
  /\ UNCHANGED <<out, manifest, owner, kept, keptMan, app, name, child, late>>

----------------------------------------------------------------------------
(* reconcile_one: a Verified record whose out/ became the final adapter is *)
(* brought to Promoted.  Every other branch leaves the files alone.        *)
Reconcile(a) ==
  /\ disk[a] = "Verified"
  /\ Converges(a)
  /\ disk' = [disk EXCEPT ![a] = "Promoted"]
  /\ UNCHANGED <<sha, out, manifest, owner, kept, keptMan,
                 app, name, mem, pc, child, admission, late>>

(* The process dies between two steps: memory and lock go, files and       *)
(* children stay.  It may be started again at once.                        *)
Crash(p) ==
  LET hit == {a \in Attempt : app[a] = p /\ pc[a] \in Preparing \cup Finalizing \cup {"training"}} IN
  /\ hit # {}
  /\ pc' = [a \in Attempt |-> IF a \in hit THEN "lost" ELSE pc[a]]
  /\ mem' = [a \in Attempt |-> IF a \in hit THEN "none" ELSE mem[a]]
  /\ admission' = [admission EXCEPT ![p] = NoOne]
  /\ UNCHANGED <<files, app, name, child, late>>

Worker(a) ==
  \/ MakeDirs(a) \/ SpawnChild(a) \/ SpawnFails(a)
  \/ BeginFinalize(a) \/ WriteManifest(a) \/ InspectFinal(a)
  \/ RecheckContent(a) \/ RenameExcl(a) \/ PromoteFails(a)
  \/ \E w \in WriteResult :
       \/ WriteCreated(a, w) \/ ResumeFails(a, w) \/ MarkRunning(a, w)
       \/ Seal(a, w) \/ RecordVerified(a, w) \/ RecordPromoted(a, w)
       \/ RecordUnpromoted(a, w) \/ RecordFailure(a, w)

Next ==
  \/ \E a \in Attempt : Worker(a) \/ TrainerWrites(a) \/ TrainerExits(a) \/ Tamper(a) \/ Reconcile(a)
  \/ \E n \in Name : ForeignCreates(n)
  \/ \E p \in App, n \in Name : DeleteAdapter(p, n)
  \/ \E p \in App : Crash(p)

Spec == Init /\ [][Next]_vars

(* Once a thread holds the admission lock it runs: the steps of finalize   *)
(* wait for nothing but the file system.                                   *)
FinalizeStep(a) == pc[a] \in Finalizing /\ Worker(a)

FairSpec == Spec /\ \A a \in Attempt : WF_vars(FinalizeStep(a))
----------------------------------------------------------------------------
(* Properties *)

(* Nothing that training produced is lost: an attempt whose record says it *)
(* ran and was not promoted still has its out/ ("staged output kept"), in  *)
(* whatever order crashes, half-reported writes and other processes come.  *)
FailureKeepsStaging ==
  \A a \in Attempt :
    disk[a] \in {"Running", "ExitedOk", "Failed", "Killed", "VerifiedUnpromoted"}
      => out[a] # "gone"

(* A directory this attempt published is never recorded as a failure: from *)
(* the rename on the record can only say verified or promoted.             *)
PublishedIsNeverFailed ==
  \A n \in Name, a \in Attempt : owner[n] = a =>
    /\ name[a] = n
    /\ out[a] = "gone"
    /\ disk[a] \in {"Verified", "Promoted"}

(* An intact published adapter is always recognised by the inventory, also *)
(* when the process died between the rename and the record.                *)
PublishedNeverUnknown ==
  \A n \in Name, a \in Attempt : owner[n] = a /\ kept[n] = keptMan[n] =>
    Listed(a) \in {"would_converge_promoted", "unchanged"}

(* The record never outruns the rename: promoted is written only when the  *)
(* output has left staging.                                                *)
PromotedHasLeftStaging ==
  \A a \in Attempt : disk[a] = "Promoted" => out[a] = "gone"

(* What ties the four properties above together, and is inductive: where   *)
(* the driving code stands, the record, the value in memory, out/ and the  *)
(* adapter directory agree on one story.                                   *)
Staged == {"made", "created", "spawned", "training"} \cup (Finalizing \ {"renamed"})
BeforeRename == {"inspect", "recheck", "rename", "taken"}

PhaseAgreesWithFiles ==
  \A a \in Attempt :
    /\ pc[a] \in {"unborn", "made"} => disk[a] = "none" /\ sha[a] = NoHash
    /\ pc[a] = "created" => disk[a] = "Created" /\ sha[a] = NoHash
    /\ pc[a] \in {"spawned", "training", "seal"} => disk[a] \in {"Created", "Running"}
    /\ pc[a] \in {"verify", "record"} => disk[a] = "ExitedOk"
    /\ pc[a] \in Staged => out[a] # "gone"
    /\ pc[a] \in Staged => disk[a] \notin {"Failed", "Killed", "Promoted"}
    /\ pc[a] \in BeforeRename => disk[a] = "Verified" /\ mem[a] = "Verified"
    /\ pc[a] = "rename" =>
         /\ manifest[a] = sha[a]
         /\ sha[a] # NoHash
         /\ out[a] = manifest[a] \/ a \in late
    /\ pc[a] = "renamed" =>
         /\ out[a] = "gone"
         /\ disk[a] \in {"Verified", "Promoted"}
         /\ mem[a] = "Verified"
         /\ sha[a] # NoHash

NamesAgreeWithRecords ==
  \A n \in Name, a \in Attempt : owner[n] = a =>
    /\ pc[a] \in {"renamed", "done", "lost"}
    /\ sha[a] # NoHash
    /\ keptMan[n] \in {sha[a], NoHash}

IInv ==
  /\ TypeOK
  /\ PhaseAgreesWithFiles
  /\ NamesAgreeWithRecords
  /\ FailureKeepsStaging
  /\ PublishedIsNeverFailed
  /\ PromotedHasLeftStaging

(* Files, records and the driving code agree on one story, from which no   *)
(* crash makes what was trained vanish and what was published look failed  *)
(* or unknown.                                                             *)
OneStory == IInv /\ PublishedNeverUnknown

(* A name that is taken, in any form, is never overwritten: it is freed    *)
(* before somebody else can hold it.                                       *)
NameNeverOverwritten ==
  [][\A n \in Name : owner[n] # NoOne => owner'[n] \in {owner[n], NoOne}]_vars

(* What appears under a name was verified: the record already says so, its *)
(* manifest hash is the one of the directory, and the bytes match, unless  *)
(* they were altered after the last check before the rename.               *)
OnlyVerifiedIsPublished ==
  [][\A n \in Name, a \in Attempt : owner[n] # a /\ owner'[n] = a =>
       /\ disk[a] = "Verified"
       /\ keptMan'[n] = sha[a]
       /\ kept'[n] = keptMan'[n] \/ a \in late]_vars

(* No terminal attempt is revived: failed, killed and promoted records are *)
(* never rewritten to anything else.                                       *)
TerminalIsFinal ==
  [][\A a \in Attempt : disk[a] \in {"Failed", "Killed", "Promoted"} => disk'[a] = disk[a]]_vars

(* Nothing is taken back: neither a name that is taken nor an outcome that *)
(* was recorded.                                                           *)
NothingIsTakenBack == NameNeverOverwritten /\ TerminalIsFinal

(* The admission lock is never kept forever: every finalize ends or dies.  *)
AdmissionIsReleased ==
  \A p \in App : admission[p] # NoOne ~> admission[p] = NoOne

(* The staging files implement the abstract store; the rename is the step  *)
(* that publishes, whatever the record says at that time.                  *)
VerdictOf(a) ==
  CASE sha[a] # NoHash /\ out[a] = "gone" -> "published"
    [] disk[a] = "Verified" /\ out[a] # "gone" -> "sealed"
    [] disk[a] \in {"Failed", "Killed", "VerifiedUnpromoted"} -> "rejected"
    [] OTHER -> "open"

StagedVerdict == [a \in Attempt |-> VerdictOf(a)]

Store == INSTANCE AdapterStore WITH verdict <- StagedVerdict

ImplementsStore == Store!StoreSpec
=============================================================================
