------------------------- MODULE AdapterStaging_proofs -------------------------
(***************************************************************************)
(* Proofs about AdapterStaging, for every set of processes, attempts and   *)
(* adapter names, however many crashes and lost or half-reported writes.   *)
(* The argument is one inductive invariant, IInv: where the driving code   *)
(* stands (pc) fixes what the record, the value in memory, out/ and the    *)
(* adapter directory may say.                                              *)
(***************************************************************************)
EXTENDS AdapterStaging, TLAPS

(* Every variable keeps its type under every step. *)
LEMMA TypeStep == TypeOK /\ [Next]_vars => TypeOK'
<1> SUFFICES ASSUME TypeOK, [Next]_vars PROVE TypeOK'
  OBVIOUS
<1> USE SpecialValues
    DEF TypeOK, Finalizing, Preparing, Phase, AttemptState, Bytes, Content, NoHash,
        goto, files, LegalTransition, persist, write_record, MemHash, WriteResult
<1>1. ASSUME NEW a \in Attempt, MakeDirs(a) PROVE TypeOK'
  BY <1>1 DEF MakeDirs
<1>2. ASSUME NEW a \in Attempt, SpawnChild(a) PROVE TypeOK'
  BY <1>2 DEF SpawnChild
<1>3. ASSUME NEW a \in Attempt, SpawnFails(a) PROVE TypeOK'
  BY <1>3 DEF SpawnFails
<1>4. ASSUME NEW a \in Attempt, BeginFinalize(a) PROVE TypeOK'
  BY <1>4 DEF BeginFinalize
<1>5. ASSUME NEW a \in Attempt, WriteManifest(a) PROVE TypeOK'
  BY <1>5 DEF WriteManifest
<1>6. ASSUME NEW a \in Attempt, InspectFinal(a) PROVE TypeOK'
  BY <1>6 DEF InspectFinal
<1>7. ASSUME NEW a \in Attempt, RecheckContent(a) PROVE TypeOK'
  BY <1>7 DEF RecheckContent
<1>8. ASSUME NEW a \in Attempt, RenameExcl(a) PROVE TypeOK'
  BY <1>8 DEF RenameExcl
<1>9. ASSUME NEW a \in Attempt, PromoteFails(a) PROVE TypeOK'
  BY <1>9 DEF PromoteFails
<1>10. ASSUME NEW a \in Attempt, TrainerWrites(a) PROVE TypeOK'
  BY <1>10 DEF TrainerWrites
<1>11. ASSUME NEW a \in Attempt, TrainerExits(a) PROVE TypeOK'
  BY <1>11 DEF TrainerExits
<1>12. ASSUME NEW a \in Attempt, Tamper(a) PROVE TypeOK'
  BY <1>12 DEF Tamper
<1>13. ASSUME NEW a \in Attempt, Reconcile(a) PROVE TypeOK'
  BY <1>13 DEF Reconcile
<1>14. ASSUME NEW a \in Attempt, NEW w \in WriteResult, WriteCreated(a, w) PROVE TypeOK'
  BY <1>14 DEF WriteCreated
<1>15. ASSUME NEW a \in Attempt, NEW w \in WriteResult, ResumeFails(a, w) PROVE TypeOK'
  BY <1>15 DEF ResumeFails
<1>16. ASSUME NEW a \in Attempt, NEW w \in WriteResult, MarkRunning(a, w) PROVE TypeOK'
  BY <1>16 DEF MarkRunning
<1>17. ASSUME NEW a \in Attempt, NEW w \in WriteResult, Seal(a, w) PROVE TypeOK'
  BY <1>17 DEF Seal
<1>18. ASSUME NEW a \in Attempt, NEW w \in WriteResult, RecordVerified(a, w) PROVE TypeOK'
  BY <1>18 DEF RecordVerified
<1>19. ASSUME NEW a \in Attempt, NEW w \in WriteResult, RecordPromoted(a, w) PROVE TypeOK'
  BY <1>19 DEF RecordPromoted
<1>20. ASSUME NEW a \in Attempt, NEW w \in WriteResult, RecordUnpromoted(a, w) PROVE TypeOK'
  BY <1>20 DEF RecordUnpromoted
<1>21. ASSUME NEW a \in Attempt, NEW w \in WriteResult, RecordFailure(a, w) PROVE TypeOK'
  BY <1>21 DEF RecordFailure
<1>22. ASSUME NEW n \in Name, ForeignCreates(n) PROVE TypeOK'
  BY <1>22 DEF ForeignCreates
<1>23. ASSUME NEW p \in App, NEW n \in Name, DeleteAdapter(p, n) PROVE TypeOK'
  BY <1>23 DEF DeleteAdapter
<1>24. ASSUME NEW p \in App, Crash(p) PROVE TypeOK'
  BY <1>24 DEF Crash
<1>25. CASE UNCHANGED vars
  BY <1>25 DEF vars
<1> HIDE DEF TypeOK, goto, files, persist, write_record
<1> QED BY <1>1, <1>2, <1>3, <1>4, <1>5, <1>6, <1>7, <1>8, <1>9, <1>10, <1>11, <1>12,
       <1>13, <1>14, <1>15, <1>16, <1>17, <1>18, <1>19, <1>20, <1>21, <1>22, <1>23, <1>24, <1>25
    DEF Next, Worker

(* The types hold in every reachable state. *)
THEOREM TypeCorrect == Spec => []TypeOK
<1>1. Init => TypeOK
  BY DEF Init, TypeOK, Phase, AttemptState, Bytes, Content, NoHash
<1> QED BY <1>1, TypeStep, PTL DEF Spec

(* What the strengthening adds to the types is inductive: one step per      *)
(* action, and under the actions that move the directory, write the record  *)
(* or lose the process, one per part of the invariant.                      *)
LEMMA StoryStep == IInv /\ [Next]_vars => IInv'
<1>n. SUFFICES ASSUME IInv, [Next]_vars PROVE IInv'
  OBVIOUS
<1>t. TypeOK'
  BY <1>n, TypeStep DEF IInv
<1> USE <1>n, <1>t, SpecialValues
    DEF IInv, TypeOK, PhaseAgreesWithFiles, NamesAgreeWithRecords,
        FailureKeepsStaging, PublishedIsNeverFailed, PromotedHasLeftStaging,
        Staged, BeforeRename, Finalizing, Preparing, Phase,
        AttemptState, Bytes, Content, NoHash, goto, files,
        LegalTransition, persist, write_record, MemHash, WriteResult
<1>1. ASSUME NEW a \in Attempt, MakeDirs(a) PROVE IInv'
  BY <1>1 DEF MakeDirs
<1>2. ASSUME NEW a \in Attempt, SpawnChild(a) PROVE IInv'
  BY <1>2 DEF SpawnChild
<1>3. ASSUME NEW a \in Attempt, SpawnFails(a) PROVE IInv'
  BY <1>3 DEF SpawnFails
<1>4. ASSUME NEW a \in Attempt, BeginFinalize(a) PROVE IInv'
  BY <1>4 DEF BeginFinalize
<1>5. ASSUME NEW a \in Attempt, WriteManifest(a) PROVE IInv'
  BY <1>5 DEF WriteManifest
<1>6. ASSUME NEW a \in Attempt, InspectFinal(a) PROVE IInv'
  BY <1>6 DEF InspectFinal
<1>7. ASSUME NEW a \in Attempt, RecheckContent(a) PROVE IInv'
  BY <1>7 DEF RecheckContent, VerifiedContent
<1>8. ASSUME NEW a \in Attempt, RenameExcl(a) PROVE IInv'
  <2>1. PhaseAgreesWithFiles'
    BY <1>8 DEF RenameExcl
  <2>2. NamesAgreeWithRecords'
    BY <1>8 DEF RenameExcl
  <2>3. FailureKeepsStaging'
    BY <1>8 DEF RenameExcl
  <2>4. PublishedIsNeverFailed'
    BY <1>8 DEF RenameExcl
  <2>5. PromotedHasLeftStaging'
    BY <1>8 DEF RenameExcl
  <2> QED BY ONLY <1>t, <2>1, <2>2, <2>3, <2>4, <2>5 DEF IInv
<1>9. ASSUME NEW a \in Attempt, PromoteFails(a) PROVE IInv'
  BY <1>9 DEF PromoteFails
<1>10. ASSUME NEW a \in Attempt, TrainerWrites(a) PROVE IInv'
  BY <1>10 DEF TrainerWrites
<1>11. ASSUME NEW a \in Attempt, TrainerExits(a) PROVE IInv'
  BY <1>11 DEF TrainerExits
<1>12. ASSUME NEW a \in Attempt, Tamper(a) PROVE IInv'
  BY <1>12 DEF Tamper
<1>13. ASSUME NEW a \in Attempt, Reconcile(a) PROVE IInv'
  BY <1>13 DEF Reconcile, Converges, VerifiedContent
<1>14. ASSUME NEW a \in Attempt, NEW w \in WriteResult, WriteCreated(a, w) PROVE IInv'
  BY <1>14 DEF WriteCreated
<1>15. ASSUME NEW a \in Attempt, NEW w \in WriteResult, ResumeFails(a, w) PROVE IInv'
  BY <1>15 DEF ResumeFails
<1>16. ASSUME NEW a \in Attempt, NEW w \in WriteResult, MarkRunning(a, w) PROVE IInv'
  BY <1>16 DEF MarkRunning
<1>17. ASSUME NEW a \in Attempt, NEW w \in WriteResult, Seal(a, w) PROVE IInv'
  BY <1>17 DEF Seal
<1>18. ASSUME NEW a \in Attempt, NEW w \in WriteResult, RecordVerified(a, w) PROVE IInv'
  <2>1. PhaseAgreesWithFiles'
    BY <1>18 DEF RecordVerified
  <2>2. NamesAgreeWithRecords'
    BY <1>18 DEF RecordVerified
  <2>3. FailureKeepsStaging'
    BY <1>18 DEF RecordVerified
  <2>4. PublishedIsNeverFailed'
    BY <1>18 DEF RecordVerified
  <2>5. PromotedHasLeftStaging'
    BY <1>18 DEF RecordVerified
  <2> QED BY ONLY <1>t, <2>1, <2>2, <2>3, <2>4, <2>5 DEF IInv
<1>19. ASSUME NEW a \in Attempt, NEW w \in WriteResult, RecordPromoted(a, w) PROVE IInv'
  <2>1. PhaseAgreesWithFiles'
    BY <1>19 DEF RecordPromoted
  <2>2. NamesAgreeWithRecords'
    BY <1>19 DEF RecordPromoted
  <2>3. FailureKeepsStaging'
    BY <1>19 DEF RecordPromoted
  <2>4. PublishedIsNeverFailed'
    BY <1>19 DEF RecordPromoted
  <2>5. PromotedHasLeftStaging'
    BY <1>19 DEF RecordPromoted
  <2> QED BY ONLY <1>t, <2>1, <2>2, <2>3, <2>4, <2>5 DEF IInv
<1>20. ASSUME NEW a \in Attempt, NEW w \in WriteResult, RecordUnpromoted(a, w) PROVE IInv'
  BY <1>20 DEF RecordUnpromoted
<1>21. ASSUME NEW a \in Attempt, NEW w \in WriteResult, RecordFailure(a, w) PROVE IInv'
  <2>1. PhaseAgreesWithFiles'
    BY <1>21 DEF RecordFailure
  <2>2. NamesAgreeWithRecords'
    BY <1>21 DEF RecordFailure
  <2>3. FailureKeepsStaging'
    BY <1>21 DEF RecordFailure
  <2>4. PublishedIsNeverFailed'
    BY <1>21 DEF RecordFailure
  <2>5. PromotedHasLeftStaging'
    BY <1>21 DEF RecordFailure
  <2> QED BY ONLY <1>t, <2>1, <2>2, <2>3, <2>4, <2>5 DEF IInv
<1>22. ASSUME NEW n \in Name, ForeignCreates(n) PROVE IInv'
  BY <1>22 DEF ForeignCreates
<1>23. ASSUME NEW p \in App, NEW n \in Name, DeleteAdapter(p, n) PROVE IInv'
  <2>1. PhaseAgreesWithFiles'
    BY <1>23 DEF DeleteAdapter
  <2>2. NamesAgreeWithRecords'
    BY <1>23 DEF DeleteAdapter
  <2>3. FailureKeepsStaging'
    BY <1>23 DEF DeleteAdapter
  <2>4. PublishedIsNeverFailed'
    BY <1>23 DEF DeleteAdapter
  <2>5. PromotedHasLeftStaging'
    BY <1>23 DEF DeleteAdapter
  <2> QED BY ONLY <1>t, <2>1, <2>2, <2>3, <2>4, <2>5 DEF IInv
<1>24. ASSUME NEW p \in App, Crash(p) PROVE IInv'
  <2>1. PhaseAgreesWithFiles'
    BY <1>24 DEF Crash
  <2>2. NamesAgreeWithRecords'
    BY <1>24 DEF Crash
  <2>3. FailureKeepsStaging'
    BY <1>24 DEF Crash
  <2>4. PublishedIsNeverFailed'
    BY <1>24 DEF Crash
  <2>5. PromotedHasLeftStaging'
    BY <1>24 DEF Crash
  <2> QED BY ONLY <1>t, <2>1, <2>2, <2>3, <2>4, <2>5 DEF IInv
<1>25. CASE UNCHANGED vars
  BY <1>25 DEF vars
<1> HIDE DEF IInv, persist, write_record
<1> QED BY ONLY <1>n, <1>1, <1>2, <1>3, <1>4, <1>5, <1>6, <1>7, <1>8, <1>9, <1>10, <1>11, <1>12,
       <1>13, <1>14, <1>15, <1>16, <1>17, <1>18, <1>19, <1>20, <1>21, <1>22, <1>23, <1>24, <1>25
    DEF Next, Worker

(* The invariant holds in every reachable state. *)
THEOREM Invariant == Spec => []IInv
<1>1. Init => IInv
  BY SpecialValues DEF Init, IInv, TypeOK, PhaseAgreesWithFiles, NamesAgreeWithRecords,
        FailureKeepsStaging, PublishedIsNeverFailed, PromotedHasLeftStaging,
     Staged, BeforeRename, Finalizing, Preparing, Phase, AttemptState, Bytes, Content, NoHash
<1> QED BY <1>1, StoryStep, PTL DEF Spec

(* The output of an attempt that ran and was not promoted stays in staging. *)
THEOREM StagingIsKept == Spec => []FailureKeepsStaging
<1>1. IInv => FailureKeepsStaging
  BY DEF IInv
<1> QED BY <1>1, Invariant, PTL

(* A published directory is never recorded as a failure. *)
THEOREM PublishedNotFailed == Spec => []PublishedIsNeverFailed
<1>1. IInv => PublishedIsNeverFailed
  BY DEF IInv
<1> QED BY <1>1, Invariant, PTL

(* The record says promoted only after the output left staging. *)
THEOREM PromotedLeft == Spec => []PromotedHasLeftStaging
<1>1. IInv => PromotedHasLeftStaging
  BY DEF IInv
<1> QED BY <1>1, Invariant, PTL

(* An intact published adapter is always recognised by the inventory. *)
THEOREM AlwaysRecognised == Spec => []PublishedNeverUnknown
<1>1. IInv => PublishedNeverUnknown
  <2> SUFFICES ASSUME IInv, NEW n \in Name, NEW a \in Attempt, owner[n] = a, kept[n] = keptMan[n]
               PROVE Listed(a) \in {"would_converge_promoted", "unchanged"}
    BY DEF PublishedNeverUnknown
  <2>1. disk[a] \in {"Verified", "Promoted"} /\ out[a] = "gone" /\ name[a] = n
    BY DEF IInv, PublishedIsNeverFailed
  <2>2. sha[a] # NoHash /\ keptMan[n] \in {sha[a], NoHash}
    BY DEF IInv, NamesAgreeWithRecords
  <2>3. keptMan[n] # NoHash
    BY DEF IInv, TypeOK, Bytes, NoHash
  <2>4. Converges(a)
    BY <2>1, <2>2, <2>3, SpecialValues DEF Converges, VerifiedContent
  <2> QED BY <2>1, <2>4 DEF Listed
<1> QED BY <1>1, Invariant, PTL

(* Only the exclusive rename, a foreign directory and a deletion touch the  *)
(* adapter names.                                                           *)
LEMMA OwnerChanges ==
  [Next]_vars => \/ \E a \in Attempt : RenameExcl(a)
                 \/ \E n \in Name : ForeignCreates(n)
                 \/ \E p \in App, n \in Name : DeleteAdapter(p, n)
                 \/ UNCHANGED owner
<1> SUFFICES ASSUME [Next]_vars,
                    \A a \in Attempt : ~RenameExcl(a),
                    \A n \in Name : ~ForeignCreates(n),
                    \A p \in App, n \in Name : ~DeleteAdapter(p, n)
             PROVE  UNCHANGED owner
  OBVIOUS
<1>1. CASE UNCHANGED vars
  BY <1>1 DEF vars
<1>2. CASE \E a \in Attempt : Worker(a)
  BY <1>2 DEF Worker, files, MakeDirs, SpawnChild, SpawnFails, BeginFinalize, WriteManifest,
     InspectFinal, RecheckContent, PromoteFails, WriteCreated, ResumeFails, MarkRunning,
     Seal, RecordVerified, RecordPromoted, RecordUnpromoted, RecordFailure
<1>3. CASE \E a \in Attempt : TrainerWrites(a) \/ TrainerExits(a) \/ Tamper(a) \/ Reconcile(a)
  BY <1>3 DEF files, TrainerWrites, TrainerExits, Tamper, Reconcile
<1>4. CASE \E p \in App : Crash(p)
  BY <1>4 DEF files, Crash
<1> QED BY <1>1, <1>2, <1>3, <1>4 DEF Next

(* A taken name is freed before somebody else holds it. *)
THEOREM NoOverwrite == Spec => NameNeverOverwritten
<1>1. TypeOK /\ [Next]_vars =>
        [\A n \in Name : owner[n] # NoOne => owner'[n] \in {owner[n], NoOne}]_vars
  <2> SUFFICES ASSUME TypeOK, [Next]_vars, NEW n \in Name, owner[n] # NoOne
               PROVE owner'[n] \in {owner[n], NoOne}
    OBVIOUS
  <2>1. CASE \E a \in Attempt : RenameExcl(a)
    BY <2>1 DEF RenameExcl, TypeOK
  <2>2. CASE \E m \in Name : ForeignCreates(m)
    BY <2>2 DEF ForeignCreates, TypeOK
  <2>3. CASE \E p \in App, m \in Name : DeleteAdapter(p, m)
    BY <2>3 DEF DeleteAdapter, TypeOK
  <2>4. CASE UNCHANGED owner
    BY <2>4
  <2> QED BY <2>1, <2>2, <2>3, <2>4, OwnerChanges
<1> QED BY <1>1, TypeCorrect, PTL DEF Spec, NameNeverOverwritten

(* Whatever appears under a name was verified and recorded as such. *)
THEOREM PublishesVerified == Spec => OnlyVerifiedIsPublished
<1>1. IInv /\ [Next]_vars =>
        [\A n \in Name, a \in Attempt : owner[n] # a /\ owner'[n] = a =>
           /\ disk[a] = "Verified"
           /\ keptMan'[n] = sha[a]
           /\ kept'[n] = keptMan'[n] \/ a \in late]_vars
  <2> SUFFICES ASSUME IInv, [Next]_vars,
                      NEW n \in Name, NEW a \in Attempt, owner[n] # a, owner'[n] = a
               PROVE  /\ disk[a] = "Verified"
                      /\ keptMan'[n] = sha[a]
                      /\ kept'[n] = keptMan'[n] \/ a \in late
    OBVIOUS
  <2> USE DEF IInv, TypeOK
  <2>1. ASSUME NEW b \in Attempt, RenameExcl(b) PROVE RenameExcl(a) /\ name[a] = n
    BY <2>1 DEF RenameExcl
  <2>2. CASE RenameExcl(a) /\ name[a] = n
    BY <2>2 DEF RenameExcl, PhaseAgreesWithFiles, BeforeRename
  <2>3. ASSUME NEW m \in Name, ForeignCreates(m) PROVE FALSE
    BY <2>3, SpecialValues DEF ForeignCreates
  <2>4. ASSUME NEW p \in App, NEW m \in Name, DeleteAdapter(p, m) PROVE FALSE
    BY <2>4, SpecialValues DEF DeleteAdapter
  <2> QED BY <2>1, <2>2, <2>3, <2>4, OwnerChanges
<1> QED BY <1>1, Invariant, PTL DEF Spec, OnlyVerifiedIsPublished

(* Failed, killed and promoted records are never rewritten. *)
THEOREM TerminalStays == Spec => TerminalIsFinal
<1>1. IInv /\ [Next]_vars =>
        [\A a \in Attempt : disk[a] \in {"Failed", "Killed", "Promoted"} => disk'[a] = disk[a]]_vars
  <2> SUFFICES ASSUME IInv, [Next]_vars, NEW a \in Attempt,
                      disk[a] \in {"Failed", "Killed", "Promoted"}
               PROVE  disk'[a] = disk[a]
    OBVIOUS
  <2>1. pc[a] \in {"renamed", "done", "lost"}
    BY DEF IInv, TypeOK, PhaseAgreesWithFiles, Staged, Finalizing, Preparing, Phase
  <2>2. pc[a] = "renamed" => disk[a] = "Promoted"
    BY DEF IInv, PhaseAgreesWithFiles
  <2> USE DEF IInv, TypeOK, files, persist, write_record
  <2>3. ASSUME NEW b \in Attempt, Worker(b) PROVE disk'[a] = disk[a]
    <3>1. CASE b # a
      BY <2>3, <3>1 DEF Worker, MakeDirs, SpawnChild, SpawnFails, BeginFinalize, WriteManifest,
         InspectFinal, RecheckContent, RenameExcl, PromoteFails, WriteCreated, ResumeFails,
         MarkRunning, Seal, RecordVerified, RecordPromoted, RecordUnpromoted, RecordFailure
    <3>2. CASE b = a
      BY <2>1, <2>2, <2>3, <3>2 DEF Worker, MakeDirs, SpawnChild, SpawnFails, BeginFinalize,
         WriteManifest, InspectFinal, RecheckContent, RenameExcl, PromoteFails, WriteCreated,
         ResumeFails, MarkRunning, Seal, RecordVerified, RecordPromoted, RecordUnpromoted,
         RecordFailure
    <3> QED BY <3>1, <3>2
  <2>4. ASSUME NEW b \in Attempt, TrainerWrites(b) \/ TrainerExits(b) \/ Tamper(b) \/ Reconcile(b)
        PROVE  disk'[a] = disk[a]
    BY <2>4 DEF TrainerWrites, TrainerExits, Tamper, Reconcile
  <2>5. CASE (\E n \in Name : ForeignCreates(n)) \/ (\E p \in App, n \in Name : DeleteAdapter(p, n))
             \/ (\E p \in App : Crash(p)) \/ UNCHANGED vars
    BY <2>5 DEF ForeignCreates, DeleteAdapter, Crash, vars
  <2> QED BY <2>3, <2>4, <2>5 DEF Next
<1> QED BY <1>1, Invariant, PTL DEF Spec, TerminalIsFinal

----------------------------------------------------------------------------
(* Refinement: what each step does to the verdict of an attempt. *)

(* One attempt changes its verdict, the others keep theirs. *)
LEMMA OneVerdict ==
  ASSUME NEW a \in Attempt, NEW v, VerdictOf(a)' = v,
         \A b \in Attempt \ {a} : VerdictOf(b)' = VerdictOf(b)
  PROVE  StagedVerdict' = [StagedVerdict EXCEPT ![a] = v]
BY DEF StagedVerdict

(* All attempts keep their verdicts. *)
LEMMA NoVerdict ==
  ASSUME \A b \in Attempt : VerdictOf(b)' = VerdictOf(b)
  PROVE  StagedVerdict' = StagedVerdict
BY DEF StagedVerdict

(* Verdicts depend on the record, the hash and the presence of out/ only. *)
LEMMA SameVerdict ==
  ASSUME NEW b \in Attempt, disk'[b] = disk[b], sha'[b] = sha[b],
         (out'[b] = "gone") <=> (out[b] = "gone")
  PROVE  VerdictOf(b)' = VerdictOf(b)
BY DEF VerdictOf

(* Every step is one of the store's or leaves the store alone. *)
LEMMA StepRefines == IInv /\ [Next]_vars => [Store!StoreNext]_<<owner, StagedVerdict>>
<1> SUFFICES ASSUME IInv, [Next]_vars
             PROVE  Store!StoreNext \/ UNCHANGED <<owner, StagedVerdict>>
  OBVIOUS
<1> USE DEF IInv, TypeOK, PhaseAgreesWithFiles, files, goto, persist, write_record
<1>1. ASSUME NEW a \in Attempt,
             \/ MakeDirs(a) \/ SpawnChild(a) \/ SpawnFails(a) \/ BeginFinalize(a)
             \/ WriteManifest(a) \/ InspectFinal(a) \/ RecheckContent(a) \/ PromoteFails(a)
             \/ TrainerWrites(a) \/ TrainerExits(a) \/ Tamper(a) \/ Reconcile(a)
             \/ \E w \in WriteResult :
                  WriteCreated(a, w) \/ MarkRunning(a, w) \/ Seal(a, w) \/ RecordPromoted(a, w)
      PROVE  UNCHANGED <<owner, StagedVerdict>>
  <2>1. \A b \in Attempt \ {a} : VerdictOf(b)' = VerdictOf(b)
    BY <1>1 DEF VerdictOf, MakeDirs, SpawnChild, SpawnFails, BeginFinalize, WriteManifest,
       InspectFinal, RecheckContent, PromoteFails, TrainerWrites, TrainerExits, Tamper,
       Reconcile, WriteCreated, MarkRunning, Seal, RecordPromoted
  <2>2. VerdictOf(a)' = VerdictOf(a)
    BY <1>1 DEF VerdictOf, MakeDirs, SpawnChild, SpawnFails, BeginFinalize, WriteManifest,
       InspectFinal, RecheckContent, PromoteFails, TrainerWrites, TrainerExits, Tamper,
       Reconcile, Converges, WriteCreated, MarkRunning, Seal, RecordPromoted, MemHash,
       NoHash, Staged, Finalizing
  <2>3. UNCHANGED owner
    BY <1>1 DEF MakeDirs, SpawnChild, SpawnFails, BeginFinalize, WriteManifest,
       InspectFinal, RecheckContent, PromoteFails, TrainerWrites, TrainerExits, Tamper,
       Reconcile, WriteCreated, MarkRunning, Seal, RecordPromoted
  <2> QED BY <2>1, <2>2, <2>3, NoVerdict
<1>2. ASSUME NEW a \in Attempt, NEW w \in WriteResult, RecordVerified(a, w)
      PROVE  Store!Seal(a) \/ UNCHANGED <<owner, StagedVerdict>>
  <2>0. UNCHANGED owner /\ \A b \in Attempt \ {a} : VerdictOf(b)' = VerdictOf(b)
    BY <1>2 DEF RecordVerified, VerdictOf
  <2>1. VerdictOf(a) = "open" /\ VerdictOf(a)' \in {"open", "sealed"}
    BY <1>2 DEF RecordVerified, VerdictOf, NoHash, Staged, Finalizing
  <2>2. CASE VerdictOf(a)' = "sealed"
    BY <2>0, <2>1, <2>2, OneVerdict DEF Store!Seal, StagedVerdict
  <2>3. CASE VerdictOf(a)' = "open"
    BY <2>0, <2>1, <2>3, NoVerdict
  <2> QED BY <2>1, <2>2, <2>3
<1>3. ASSUME NEW a \in Attempt, NEW w \in WriteResult,
             ResumeFails(a, w) \/ RecordUnpromoted(a, w) \/ RecordFailure(a, w)
      PROVE  Store!Reject(a) \/ UNCHANGED <<owner, StagedVerdict>>
  <2>0. UNCHANGED owner /\ \A b \in Attempt \ {a} : VerdictOf(b)' = VerdictOf(b)
    BY <1>3 DEF ResumeFails, RecordUnpromoted, RecordFailure, VerdictOf
  <2>1. out'[a] = out[a] /\ out[a] # "gone"
    BY <1>3 DEF ResumeFails, RecordUnpromoted, RecordFailure, Staged, Finalizing
  <2>2. VerdictOf(a) \in {"open", "sealed", "rejected"}
    BY <2>1 DEF VerdictOf
  <2>3. VerdictOf(a)' \in {VerdictOf(a), "rejected"}
    BY <1>3, <2>1 DEF ResumeFails, RecordUnpromoted, RecordFailure, VerdictOf
  <2>4. CASE VerdictOf(a)' = VerdictOf(a)
    BY <2>0, <2>4, NoVerdict
  <2>5. CASE VerdictOf(a)' = "rejected" /\ VerdictOf(a) \in {"open", "sealed"}
    BY <2>0, <2>5, OneVerdict DEF Store!Reject, StagedVerdict
  <2> QED BY <2>2, <2>3, <2>4, <2>5
<1>4. ASSUME NEW a \in Attempt, RenameExcl(a)
      PROVE  Store!Publish(a, name[a]) \/ UNCHANGED <<owner, StagedVerdict>>
  <2>1. \A b \in Attempt \ {a} : VerdictOf(b)' = VerdictOf(b)
    BY <1>4 DEF RenameExcl, VerdictOf
  <2>2. CASE owner[name[a]] = NoOne
    <3>1. VerdictOf(a) = "sealed" /\ VerdictOf(a)' = "published"
      BY <1>4, <2>2 DEF RenameExcl, VerdictOf, BeforeRename, Staged, Finalizing
    <3>2. owner' = [owner EXCEPT ![name[a]] = a]
      BY <1>4, <2>2 DEF RenameExcl
    <3> QED BY <2>1, <2>2, <3>1, <3>2, OneVerdict DEF Store!Publish, StagedVerdict
  <2>3. CASE owner[name[a]] # NoOne
    BY <1>4, <2>1, <2>3, NoVerdict DEF RenameExcl, VerdictOf
  <2> QED BY <2>2, <2>3
<1>5. ASSUME NEW n \in Name, ForeignCreates(n) PROVE Store!Occupy(n)
  BY <1>5 DEF ForeignCreates, Store!Occupy, StagedVerdict, VerdictOf
<1>6. ASSUME NEW p \in App, NEW n \in Name, DeleteAdapter(p, n)
      PROVE  Store!Vacate(n) \/ UNCHANGED <<owner, StagedVerdict>>
  BY <1>6 DEF DeleteAdapter, Store!Vacate, StagedVerdict, VerdictOf
<1>7. ASSUME (\E p \in App : Crash(p)) \/ UNCHANGED vars
      PROVE  UNCHANGED <<owner, StagedVerdict>>
  BY <1>7 DEF Crash, vars, StagedVerdict, VerdictOf
<1>8. \A a \in Attempt : name[a] \in Name
  OBVIOUS
<1> HIDE DEF IInv, TypeOK, PhaseAgreesWithFiles
<1> QED BY <1>1, <1>2, <1>3, <1>4, <1>5, <1>6, <1>7, <1>8 DEF Next, Worker, Store!StoreNext

(* The staging files implement the abstract adapter store. *)
THEOREM Refinement == Spec => ImplementsStore
<1>1. Init => Store!StoreInit
  BY DEF Init, Store!StoreInit, StagedVerdict, VerdictOf, NoHash
<1> QED BY <1>1, StepRefines, Invariant, PTL DEF Spec, ImplementsStore, Store!StoreSpec, Store!storeVars

(* What the store promises holds of the files: an adapter name is held by   *)
(* an attempt that published, and by no other name of that attempt.         *)
THEOREM StorePromise == Spec => []Store!OnlyPublishedHoldNames
<1>1. IInv => Store!OnlyPublishedHoldNames
  BY DEF IInv, NamesAgreeWithRecords, PublishedIsNeverFailed, Store!OnlyPublishedHoldNames,
     StagedVerdict, VerdictOf
<1> QED BY <1>1, Invariant, PTL

(* Files, records and the driving code agree on one story in every reachable *)
(* state: the invariant, with what it means for the inventory.               *)
THEOREM OneStoryAlways == Spec => []OneStory
<1>1. IInv /\ PublishedNeverUnknown => OneStory
  BY DEF OneStory
<1> QED BY <1>1, Invariant, AlwaysRecognised, PTL

(* No step takes back a name that is taken or an outcome that was recorded. *)
THEOREM NothingTakenBack == Spec => NothingIsTakenBack
  BY NoOverwrite, TerminalStays DEF NothingIsTakenBack
=============================================================================
