-------------------------- MODULE TrainingLifecycle_proofs --------------------------
\* The training slot, for any runs, pids, names and any number of stop commands.
EXTENDS TrainingLifecycle, TLAPS

Preparing(r) == pc[r] \in {"reserved", "prepared"}
Published(r) == pc[r] \in {"running", "reaped", "promoting", "publishing", "recording", "ended"}

\* The phase of a run tells what its child and its attempt can be, and finalize
\* decides only once the child was reaped.
PhaseAgrees ==
  \A r \in Run :
    /\ pc[r] \in {"idle", "admitted", "reserved", "refused"} => child[r] = "none"
    /\ pc[r] = "prepared" \/ Published(r) => pid[r] # NoOne /\ child[r] # "none"
    /\ pc[r] \in {"reaped", "promoting", "publishing", "recording", "ended"} => child[r] = "reaped"
    /\ attempt[r] = "promoted" => pc[r] \in {"publishing", "ended"}
    /\ killed[r] => pc[r] \in {"publishing", "recording", "ended"}

\* A finalize holds the lock from its decision to the terminal record.
FinalizeHoldsLock ==
  \A r \in Run : pc[r] \in {"promoting", "publishing", "recording"} => lock = r

\* From the reservation to the publication the slot is the run's.
ReservationStands ==
  \A r \in Run : Preparing(r) =>
    /\ slot = [pid |-> NoOne, status |-> "running", path |-> NoOne, run |-> r]
    /\ ~NonTerminal(prev[r].status)

\* A slot that shows a pid shows that of its run, and so does the stop object.
Sane(s) ==
  /\ s.pid # NoOne => /\ s.run \in Run /\ Published(s.run)
                      /\ pid[s.run] = s.pid /\ stop = [pid |-> s.pid, run |-> s.run]
  /\ s.pid = NoOne => s = NoSlot

SlotIsSane ==
  /\ (\A r \in Run : ~Preparing(r)) => Sane(slot)
  /\ \A r \in Run : Preparing(r) => Sane(prev[r])
  /\ \A k \in Kill : kpc[k] # "idle" => kpid[k] # NoOne

\* What the slot, or the one kept for a rollback, says of its run.
Truth(s) ==
  s.run # NoOne =>
    /\ s.status = "done" => attempt[s.run] = "promoted"
    /\ s.status = "killed" => flag[s.run] \/ killed[s.run]
    /\ pc[s.run] = "ended" /\ attempt[s.run] = "promoted" => s.status = "done" \/ s.run \in unstopped
    /\ pc[s.run] \in {"recording", "ended"} => ~NonTerminal(s.status)

SlotIsTrue == Truth(slot) /\ \A r \in Run : Preparing(r) => Truth(prev[r])

\* A run whose finalize decided to promote keeps the slot until it is published.
PromotingOwns ==
  \A r \in Run : pc[r] = "promoting" \/ (pc[r] = "publishing" /\ attempt[r] = "promoted") =>
    /\ slot.pid # NoOne /\ slot.run = r
    /\ slot.status \in {"running", "paused", "killed"} \/ r \in unstopped

\* Whoever runs unasked has the slot; the benchmark measures beside nobody.
SlotShowsRunner ==
  /\ \A r \in Run : child[r] = "alive" /\ r \notin asked => slot.run = r /\ NonTerminal(slot.status)
  /\ benchmark = "measuring" => ~NonTerminal(slot.status)

\* A stop that came in time ends the slot's claim on the GPU, and the decision
\* of finalize finds it.
AskedIsStopped ==
  \A r \in asked :
    /\ Published(r) /\ pc[r] # "promoting" /\ attempt[r] # "promoted"
    /\ slot.run = r => ~NonTerminal(slot.status)
    /\ pc[r] \in {"publishing", "recording", "ended"} /\ flag[r] => killed[r]

TrInv ==
  /\ TypeOK /\ PhaseAgrees /\ FinalizeHoldsLock /\ ReservationStands /\ SlotIsSane /\ SlotIsTrue
  /\ PromotingOwns /\ SlotShowsRunner /\ AskedIsStopped /\ PromotedSurvivesUntilPublished
-----------------------------------------------------------------------------
\* At the start the slot is empty and nothing runs.
LEMMA TrInitInv == Init => TrInv
<1> SUFFICES ASSUME Init PROVE TrInv
  OBVIOUS
<1>1. TypeOK
  BY NobodyIsNobody DEF Init, TypeOK, Slot, NoSlot, Status, Phase
<1>2. PhaseAgrees /\ FinalizeHoldsLock /\ ReservationStands
  BY DEF Init, PhaseAgrees, FinalizeHoldsLock, ReservationStands, Preparing, Published
<1>3. SlotIsSane /\ SlotIsTrue
  BY DEF Init, SlotIsSane, SlotIsTrue, Sane, Truth, NoSlot, Preparing
<1>4. PromotingOwns /\ SlotShowsRunner /\ AskedIsStopped /\ PromotedSurvivesUntilPublished
  BY DEF Init, PromotingOwns, SlotShowsRunner, AskedIsStopped, PromotedSurvivesUntilPublished
<1>5. QED
  BY <1>1, <1>2, <1>3, <1>4 DEF TrInv

\* A start is let in or refused.
LEMMA CheckAdmissionInv ==
  ASSUME TrInv, NEW r \in Run, CheckAdmission(r)
  PROVE  TrInv'
<1>1. TypeOK'
  BY DEF TrInv, CheckAdmission, Phase, goto, TypeOK
<1>2. PhaseAgrees'
  BY DEF TrInv, CheckAdmission, goto, Published, TypeOK, PhaseAgrees
<1>3. FinalizeHoldsLock'
  BY DEF TrInv, CheckAdmission, goto, TypeOK, FinalizeHoldsLock
<1>4. ReservationStands'
  BY DEF TrInv, CheckAdmission, goto, Preparing, TypeOK, ReservationStands
<1>5. SlotIsSane'
  BY DEF TrInv, CheckAdmission, goto, Preparing, Published, Sane, TypeOK, SlotIsSane
<1>6. SlotIsTrue'
  BY DEF TrInv, CheckAdmission, Slot, goto, Preparing, Truth, TypeOK, SlotIsTrue
<1>7. PromotingOwns'
  BY DEF TrInv, CheckAdmission, goto, TypeOK, PromotingOwns
<1>8. SlotShowsRunner'
  BY DEF TrInv, CheckAdmission, SlotShowsRunner
<1>9. AskedIsStopped'
  BY DEF TrInv, CheckAdmission, goto, Published, TypeOK, AskedIsStopped
<1>10. PromotedSurvivesUntilPublished'
  BY DEF TrInv, CheckAdmission, goto, TypeOK, PromotedSurvivesUntilPublished
<1>11. QED
  BY <1>1, <1>2, <1>3, <1>4, <1>5, <1>6, <1>7, <1>8, <1>9, <1>10 DEF TrInv

\* A start reserves the slot, which then belongs to nobody that runs.
LEMMA ReserveInv ==
  ASSUME TrInv, NEW r \in Run, Reserve(r)
  PROVE  TrInv'
<1>1. TypeOK'
  <2>1. slot' \in Slot
    BY DEF TrInv, TypeOK, Reserve, Slot, Status
  <2>2. prev' \in [Run -> Slot]
    BY DEF TrInv, TypeOK, Reserve
  <2>3. pc' \in [Run -> Phase]
    BY DEF TrInv, TypeOK, Reserve, goto, Phase
  <2>4. QED
    BY <2>1, <2>2, <2>3 DEF TrInv, TypeOK, Reserve
<1>2. PhaseAgrees' /\ FinalizeHoldsLock' /\ ReservationStands' /\ SlotShowsRunner'
      /\ AskedIsStopped' /\ PromotedSurvivesUntilPublished'
  BY DEF TrInv, Reserve, goto, Published, TypeOK, PhaseAgrees, FinalizeHoldsLock,
     NonTerminal, Preparing, ReservationStands, SlotShowsRunner, AskedIsStopped,
     PromotedSurvivesUntilPublished
<1>3. SlotIsSane'
  BY DEF TrInv, Reserve, NonTerminal, goto, Preparing, Published, Sane, TypeOK,
     ReservationStands, SlotIsSane
<1>4. SlotIsTrue'
  BY DEF TrInv, Reserve, Slot, goto, Preparing, Truth, TypeOK, ReservationStands, SlotIsTrue
<1>5. PromotingOwns'
  BY NobodyIsNobody DEF TrInv, Reserve, goto, TypeOK, FinalizeHoldsLock, PromotingOwns
<1>6. QED
  BY <1>1, <1>2, <1>3, <1>4, <1>5 DEF TrInv

\* A start fails and puts back the slot it found.
LEMMA PrepareFailsInv ==
  ASSUME TrInv, NEW r \in Run, PrepareFails(r)
  PROVE  TrInv'
<1>1. TypeOK'
  BY DEF TrInv, PrepareFails, Slot, Status, Phase, NoSlot, goto, TypeOK
<1>2. PhaseAgrees' /\ FinalizeHoldsLock' /\ ReservationStands' /\ SlotIsSane'
      /\ PromotedSurvivesUntilPublished'
  BY DEF TrInv, PrepareFails, goto, Published, TypeOK, PhaseAgrees, FinalizeHoldsLock,
     Preparing, ReservationStands, Sane, SlotIsSane, PromotedSurvivesUntilPublished
<1>3. SlotIsTrue'
  BY DEF TrInv, PrepareFails, Slot, goto, Preparing, Truth, TypeOK, PhaseAgrees, SlotIsTrue
<1>4. PromotingOwns'
  BY DEF TrInv, PrepareFails, goto, Preparing, TypeOK, ReservationStands, PromotingOwns
<1>5. SlotShowsRunner'
  BY DEF TrInv, PrepareFails, Preparing, PhaseAgrees, ReservationStands, SlotShowsRunner
<1>6. AskedIsStopped'
  BY DEF TrInv, PrepareFails, goto, Preparing, Published, TypeOK, ReservationStands,
     AskedIsStopped
<1>7. QED
  BY <1>1, <1>2, <1>3, <1>4, <1>5, <1>6 DEF TrInv

\* A start spawns the child while the slot is reserved for it.
LEMMA PrepareInv ==
  ASSUME TrInv, NEW r \in Run, NEW p \in Pid, Prepare(r, p)
  PROVE  TrInv'
<1>1. TypeOK'
  BY DEF TrInv, Prepare, Phase, goto, TypeOK
<1>2. PhaseAgrees' /\ FinalizeHoldsLock' /\ ReservationStands' /\ SlotIsSane' /\ PromotingOwns'
      /\ AskedIsStopped' /\ PromotedSurvivesUntilPublished'
  BY NobodyIsNobody DEF TrInv, Prepare, goto, Published, TypeOK, PhaseAgrees,
     FinalizeHoldsLock, Preparing, ReservationStands, Sane, SlotIsSane, PromotingOwns,
     AskedIsStopped, PromotedSurvivesUntilPublished
<1>3. SlotIsTrue'
  BY DEF TrInv, Prepare, goto, Preparing, Truth, PhaseAgrees, SlotIsTrue
<1>4. SlotShowsRunner'
  BY DEF TrInv, Prepare, NonTerminal, Preparing, ReservationStands, SlotShowsRunner
<1>5. QED
  BY <1>1, <1>2, <1>3, <1>4 DEF TrInv

\* A start publishes the pid of its child.
LEMMA PublishSlotInv ==
  ASSUME TrInv, NEW r \in Run, PublishSlot(r)
  PROVE  TrInv'
<1>1. TypeOK'
  BY DEF TrInv, PublishSlot, Slot, Status, Phase, NoSlot, goto, TypeOK
<1>2. PhaseAgrees' /\ FinalizeHoldsLock' /\ ReservationStands' /\ SlotIsTrue' /\ AskedIsStopped'
      /\ PromotedSurvivesUntilPublished'
  BY DEF TrInv, PublishSlot, goto, Published, PhaseAgrees, FinalizeHoldsLock, Preparing,
     TypeOK, ReservationStands, Truth, SlotIsTrue, AskedIsStopped,
     PromotedSurvivesUntilPublished
<1>3. SlotIsSane'
  BY DEF TrInv, PublishSlot, goto, Preparing, Published, Sane, TypeOK, PhaseAgrees,
     ReservationStands, SlotIsSane
<1>4. PromotingOwns'
  BY DEF TrInv, PublishSlot, goto, Preparing, ReservationStands, PromotingOwns
<1>5. SlotShowsRunner'
  BY DEF TrInv, PublishSlot, Preparing, ReservationStands, SlotShowsRunner
<1>6. QED
  BY <1>1, <1>2, <1>3, <1>4, <1>5 DEF TrInv

\* A child ends.
LEMMA ChildExitsInv ==
  ASSUME TrInv, NEW r \in Run, ChildExits(r)
  PROVE  TrInv'
<1>1. TypeOK'
  BY DEF TrInv, ChildExits, TypeOK
<1>2. PhaseAgrees' /\ FinalizeHoldsLock' /\ ReservationStands' /\ SlotIsSane' /\ SlotIsTrue'
      /\ PromotingOwns' /\ SlotShowsRunner' /\ AskedIsStopped'
      /\ PromotedSurvivesUntilPublished'
  BY DEF TrInv, ChildExits, Published, PhaseAgrees, FinalizeHoldsLock, Preparing,
     ReservationStands, Sane, SlotIsSane, Truth, SlotIsTrue, PromotingOwns, SlotShowsRunner,
     AskedIsStopped, PromotedSurvivesUntilPublished
<1>3. QED
  BY <1>1, <1>2 DEF TrInv

\* The reader reaps the child.
LEMMA ReapInv ==
  ASSUME TrInv, NEW r \in Run, Reap(r)
  PROVE  TrInv'
<1>1. TypeOK'
  BY DEF TrInv, Reap, Phase, goto, TypeOK
<1>2. PhaseAgrees' /\ FinalizeHoldsLock' /\ ReservationStands' /\ SlotIsSane' /\ SlotIsTrue'
      /\ PromotingOwns' /\ SlotShowsRunner' /\ AskedIsStopped'
      /\ PromotedSurvivesUntilPublished'
  BY DEF TrInv, Reap, goto, Published, TypeOK, PhaseAgrees, FinalizeHoldsLock, Preparing,
     ReservationStands, Sane, SlotIsSane, Truth, SlotIsTrue, PromotingOwns, SlotShowsRunner,
     AskedIsStopped, PromotedSurvivesUntilPublished
<1>3. QED
  BY <1>1, <1>2 DEF TrInv

\* Finalize decides: it promotes only a run that still has the slot.
LEMMA SnapshotInv ==
  ASSUME TrInv, NEW r \in Run, Snapshot(r)
  PROVE  TrInv'
<1>1. TypeOK'
  BY DEF TrInv, Snapshot, Phase, goto, TypeOK
<1>2. PhaseAgrees' /\ FinalizeHoldsLock' /\ ReservationStands' /\ SlotIsSane' /\ SlotShowsRunner'
  BY NobodyIsNobody DEF TrInv, Snapshot, goto, Published, TypeOK, PhaseAgrees,
     FinalizeHoldsLock, Preparing, ReservationStands, Sane, SlotIsSane, SlotShowsRunner
<1>3. SlotIsTrue'
  BY DEF TrInv, Snapshot, goto, Preparing, Published, Truth, PhaseAgrees, SlotIsTrue
<1>4. PromotingOwns'
  BY DEF TrInv, Snapshot, NonTerminal, Owns, goto, Published, Sane, PhaseAgrees,
     ReservationStands, SlotIsSane, PromotingOwns
<1>5. AskedIsStopped'
  BY DEF TrInv, Snapshot, Owns, goto, Published, Sane, TypeOK, PhaseAgrees,
     ReservationStands, SlotIsSane, AskedIsStopped
<1>6. PromotedSurvivesUntilPublished'
  BY DEF TrInv, Snapshot, goto, PhaseAgrees, PromotedSurvivesUntilPublished
<1>7. QED
  BY <1>1, <1>2, <1>3, <1>4, <1>5, <1>6 DEF TrInv

\* Finalize promotes the adapter, or does not.
LEMMA PromoteInv ==
  ASSUME TrInv, NEW r \in Run, Promote(r)
  PROVE  TrInv'
<1>1. TypeOK'
  BY DEF TrInv, Promote, Phase, NoSlot, goto, Sane, PhaseAgrees, PromotingOwns, TypeOK
<1>2. PhaseAgrees' /\ FinalizeHoldsLock' /\ ReservationStands' /\ SlotIsSane' /\ SlotIsTrue'
      /\ PromotingOwns' /\ SlotShowsRunner' /\ AskedIsStopped'
  BY DEF TrInv, Promote, goto, Published, TypeOK, PhaseAgrees, FinalizeHoldsLock, Preparing,
     ReservationStands, Sane, SlotIsSane, Slot, Truth, SlotIsTrue, PromotingOwns,
     SlotShowsRunner, AskedIsStopped
<1>3. PromotedSurvivesUntilPublished'
  BY NobodyIsNobody DEF TrInv, Promote, goto, TypeOK, PhaseAgrees,
     PromotedSurvivesUntilPublished
<1>4. QED
  BY <1>1, <1>2, <1>3 DEF TrInv

\* Finalize tells the slot.
LEMMA PublishInv ==
  ASSUME TrInv, NEW r \in Run, Publish(r)
  PROVE  TrInv'
<1>1. TypeOK'
  BY DEF TrInv, Publish, Slot, Status, Phase, goto, TypeOK
<1>2. PhaseAgrees' /\ FinalizeHoldsLock' /\ AskedIsStopped' /\ PromotedSurvivesUntilPublished'
  BY DEF TrInv, Publish, goto, Published, PhaseAgrees, TypeOK, FinalizeHoldsLock,
     NonTerminal, AskedIsStopped, PromotedSurvivesUntilPublished
<1>3. ReservationStands'
  BY DEF TrInv, Publish, Owns, goto, Preparing, Published, PhaseAgrees, ReservationStands
<1>4. SlotIsSane'
  BY DEF TrInv, Publish, Owns, goto, Preparing, Published, Sane, PhaseAgrees, SlotIsSane
<1>5. SlotIsTrue'
  BY DEF TrInv, Publish, NonTerminal, NoSlot, Owns, goto, Preparing, Published, Sane, Truth,
     PhaseAgrees, ReservationStands, SlotIsSane, PromotingOwns, SlotIsTrue
<1>6. PromotingOwns'
  BY DEF TrInv, Publish, Owns, goto, Sane, TypeOK, ReservationStands, SlotIsSane,
     PromotingOwns
<1>7. SlotShowsRunner'
  BY DEF TrInv, Publish, NonTerminal, Owns, Published, Sane, PhaseAgrees, ReservationStands,
     SlotIsSane, SlotShowsRunner
<1>8. QED
  BY <1>1, <1>2, <1>3, <1>4, <1>5, <1>6, <1>7 DEF TrInv

\* Finalize records that nothing was published.
LEMMA RecordFailureInv ==
  ASSUME TrInv, NEW r \in Run, RecordFailure(r)
  PROVE  TrInv'
<1>1. TypeOK'
  BY DEF TrInv, RecordFailure, Phase, goto, TypeOK
<1>2. PhaseAgrees' /\ FinalizeHoldsLock' /\ ReservationStands' /\ SlotIsSane' /\ PromotingOwns'
      /\ SlotShowsRunner' /\ AskedIsStopped' /\ PromotedSurvivesUntilPublished'
  BY DEF TrInv, RecordFailure, goto, Published, PhaseAgrees, TypeOK, FinalizeHoldsLock,
     Preparing, ReservationStands, Sane, SlotIsSane, PromotingOwns, SlotShowsRunner,
     AskedIsStopped, PromotedSurvivesUntilPublished
<1>3. SlotIsTrue'
  BY DEF TrInv, RecordFailure, goto, Preparing, Truth, PhaseAgrees, SlotIsTrue
<1>4. QED
  BY <1>1, <1>2, <1>3 DEF TrInv

\* A stop reads the pid of the slot.
LEMMA TrackInv ==
  ASSUME TrInv, NEW k \in Kill, Track(k)
  PROVE  TrInv'
<1>1. TypeOK'
  BY DEF TrInv, Track, Slot, TypeOK
<1>2. PhaseAgrees' /\ FinalizeHoldsLock' /\ ReservationStands' /\ SlotIsSane' /\ SlotIsTrue'
      /\ PromotingOwns' /\ SlotShowsRunner' /\ AskedIsStopped'
      /\ PromotedSurvivesUntilPublished'
  BY DEF TrInv, Track, Published, PhaseAgrees, FinalizeHoldsLock, Preparing,
     ReservationStands, Sane, TypeOK, SlotIsSane, Truth, SlotIsTrue, PromotingOwns,
     SlotShowsRunner, AskedIsStopped, PromotedSurvivesUntilPublished
<1>3. QED
  BY <1>1, <1>2 DEF TrInv

\* A stop records its intent in the slot that shows the pid.
LEMMA RequestStopInv ==
  ASSUME TrInv, NEW k \in Kill, RequestStop(k)
  PROVE  TrInv'
<1>1. TypeOK'
  BY DEF TrInv, RequestStop, Slot, Status, Sane, ReservationStands, SlotIsSane, TypeOK
<1>2. PhaseAgrees' /\ FinalizeHoldsLock' /\ SlotIsSane' /\ PromotingOwns' /\ SlotShowsRunner'
      /\ PromotedSurvivesUntilPublished'
  BY DEF TrInv, RequestStop, Published, PhaseAgrees, FinalizeHoldsLock, Preparing, Sane,
     SlotIsSane, PromotingOwns, SlotShowsRunner, PromotedSurvivesUntilPublished
<1>3. ReservationStands'
  BY DEF TrInv, RequestStop, Preparing, SlotIsSane, ReservationStands
<1>4. SlotIsTrue'
  BY DEF TrInv, RequestStop, Preparing, Sane, Truth, TypeOK, ReservationStands, SlotIsSane,
     SlotIsTrue
<1>5. AskedIsStopped'
  BY DEF TrInv, RequestStop, NonTerminal, Published, Sane, PhaseAgrees, ReservationStands,
     SlotIsSane, AskedIsStopped
<1>6. QED
  BY <1>1, <1>2, <1>3, <1>4, <1>5 DEF TrInv

\* A stop ended the process.
LEMMA TerminatedInv ==
  ASSUME TrInv, NEW k \in Kill, Terminated(k)
  PROVE  TrInv'
<1>1. TypeOK'
  BY DEF TrInv, Terminated, TypeOK
<1>2. PhaseAgrees' /\ FinalizeHoldsLock' /\ ReservationStands' /\ SlotIsSane' /\ SlotIsTrue'
      /\ PromotingOwns' /\ SlotShowsRunner' /\ AskedIsStopped'
      /\ PromotedSurvivesUntilPublished'
  BY DEF TrInv, Terminated, Published, PhaseAgrees, FinalizeHoldsLock, Preparing,
     ReservationStands, Sane, TypeOK, SlotIsSane, Truth, SlotIsTrue, PromotingOwns,
     SlotShowsRunner, AskedIsStopped, PromotedSurvivesUntilPublished
<1>3. QED
  BY <1>1, <1>2 DEF TrInv

\* A stop failed and takes its mark back.
LEMMA TerminateFailsInv ==
  ASSUME TrInv, NEW k \in Kill, TerminateFails(k)
  PROVE  TrInv'
<1>1. TypeOK'
  BY DEF TrInv, TerminateFails, Slot, Status, NoSlot, Sane, ReservationStands, SlotIsSane,
     TypeOK
<1>2. PhaseAgrees' /\ FinalizeHoldsLock' /\ ReservationStands' /\ SlotIsSane' /\ PromotingOwns'
      /\ SlotShowsRunner' /\ AskedIsStopped' /\ PromotedSurvivesUntilPublished'
  BY DEF TrInv, TerminateFails, Published, PhaseAgrees, FinalizeHoldsLock, Preparing,
     ReservationStands, NoSlot, Sane, TypeOK, SlotIsSane, PromotingOwns, NonTerminal,
     SlotShowsRunner, AskedIsStopped, PromotedSurvivesUntilPublished
<1>3. SlotIsTrue'
  BY DEF TrInv, TerminateFails, NonTerminal, Preparing, Truth, ReservationStands, SlotIsTrue
<1>4. QED
  BY <1>1, <1>2, <1>3 DEF TrInv

\* A pause or a resume writes its status.
LEMMA SignalTransitionInv ==
  ASSUME TrInv, NEW s \in {"running", "paused"}, SignalTransition(s)
  PROVE  TrInv'
<1>1. TypeOK'
  BY DEF TrInv, SignalTransition, Slot, Status, TypeOK
<1>2. PhaseAgrees' /\ FinalizeHoldsLock' /\ ReservationStands' /\ SlotIsSane' /\ SlotIsTrue'
      /\ PromotingOwns' /\ SlotShowsRunner' /\ AskedIsStopped'
      /\ PromotedSurvivesUntilPublished'
  BY DEF TrInv, SignalTransition, Published, PhaseAgrees, FinalizeHoldsLock, Preparing,
     ReservationStands, Sane, SlotIsSane, Truth, SlotIsTrue, PromotingOwns, NonTerminal,
     SlotShowsRunner, AskedIsStopped, PromotedSurvivesUntilPublished
<1>3. QED
  BY <1>1, <1>2 DEF TrInv

\* An adapter is deleted.
LEMMA DeleteAdapterInv ==
  ASSUME TrInv, NEW n \in Name, DeleteAdapter(n)
  PROVE  TrInv'
<1>1. TypeOK'
  BY DEF TrInv, DeleteAdapter, Slot, TypeOK
<1>2. PhaseAgrees' /\ FinalizeHoldsLock' /\ ReservationStands' /\ SlotIsSane' /\ SlotIsTrue'
      /\ PromotingOwns' /\ SlotShowsRunner' /\ AskedIsStopped'
  BY DEF TrInv, DeleteAdapter, Published, PhaseAgrees, FinalizeHoldsLock, Preparing,
     ReservationStands, NoSlot, Sane, SlotIsSane, Truth, SlotIsTrue, PromotingOwns,
     SlotShowsRunner, AskedIsStopped
<1>3. PromotedSurvivesUntilPublished'
  BY DEF TrInv, DeleteAdapter, FinalizeHoldsLock, PromotedSurvivesUntilPublished
<1>4. QED
  BY <1>1, <1>2, <1>3 DEF TrInv

\* The benchmark takes its reservation.
LEMMA ClaimBenchmarkInv ==
  ASSUME TrInv, ClaimBenchmark
  PROVE  TrInv'
<1>1. TypeOK'
  BY DEF TrInv, ClaimBenchmark, TypeOK
<1>2. PhaseAgrees' /\ FinalizeHoldsLock' /\ ReservationStands' /\ SlotIsSane' /\ SlotIsTrue'
      /\ PromotingOwns' /\ SlotShowsRunner' /\ AskedIsStopped'
      /\ PromotedSurvivesUntilPublished'
  BY DEF TrInv, ClaimBenchmark, Published, PhaseAgrees, FinalizeHoldsLock, Preparing,
     ReservationStands, Sane, SlotIsSane, Truth, SlotIsTrue, PromotingOwns, SlotShowsRunner,
     AskedIsStopped, PromotedSurvivesUntilPublished
<1>3. QED
  BY <1>1, <1>2 DEF TrInv

\* The benchmark is admitted beside a slot that is over, or refused.
LEMMA AdmitBenchmarkInv ==
  ASSUME TrInv, AdmitBenchmark
  PROVE  TrInv'
<1>1. TypeOK'
  BY DEF TrInv, AdmitBenchmark, TypeOK
<1>2. PhaseAgrees' /\ FinalizeHoldsLock' /\ ReservationStands' /\ SlotIsSane' /\ SlotIsTrue'
      /\ PromotingOwns' /\ SlotShowsRunner' /\ AskedIsStopped'
      /\ PromotedSurvivesUntilPublished'
  BY DEF TrInv, AdmitBenchmark, Published, PhaseAgrees, FinalizeHoldsLock, Preparing,
     ReservationStands, Sane, SlotIsSane, Truth, SlotIsTrue, PromotingOwns, SlotShowsRunner,
     AskedIsStopped, PromotedSurvivesUntilPublished
<1>3. QED
  BY <1>1, <1>2 DEF TrInv

\* The benchmark ends.
LEMMA EndBenchmarkInv ==
  ASSUME TrInv, EndBenchmark
  PROVE  TrInv'
<1>1. TypeOK'
  BY DEF TrInv, EndBenchmark, TypeOK
<1>2. PhaseAgrees' /\ FinalizeHoldsLock' /\ ReservationStands' /\ SlotIsSane' /\ SlotIsTrue'
      /\ PromotingOwns' /\ SlotShowsRunner' /\ AskedIsStopped'
      /\ PromotedSurvivesUntilPublished'
  BY DEF TrInv, EndBenchmark, Published, PhaseAgrees, FinalizeHoldsLock, Preparing,
     ReservationStands, Sane, SlotIsSane, Truth, SlotIsTrue, PromotingOwns, SlotShowsRunner,
     AskedIsStopped, PromotedSurvivesUntilPublished
<1>3. QED
  BY <1>1, <1>2 DEF TrInv

\* Every step keeps the invariant: one case for each action.
LEMMA TrNextInv == TrInv /\ [Next]_vars => TrInv'
<1> SUFFICES ASSUME TrInv, [Next]_vars PROVE TrInv'
  OBVIOUS
<1>1. ASSUME NEW r \in Run, CheckAdmission(r) PROVE TrInv'
  BY <1>1, CheckAdmissionInv
<1>2. ASSUME NEW r \in Run, Reserve(r) PROVE TrInv'
  BY <1>2, ReserveInv
<1>3. ASSUME NEW r \in Run, PrepareFails(r) PROVE TrInv'
  BY <1>3, PrepareFailsInv
<1>4. ASSUME NEW r \in Run, NEW p \in Pid, Prepare(r, p) PROVE TrInv'
  BY <1>4, PrepareInv
<1>5. ASSUME NEW r \in Run, PublishSlot(r) PROVE TrInv'
  BY <1>5, PublishSlotInv
<1>6. ASSUME NEW r \in Run, ChildExits(r) PROVE TrInv'
  BY <1>6, ChildExitsInv
<1>7. ASSUME NEW r \in Run, Reap(r) PROVE TrInv'
  BY <1>7, ReapInv
<1>8. ASSUME NEW r \in Run, Snapshot(r) PROVE TrInv'
  BY <1>8, SnapshotInv
<1>9. ASSUME NEW r \in Run, Promote(r) PROVE TrInv'
  BY <1>9, PromoteInv
<1>10. ASSUME NEW r \in Run, Publish(r) PROVE TrInv'
  BY <1>10, PublishInv
<1>11. ASSUME NEW r \in Run, RecordFailure(r) PROVE TrInv'
  BY <1>11, RecordFailureInv
<1>12. ASSUME NEW k \in Kill, Track(k) PROVE TrInv'
  BY <1>12, TrackInv
<1>13. ASSUME NEW k \in Kill, RequestStop(k) PROVE TrInv'
  BY <1>13, RequestStopInv
<1>14. ASSUME NEW k \in Kill, Terminated(k) PROVE TrInv'
  BY <1>14, TerminatedInv
<1>15. ASSUME NEW k \in Kill, TerminateFails(k) PROVE TrInv'
  BY <1>15, TerminateFailsInv
<1>16. ASSUME NEW s \in {"running", "paused"}, SignalTransition(s) PROVE TrInv'
  BY <1>16, SignalTransitionInv
<1>17. ASSUME NEW n \in Name, DeleteAdapter(n) PROVE TrInv'
  BY <1>17, DeleteAdapterInv
<1>18. ASSUME ClaimBenchmark PROVE TrInv'
  BY <1>18, ClaimBenchmarkInv
<1>19. ASSUME AdmitBenchmark PROVE TrInv'
  BY <1>19, AdmitBenchmarkInv
<1>20. ASSUME EndBenchmark PROVE TrInv'
  BY <1>20, EndBenchmarkInv
<1>21. CASE UNCHANGED vars
  BY <1>21 DEF vars, TrInv, TypeOK, PhaseAgrees, FinalizeHoldsLock, ReservationStands, SlotIsSane,
     SlotIsTrue, PromotingOwns, SlotShowsRunner, AskedIsStopped, PromotedSurvivesUntilPublished,
     Sane, Truth, Preparing, Published
<1>22. QED
  BY <1>1, <1>2, <1>3, <1>4, <1>5, <1>6, <1>7, <1>8, <1>9, <1>10, <1>11, <1>12,
   <1>13, <1>14, <1>15, <1>16, <1>17, <1>18, <1>19, <1>20, <1>21 DEF Next, Finalize

\* The invariant holds throughout, for any runs, pids, names and stop commands.
THEOREM TrainingInvariant == Spec => []TrInv
BY TrInitInv, TrNextInv, PTL DEF Spec

\* SlotTellsTheTruth: whatever stops, starts and pauses come between, a slot
\* whose run is over shows what its attempt became, says killed only if a stop
\* was asked for, and leaves the next start free (training_staging.rs, finalize_with).
THEOREM SlotAlwaysTrue == Spec => []SlotTellsTheTruth
<1>1. ASSUME TrInv PROVE SlotTellsTheTruth
  <2>1. TypeOK
    BY <1>1 DEF TrInv
  <2>2. PublishedSlotMatchesAttempt
    BY <1>1 DEF TrInv, SlotIsTrue, Truth, PublishedSlotMatchesAttempt
  <2>3. slot.status \in {"killed", "none"} => slot.run # NoOne \/ slot = NoSlot
    BY <1>1, NobodyIsNobody DEF TrInv, SlotIsSane, Sane, ReservationStands, Preparing, NoSlot
  <2>4. KilledWasAsked
    BY <1>1, <2>3 DEF TrInv, SlotIsTrue, Truth, KilledWasAsked, NoSlot
  <2>5. \A r \in Run : pc[r] = "refused" => slot.run # r
    BY <1>1, NobodyIsNobody DEF TrInv, SlotIsSane, Sane, ReservationStands, Preparing, Published, NoSlot
  <2>6. slot.run # NoOne => slot.run \in Run
    BY <1>1 DEF TrInv, TypeOK, Slot
  <2>7. SlotNeverStuck
    BY <1>1, <2>5, <2>6 DEF TrInv, SlotIsTrue, Truth, SlotNeverStuck
  <2>8. QED
    BY <2>1, <2>2, <2>4, <2>7 DEF SlotTellsTheTruth
<1>2. QED
  BY <1>1, TrainingInvariant, PTL

\* StopHolds: a run that was asked to stop while its child lived is never
\* published, and ends as killed unless its stop failed (request_stop, finalize_with).
THEOREM StopAlwaysHolds == Spec => []StopHolds
<1>1. TrInv => StopHolds
  BY DEF TrInv, AskedIsStopped, StopHolds, StopIsHonoured, StopIsRemembered
<1>2. QED
  BY <1>1, TrainingInvariant, PTL

\* WorkloadsExclude: two trainings, or a training and the benchmark, never share
\* the GPU unless one was told to stop (run_mlx_finetune, claim_benchmark_reservation).
THEOREM WorkloadsAlwaysExclude == Spec => []WorkloadsExclude
<1>1. TrInv => OneUnstoppedTrainer
  BY DEF TrInv, SlotShowsRunner, OneUnstoppedTrainer
<1>2. TrInv => BenchmarkRunsAlone
  BY DEF TrInv, SlotShowsRunner, BenchmarkRunsAlone
<1>3. QED
  BY <1>1, <1>2, TrainingInvariant, PTL DEF WorkloadsExclude

\* PromotedSurvivesUntilPublished: nobody deletes the adapter between the rename
\* and the slot's done: the lock is held (remove_adapter_checkpoint).
THEOREM PromotedAlwaysSurvives == Spec => []PromotedSurvivesUntilPublished
<1>1. TrInv => PromotedSurvivesUntilPublished
  BY DEF TrInv
<1>2. QED
  BY <1>1, TrainingInvariant, PTL
=============================================================================
