--------------------------- MODULE Deploy_proofs ---------------------------
\* Deploys: operations under the lifecycle token, targets and the inference relay,
\* port forwards.
EXTENDS DeployOperations, DeployTargets, PortForwards, TLAPS

-----------------------------------------------------------------------------
(***************************************************************************)
(* Proofs about DeployOperations, for every set of calls, ids, targets and *)
(* lifecycle commands.  What the mutex-guarded state says (the targets and *)
(* ids taken, the remembered results) is tied to what the calls are doing: *)
(* that tie is IInv, and every property follows from it.                   *)
(***************************************************************************)

(* A call at work has its target and its id taken, shares neither with     *)
(* another call at work, and nothing else is taken.                        *)
GuardsAreHeld ==
  /\ \A c \in Call : Holds(c) => call[c].request.target \in inFlight
  /\ \A c \in Call : Holds(c) => call[c].id \in activeIds \cup {None}
  /\ \A c, d \in Call :
       c # d /\ Holds(c) /\ Holds(d) => call[c].id # call[d].id \/ call[c].id = None

NothingElseIsTaken ==
  /\ \A t \in inFlight : \E c \in Call : Holds(c) /\ call[c].request.target = t
  /\ \A i \in activeIds : \E c \in Call : Holds(c) /\ call[c].id = i

(* What a call works on, and what it has done, is what was confirmed. *)
WorksOnWhatWasConfirmed ==
  \A c \in Call : call[c].phase \in {"working", "changed", "done"} =>
                    call[c].request.target = call[c].shown

(* A completed id is remembered; one at work was not completed yet. *)
RunsAreRemembered ==
  /\ \A i \in Id : runs[i] = 0 \/ (runs[i] = 1 /\ \E e \in completed : e.id = i)
  /\ \A c \in Call : Holds(c) /\ call[c].id # None => runs[call[c].id] = 0

CachedIsDone == \A e \in completed : [id |-> e.id, request |-> e.request] \in done

TokenIsHeld == \A l \in Life : lpc[l] # "idle" => token # "idle"

IInv ==
  /\ TypeOK
  /\ OneOperationPerTarget /\ GuardsAreHeld /\ NothingElseIsTaken
  /\ WorksOnWhatWasConfirmed
  /\ RunsAreRemembered /\ CachedIsDone /\ CachedMeansDone
  /\ TokenIsHeld /\ OneLifecycleCommand
----------------------------------------------------------------------------

(* What complete leaves behind is one entry, of the call's own id. *)
LEMMA RememberedEntry ==
  ASSUME NEW c \in Call, call[c].id \in Id \cup {None}, call[c].request \in Request
  PROVE  /\ Remember(c) \subseteq Entry
         /\ call[c].id # None => \E e \in Remember(c) : e.id = call[c].id
<1>1. CASE call[c].id = None
  BY <1>1 DEF Remember
<1>2. CASE call[c].id # None
  <2> DEFINE entry == [id |-> call[c].id, request |-> call[c].request, fresh |-> TRUE]
  <2>1. Remember(c) = {entry}
    BY <1>2 DEF Remember
  <2>2. entry \in Entry /\ entry.id = call[c].id
    BY <1>2 DEF Entry
  <2> QED
    BY <2>1, <2>2
<1> QED
  BY <1>1, <1>2

(* Every variable keeps its type under every step. *)
LEMMA TypeStep == TypeOK /\ [Next]_vars => TypeOK'
<1> SUFFICES ASSUME TypeOK, [Next]_vars PROVE TypeOK'
  OBVIOUS
<1> USE ColimaIsATarget, NoneIsNothing
    DEF TypeOK, Action, Setting, Request, NoRequest, Entry, Phase, guarded,
        lifecycle, history, move
<1>1. ASSUME NEW setting \in Setting, SaveTarget(setting)
     PROVE  TypeOK'
  BY <1>1 DEF SaveTarget
<1>2. ASSUME NEW c \in Call, NEW action \in Action, NEW id \in Id \cup {None},
              NEW picked \in BOOLEAN, NEW chosen \in Target,
              Confirm(c, action, id, picked, chosen)
     PROVE  TypeOK'
  BY <1>2 DEF Confirm
<1>3. ASSUME NEW c \in Call, Begin(c)
     PROVE  TypeOK'
  <2> USE <1>3
  <2>1. call' \in [Call -> [phase : Phase, action : Action, shown : Target,
                          picked : BOOLEAN, id : Id \cup {None}, request : Request]]
    BY DEF Begin, Resolved
  <2>2. inFlight' \subseteq Target /\ activeIds' \subseteq Id
    BY DEF Begin, Resolved, TakenIds
  <2>3. completed' \subseteq Entry /\ runs' \in [Id -> Nat] /\ done' = done
    <3> HIDE DEF Entry, Request
    <3> QED
      BY DEF Begin
  <2>4. UNCHANGED <<saved, token, lpc, vm>>
    BY DEF Begin
  <2> QED
    BY ONLY TypeOK, <2>1, <2>2, <2>3, <2>4 DEF TypeOK
<1>4. ASSUME NEW c \in Call, Change(c)
     PROVE  TypeOK'
  BY <1>4 DEF Change
<1>5. ASSUME NEW c \in Call, Fail(c)
     PROVE  TypeOK'
  BY <1>5 DEF Fail, Release
<1>6. ASSUME NEW c \in Call, Complete(c)
     PROVE  TypeOK'
  <2> USE <1>6
  <2>1. saved' \in Setting /\ call' \in [Call -> [phase : Phase, action : Action, shown : Target,
                          picked : BOOLEAN, id : Id \cup {None}, request : Request]]
    BY DEF Complete
  <2>2. inFlight' \subseteq Target /\ activeIds' \subseteq Id
    BY DEF Complete, Release
  <2>3. completed' \subseteq Entry
    <3>1. completed' = {e \in completed : e.id # call[c].id} \cup Remember(c)
      BY DEF Complete
    <3>2. call[c].id \in Id \cup {None} /\ call[c].request \in Request
      OBVIOUS
    <3>3. Remember(c) \subseteq Entry
      <4> HIDE DEF Entry, Request
      <4> QED
        BY <3>2, RememberedEntry
    <3> QED
      BY <3>1, <3>3
  <2>4. done' \subseteq [id : Id, request : Request] /\ runs' \in [Id -> Nat]
    BY DEF Complete
  <2>5. UNCHANGED lifecycle
    BY DEF Complete
  <2> QED
    BY <2>1, <2>2, <2>3, <2>4, <2>5
<1>7. ASSUME NEW e \in completed, Age(e)
     PROVE  TypeOK'
  BY <1>7 DEF Age
<1>8. ASSUME NEW l \in Life, NEW op \in {"start", "stop"}, AcquireToken(l, op)
     PROVE  TypeOK'
  BY <1>8 DEF AcquireToken
<1>9. ASSUME NEW l \in Life, LifecycleEnds(l)
     PROVE  TypeOK'
  BY <1>9 DEF LifecycleEnds
<1>10. CASE UNCHANGED vars
  BY <1>10 DEF vars
<1> HIDE DEF
      TypeOK, Action, Setting, Request, NoRequest, Entry, Phase, guarded,
      lifecycle, history, move
<1> QED
  BY <1>1, <1>2, <1>3, <1>4, <1>5, <1>6, <1>7, <1>8, <1>9, <1>10 DEF Next, Work

(* Begin either leaves what is taken alone, or takes a free target and id  *)
(* for a call that was not at work; no other call is touched.              *)
LEMMA BeginEffect ==
  ASSUME TypeOK, NEW c \in Call, Begin(c)
  PROVE  /\ \A d \in Call \ {c} : call'[d] = call[d]
         /\ call[c].phase = "confirmed" /\ call'[c].id = call[c].id
         /\ \/ /\ call'[c].phase \in {"failed", "cached"}
               /\ UNCHANGED <<inFlight, activeIds>>
            \/ /\ call'[c].phase = "working"
               /\ call'[c].request.target \notin inFlight
               /\ call'[c].id \notin activeIds
               /\ inFlight' = inFlight \cup {call'[c].request.target}
               /\ activeIds' = activeIds \cup ({call'[c].id} \ {None})
  BY ColimaIsATarget, NoneIsNothing
     DEF TypeOK, Action, Setting, Request, Entry, Phase, guarded, history, move,
         Begin, Resolved, Remembered, Busy, TakenIds

(* Begin forgets an id only together with the count of its runs, and an id *)
(* it takes has no run left to remember.                                   *)
LEMMA BeginForgets ==
  ASSUME TypeOK, RunsAreRemembered, NEW c \in Call, Begin(c)
  PROVE  /\ \A i \in Id : runs'[i] = 0 \/ /\ runs'[i] = runs[i]
                                          /\ \A e \in completed : e.id = i => e \in completed'
         /\ call'[c].phase = "working" /\ call[c].id \in Id => runs'[call[c].id] = 0
<1> USE DEF TypeOK, Entry
<1>1. CASE UNCHANGED <<completed, runs>> /\ call'[c].phase = "failed"
  BY <1>1
<1>2. CASE /\ completed' = {e \in completed : e.fresh}
           /\ runs' = [i \in Id |->
                        IF \E e \in completed : e.id = i /\ ~e.fresh THEN 0 ELSE runs[i]]
           /\ call'[c].phase = "working" => ~\E e \in completed : e.fresh /\ e.id = call[c].id
  <2>1. \A i \in Id : runs'[i] = 0 \/ /\ runs'[i] = runs[i]
                                      /\ \A e \in completed : e.id = i => e \in completed'
    BY <1>2
  <2>2. ASSUME call'[c].phase = "working", call[c].id \in Id
        PROVE  runs'[call[c].id] = 0
    <3>1. CASE runs[call[c].id] = 0
      BY <1>2, <2>2, <3>1
    <3>2. CASE \E e \in completed : e.id = call[c].id
      BY <1>2, <2>2, <3>2
    <3> QED
      BY <2>2, <3>1, <3>2 DEF RunsAreRemembered
  <2> QED
    BY <2>1, <2>2
<1> QED
  BY <1>1, <1>2 DEF Begin, guarded, history, move

(* The guard is taken only when target and id are free, and given back only by its holder. *)
LEMMA GuardStep ==
  TypeOK /\ GuardsAreHeld /\ OneOperationPerTarget /\ [Next]_vars
    => (GuardsAreHeld /\ OneOperationPerTarget)'
<1> SUFFICES ASSUME TypeOK, GuardsAreHeld, OneOperationPerTarget, [Next]_vars
             PROVE  (GuardsAreHeld /\ OneOperationPerTarget)'
  OBVIOUS
<1> USE DEF
      TypeOK, Setting, Phase, guarded, move, Holds, GuardsAreHeld,
      OneOperationPerTarget
<1>1. ASSUME NEW setting \in Setting, SaveTarget(setting)
     PROVE  (GuardsAreHeld /\ OneOperationPerTarget)'
  BY <1>1 DEF SaveTarget
<1>2. ASSUME NEW c \in Call, NEW action \in Action, NEW id \in Id \cup {None},
              NEW picked \in BOOLEAN, NEW chosen \in Target,
              Confirm(c, action, id, picked, chosen)
     PROVE  (GuardsAreHeld /\ OneOperationPerTarget)'
  BY <1>2 DEF Confirm
<1>3. ASSUME NEW c \in Call, Begin(c)
     PROVE  (GuardsAreHeld /\ OneOperationPerTarget)'
  <2>1. CASE call'[c].phase \in {"failed", "cached"} /\ UNCHANGED <<inFlight, activeIds>>
    BY <1>3, <2>1, BeginEffect
  <2>2. CASE call'[c].phase = "working"
    <3>1. \A d \in Call \ {c} : call'[d] = call[d]
      BY <1>3, BeginEffect
    <3>2. /\ inFlight' = inFlight \cup {call'[c].request.target}
          /\ activeIds' = activeIds \cup ({call'[c].id} \ {None})
          /\ call'[c].request.target \notin inFlight /\ call'[c].id \notin activeIds
      BY <1>3, <2>2, BeginEffect
    <3> QED
      BY <2>2, <3>1, <3>2
  <2> QED
    BY <1>3, <2>1, <2>2, BeginEffect
<1>4. ASSUME NEW c \in Call, Change(c)
     PROVE  (GuardsAreHeld /\ OneOperationPerTarget)'
  BY <1>4 DEF Change
<1>5. ASSUME NEW c \in Call, Fail(c)
     PROVE  (GuardsAreHeld /\ OneOperationPerTarget)'
  BY <1>5 DEF Fail, Release
<1>6. ASSUME NEW c \in Call, Complete(c)
     PROVE  (GuardsAreHeld /\ OneOperationPerTarget)'
  BY <1>6 DEF Complete, Release, Remember
<1>7. ASSUME NEW e \in completed, Age(e)
     PROVE  (GuardsAreHeld /\ OneOperationPerTarget)'
  BY <1>7 DEF Age
<1>8. ASSUME NEW l \in Life, NEW op \in {"start", "stop"}, AcquireToken(l, op)
     PROVE  (GuardsAreHeld /\ OneOperationPerTarget)'
  BY <1>8 DEF AcquireToken
<1>9. ASSUME NEW l \in Life, LifecycleEnds(l)
     PROVE  (GuardsAreHeld /\ OneOperationPerTarget)'
  BY <1>9 DEF LifecycleEnds
<1>10. CASE UNCHANGED vars
  BY <1>10 DEF vars
<1> HIDE DEF
      TypeOK, Setting, Phase, guarded, move, Holds, GuardsAreHeld,
      OneOperationPerTarget
<1> QED
  BY <1>1, <1>2, <1>3, <1>4, <1>5, <1>6, <1>7, <1>8, <1>9, <1>10 DEF Next, Work

(* Every way out of a call gives back what the call had taken. *)
LEMMA TakenStep ==
  TypeOK /\ NothingElseIsTaken /\ [Next]_vars
    => NothingElseIsTaken'
<1> SUFFICES ASSUME TypeOK, NothingElseIsTaken, [Next]_vars
             PROVE  NothingElseIsTaken'
  OBVIOUS
<1> USE DEF TypeOK, guarded, move, Holds, NothingElseIsTaken
<1>1. ASSUME NEW setting \in Setting, SaveTarget(setting)
     PROVE  NothingElseIsTaken'
  BY <1>1 DEF SaveTarget
<1>2. ASSUME NEW c \in Call, NEW action \in Action, NEW id \in Id \cup {None},
              NEW picked \in BOOLEAN, NEW chosen \in Target,
              Confirm(c, action, id, picked, chosen)
     PROVE  NothingElseIsTaken'
  BY <1>2 DEF Confirm
<1>3. ASSUME NEW c \in Call, Begin(c)
     PROVE  NothingElseIsTaken'
  <2>1. \A d \in Call \ {c} : call'[d] = call[d]
    BY <1>3, BeginEffect
  <2>2. ~Holds(c)
    BY <1>3, BeginEffect
  <2>3. CASE call'[c].phase \in {"failed", "cached"} /\ UNCHANGED <<inFlight, activeIds>>
    BY <2>1, <2>2, <2>3
  <2>4. CASE call'[c].phase = "working"
    <3>1. /\ inFlight' = inFlight \cup {call'[c].request.target}
          /\ activeIds' = activeIds \cup ({call'[c].id} \ {None})
      BY <1>3, <2>4, BeginEffect
    <3> QED
      BY <2>1, <2>2, <2>4, <3>1
  <2> QED
    BY <1>3, <2>3, <2>4, BeginEffect
<1>4. ASSUME NEW c \in Call, Change(c)
     PROVE  NothingElseIsTaken'
  BY <1>4 DEF Change
<1>5. ASSUME NEW c \in Call, Fail(c)
     PROVE  NothingElseIsTaken'
  BY <1>5 DEF Fail, Release
<1>6. ASSUME NEW c \in Call, Complete(c)
     PROVE  NothingElseIsTaken'
  BY <1>6 DEF Complete, Release, Remember
<1>7. ASSUME NEW e \in completed, Age(e)
     PROVE  NothingElseIsTaken'
  BY <1>7 DEF Age
<1>8. ASSUME NEW l \in Life, NEW op \in {"start", "stop"}, AcquireToken(l, op)
     PROVE  NothingElseIsTaken'
  BY <1>8 DEF AcquireToken
<1>9. ASSUME NEW l \in Life, LifecycleEnds(l)
     PROVE  NothingElseIsTaken'
  BY <1>9 DEF LifecycleEnds
<1>10. CASE UNCHANGED vars
  BY <1>10 DEF vars
<1> HIDE DEF TypeOK, guarded, move, Holds, NothingElseIsTaken
<1> QED
  BY <1>1, <1>2, <1>3, <1>4, <1>5, <1>6, <1>7, <1>8, <1>9, <1>10 DEF Next, Work

(* The target is compared once, when the request is resolved, and not resolved again. *)
LEMMA ConfirmedStep ==
  TypeOK /\ WorksOnWhatWasConfirmed /\ [Next]_vars
    => WorksOnWhatWasConfirmed'
<1> SUFFICES ASSUME TypeOK, WorksOnWhatWasConfirmed, [Next]_vars
             PROVE  WorksOnWhatWasConfirmed'
  OBVIOUS
<1> USE DEF TypeOK, move, WorksOnWhatWasConfirmed
<1>1. ASSUME NEW setting \in Setting, SaveTarget(setting)
     PROVE  WorksOnWhatWasConfirmed'
  BY <1>1 DEF SaveTarget
<1>2. ASSUME NEW c \in Call, NEW action \in Action, NEW id \in Id \cup {None},
              NEW picked \in BOOLEAN, NEW chosen \in Target,
              Confirm(c, action, id, picked, chosen)
     PROVE  WorksOnWhatWasConfirmed'
  BY <1>2 DEF Confirm
<1>3. ASSUME NEW c \in Call, Begin(c)
     PROVE  WorksOnWhatWasConfirmed'
  BY <1>3 DEF Begin, Resolved, Confirmed, Remembered, Busy, TakenIds
<1>4. ASSUME NEW c \in Call, Change(c)
     PROVE  WorksOnWhatWasConfirmed'
  BY <1>4 DEF Change
<1>5. ASSUME NEW c \in Call, Fail(c)
     PROVE  WorksOnWhatWasConfirmed'
  BY <1>5 DEF Fail, Release
<1>6. ASSUME NEW c \in Call, Complete(c)
     PROVE  WorksOnWhatWasConfirmed'
  BY <1>6 DEF Complete, Release, Remember
<1>7. ASSUME NEW e \in completed, Age(e)
     PROVE  WorksOnWhatWasConfirmed'
  BY <1>7 DEF Age
<1>8. ASSUME NEW l \in Life, NEW op \in {"start", "stop"}, AcquireToken(l, op)
     PROVE  WorksOnWhatWasConfirmed'
  BY <1>8 DEF AcquireToken
<1>9. ASSUME NEW l \in Life, LifecycleEnds(l)
     PROVE  WorksOnWhatWasConfirmed'
  BY <1>9 DEF LifecycleEnds
<1>10. CASE UNCHANGED vars
  BY <1>10 DEF vars
<1> HIDE DEF TypeOK, move, WorksOnWhatWasConfirmed
<1> QED
  BY <1>1, <1>2, <1>3, <1>4, <1>5, <1>6, <1>7, <1>8, <1>9, <1>10 DEF Next, Work

(* A completed id stays remembered until its entry expires. *)
LEMMA RunsStep ==
  TypeOK /\ GuardsAreHeld /\ RunsAreRemembered /\ [Next]_vars
    => RunsAreRemembered'
<1> SUFFICES ASSUME TypeOK, GuardsAreHeld, RunsAreRemembered, [Next]_vars
             PROVE  RunsAreRemembered'
  OBVIOUS
<1> USE ColimaIsATarget, NoneIsNothing
    DEF TypeOK, Entry, guarded, history, move, Holds, GuardsAreHeld,
        RunsAreRemembered
<1>1. ASSUME NEW setting \in Setting, SaveTarget(setting)
     PROVE  RunsAreRemembered'
  BY <1>1 DEF SaveTarget
<1>2. ASSUME NEW c \in Call, NEW action \in Action, NEW id \in Id \cup {None},
              NEW picked \in BOOLEAN, NEW chosen \in Target,
              Confirm(c, action, id, picked, chosen)
     PROVE  RunsAreRemembered'
  BY <1>2 DEF Confirm
<1>3. ASSUME NEW c \in Call, Begin(c)
     PROVE  RunsAreRemembered'
  <2>1. \A d \in Call \ {c} : call'[d] = call[d]
    BY <1>3, BeginEffect
  <2>2. \A i \in Id : runs'[i] = 0 \/ /\ runs'[i] = runs[i]
                                      /\ \A e \in completed : e.id = i => e \in completed'
    BY <1>3, BeginForgets
  <2>3. call'[c].id = call[c].id /\ call'[c].phase \in {"failed", "cached", "working"}
    BY <1>3, BeginEffect
  <2>4. call'[c].phase = "working" /\ call[c].id \in Id => runs'[call[c].id] = 0
    BY <1>3, BeginForgets
  <2> QED
    BY <2>1, <2>2, <2>3, <2>4
<1>4. ASSUME NEW c \in Call, Change(c)
     PROVE  RunsAreRemembered'
  BY <1>4 DEF Change
<1>5. ASSUME NEW c \in Call, Fail(c)
     PROVE  RunsAreRemembered'
  BY <1>5 DEF Fail, Release
<1>6. ASSUME NEW c \in Call, Complete(c)
     PROVE  RunsAreRemembered'
  <2> DEFINE id == call[c].id
  <2>1. /\ call[c].phase = "changed" /\ Holds(c)
        /\ call' = [call EXCEPT ![c].phase = "done"]
        /\ completed' = {e \in completed : e.id # id} \cup Remember(c)
        /\ runs' = IF id = None THEN runs ELSE [runs EXCEPT ![id] = @ + 1]
    BY <1>6 DEF Complete
  <2>2. CASE id = None
    <3>1. \A e \in completed : e.id # None
      OBVIOUS
    <3>2. completed' = completed /\ runs' = runs
      BY <2>1, <2>2, <3>1 DEF Remember
    <3>3. \A d \in Call : Holds(d)' => Holds(d) /\ call'[d].id = call[d].id
      BY <2>1
    <3> QED
      BY <3>2, <3>3
  <2>3. CASE id # None
    <3>1. runs[id] = 0 /\ id \in Id
      BY <2>1, <2>3
    <3>2. \E e \in completed' : e.id = id
      <4>1. call[c].request \in Request
        OBVIOUS
      <4> HIDE DEF Request, Entry
      <4> QED
        BY <2>1, <2>3, <3>1, <4>1, RememberedEntry
    <3>3. \A i \in Id \ {id} : runs'[i] = runs[i]
      BY <2>1, <2>3
    <3>4. runs'[id] = 1
      BY <2>1, <2>3, <3>1
    <3>5. \A i \in Id \ {id} : (\E e \in completed : e.id = i) => \E e \in completed' : e.id = i
      BY <2>1
    <3>6. \A d \in Call :
            Holds(d)' /\ call'[d].id # None
              => Holds(d) /\ call'[d].id = call[d].id /\ call[d].id # id
      BY <2>1, <2>3
    <3> QED
      BY <3>1, <3>2, <3>3, <3>4, <3>5, <3>6
  <2> QED
    BY <2>2, <2>3
<1>7. ASSUME NEW e \in completed, Age(e)
     PROVE  RunsAreRemembered'
  <2>1. /\ completed' = (completed \ {e}) \cup {[e EXCEPT !.fresh = FALSE]}
        /\ UNCHANGED <<call, runs>>
    BY <1>7 DEF Age
  <2>2. [e EXCEPT !.fresh = FALSE].id = e.id
    OBVIOUS
  <2>3. \A i \in Id : (\E f \in completed : f.id = i) => \E f \in completed' : f.id = i
    BY <2>1, <2>2
  <2> QED
    BY <2>1, <2>3
<1>8. ASSUME NEW l \in Life, NEW op \in {"start", "stop"}, AcquireToken(l, op)
     PROVE  RunsAreRemembered'
  BY <1>8 DEF AcquireToken
<1>9. ASSUME NEW l \in Life, LifecycleEnds(l)
     PROVE  RunsAreRemembered'
  BY <1>9 DEF LifecycleEnds
<1>10. CASE UNCHANGED vars
  BY <1>10 DEF vars
<1> HIDE DEF
      TypeOK, Entry, guarded, history, move, Holds, GuardsAreHeld,
      RunsAreRemembered
<1> QED
  BY <1>1, <1>2, <1>3, <1>4, <1>5, <1>6, <1>7, <1>8, <1>9, <1>10 DEF Next, Work

(* Only what was done is remembered, and only what is remembered is answered. *)
LEMMA CachedStep ==
  TypeOK /\ CachedIsDone /\ CachedMeansDone /\ [Next]_vars
    => (CachedIsDone /\ CachedMeansDone)'
<1> SUFFICES ASSUME TypeOK, CachedIsDone, CachedMeansDone, [Next]_vars
             PROVE  (CachedIsDone /\ CachedMeansDone)'
  OBVIOUS
<1> USE ColimaIsATarget, NoneIsNothing
    DEF TypeOK, Entry, guarded, history, move, CachedIsDone, CachedMeansDone
<1>1. ASSUME NEW setting \in Setting, SaveTarget(setting)
     PROVE  (CachedIsDone /\ CachedMeansDone)'
  BY <1>1 DEF SaveTarget
<1>2. ASSUME NEW c \in Call, NEW action \in Action, NEW id \in Id \cup {None},
              NEW picked \in BOOLEAN, NEW chosen \in Target,
              Confirm(c, action, id, picked, chosen)
     PROVE  (CachedIsDone /\ CachedMeansDone)'
  BY <1>2 DEF Confirm
<1>3. ASSUME NEW c \in Call, Begin(c)
     PROVE  (CachedIsDone /\ CachedMeansDone)'
  BY <1>3 DEF Begin, Resolved, Confirmed, Remembered, Busy, TakenIds
<1>4. ASSUME NEW c \in Call, Change(c)
     PROVE  (CachedIsDone /\ CachedMeansDone)'
  BY <1>4 DEF Change
<1>5. ASSUME NEW c \in Call, Fail(c)
     PROVE  (CachedIsDone /\ CachedMeansDone)'
  BY <1>5 DEF Fail, Release
<1>6. ASSUME NEW c \in Call, Complete(c)
     PROVE  (CachedIsDone /\ CachedMeansDone)'
  BY <1>6 DEF Complete, Release, Remember
<1>7. ASSUME NEW e \in completed, Age(e)
     PROVE  (CachedIsDone /\ CachedMeansDone)'
  BY <1>7 DEF Age
<1>8. ASSUME NEW l \in Life, NEW op \in {"start", "stop"}, AcquireToken(l, op)
     PROVE  (CachedIsDone /\ CachedMeansDone)'
  BY <1>8 DEF AcquireToken
<1>9. ASSUME NEW l \in Life, LifecycleEnds(l)
     PROVE  (CachedIsDone /\ CachedMeansDone)'
  BY <1>9 DEF LifecycleEnds
<1>10. CASE UNCHANGED vars
  BY <1>10 DEF vars
<1> HIDE DEF TypeOK, Entry, guarded, history, move, CachedIsDone, CachedMeansDone
<1> QED
  BY <1>1, <1>2, <1>3, <1>4, <1>5, <1>6, <1>7, <1>8, <1>9, <1>10 DEF Next, Work

(* The token is taken from idle only, and given back by its holder. *)
LEMMA TokenStep ==
  TypeOK /\ TokenIsHeld /\ OneLifecycleCommand /\ [Next]_vars
    => (TokenIsHeld /\ OneLifecycleCommand)'
<1> SUFFICES ASSUME TypeOK, TokenIsHeld, OneLifecycleCommand, [Next]_vars
             PROVE  (TokenIsHeld /\ OneLifecycleCommand)'
  OBVIOUS
<1> USE DEF TypeOK, lifecycle, TokenIsHeld, OneLifecycleCommand
<1>1. ASSUME NEW setting \in Setting, SaveTarget(setting)
     PROVE  (TokenIsHeld /\ OneLifecycleCommand)'
  BY <1>1 DEF SaveTarget
<1>2. ASSUME NEW c \in Call, NEW action \in Action, NEW id \in Id \cup {None},
              NEW picked \in BOOLEAN, NEW chosen \in Target,
              Confirm(c, action, id, picked, chosen)
     PROVE  (TokenIsHeld /\ OneLifecycleCommand)'
  BY <1>2 DEF Confirm
<1>3. ASSUME NEW c \in Call, Begin(c)
     PROVE  (TokenIsHeld /\ OneLifecycleCommand)'
  BY <1>3 DEF Begin, Resolved, Confirmed, Remembered, Busy, TakenIds
<1>4. ASSUME NEW c \in Call, Change(c)
     PROVE  (TokenIsHeld /\ OneLifecycleCommand)'
  BY <1>4 DEF Change
<1>5. ASSUME NEW c \in Call, Fail(c)
     PROVE  (TokenIsHeld /\ OneLifecycleCommand)'
  BY <1>5 DEF Fail, Release
<1>6. ASSUME NEW c \in Call, Complete(c)
     PROVE  (TokenIsHeld /\ OneLifecycleCommand)'
  BY <1>6 DEF Complete, Release, Remember
<1>7. ASSUME NEW e \in completed, Age(e)
     PROVE  (TokenIsHeld /\ OneLifecycleCommand)'
  BY <1>7 DEF Age
<1>8. ASSUME NEW l \in Life, NEW op \in {"start", "stop"}, AcquireToken(l, op)
     PROVE  (TokenIsHeld /\ OneLifecycleCommand)'
  BY <1>8 DEF AcquireToken
<1>9. ASSUME NEW l \in Life, LifecycleEnds(l)
     PROVE  (TokenIsHeld /\ OneLifecycleCommand)'
  BY <1>9 DEF LifecycleEnds
<1>10. CASE UNCHANGED vars
  BY <1>10 DEF vars
<1> HIDE DEF TypeOK, lifecycle, TokenIsHeld, OneLifecycleCommand
<1> QED
  BY <1>1, <1>2, <1>3, <1>4, <1>5, <1>6, <1>7, <1>8, <1>9, <1>10 DEF Next, Work
----------------------------------------------------------------------------
(* The state the app starts in satisfies the invariant. *)
LEMMA InitIInv == Init => IInv
  BY ColimaIsATarget, NoneIsNothing
     DEF Init, IInv, TypeOK, Action, Setting, Request, NoRequest, Entry, Phase, Holds,
         OneOperationPerTarget, GuardsAreHeld, NothingElseIsTaken, WorksOnWhatWasConfirmed,
         RunsAreRemembered, CachedIsDone, CachedMeansDone, TokenIsHeld, OneLifecycleCommand

(* The mutex-guarded state and the calls always agree: the invariant the   *)
(* other theorems follow from.                                             *)
THEOREM Invariant == Spec => []IInv
<1>1. IInv /\ [Next]_vars => IInv'
  BY TypeStep, GuardStep, TakenStep, ConfirmedStep, RunsStep, CachedStep, TokenStep DEF IInv
<1> QED
  BY InitIInv, <1>1, PTL DEF Spec

(* Every variable keeps its type, whatever the calls do. *)
THEOREM TypeCorrect == Spec => []TypeOK
<1>1. IInv => TypeOK
  BY DEF IInv
<1> QED
  BY Invariant, <1>1, PTL

(* Two deploy operations are never at work on one target. *)
THEOREM TargetsAreExclusive == Spec => []OneOperationPerTarget
<1>1. IInv => OneOperationPerTarget
  BY DEF IInv
<1> QED
  BY Invariant, <1>1, PTL

(* No target and no operation id stays taken once no call works on it:     *)
(* Drop gives back all that acquire_deploy_guard took.                     *)
THEOREM NothingLeaks == Spec => []NothingElseIsTaken
<1>1. IInv => NothingElseIsTaken
  BY DEF IInv
<1> QED
  BY Invariant, <1>1, PTL

(* A cluster that was changed is the one the user confirmed. *)
THEOREM ConfirmedIsApplied == Spec => []AppliesWhatWasConfirmed
<1>1. IInv => AppliesWhatWasConfirmed
  BY DEF IInv, WorksOnWhatWasConfirmed, AppliesWhatWasConfirmed
<1> QED
  BY Invariant, <1>1, PTL

(* An operation id completes at most once until it is forgotten. *)
THEOREM IdsRunOnce == Spec => []NoReplay
<1>1. IInv => NoReplay
  BY DEF IInv, TypeOK, RunsAreRemembered, NoReplay
<1> QED
  BY Invariant, <1>1, PTL

(* A cached answer is about a request that was completed. *)
THEOREM CachedWasDone == Spec => []CachedMeansDone
<1>1. IInv => CachedMeansDone
  BY DEF IInv
<1> QED
  BY Invariant, <1>1, PTL

(* start_cluster and stop_cluster never overlap. *)
THEOREM LifecycleIsExclusive == Spec => []OneLifecycleCommand
<1>1. IInv => OneLifecycleCommand
  BY DEF IInv
<1> QED
  BY Invariant, <1>1, PTL

(* Operations on one target and lifecycle commands exclude each other in     *)
(* every reachable state, and what is answered from memory was done.         *)
THEOREM OperationsExcludeAlways == Spec => []OperationsExclude
<1>1. TypeOK /\ OneOperationPerTarget /\ OneLifecycleCommand /\ CachedMeansDone
        => OperationsExclude
  BY DEF OperationsExclude
<1> QED BY <1>1, TypeCorrect, TargetsAreExclusive, LifecycleIsExclusive, CachedWasDone, PTL

-----------------------------------------------------------------------------
\* The deploy target and the relay, for any clusters, interfaces, calls and relays.

\* An address is whatever the list of interfaces holds: only the shape of a
\* target is given here, and that its context is a cluster.
TargetLike(t) ==
  t = [context |-> t.context, level |-> t.level, bridge |-> t.bridge] /\ t.context \in Cluster

CallLike(c) ==
  /\ c = [pc |-> c.pc, target |-> c.target, alone |-> c.alone, for |-> c.for]
  /\ c.pc \in {"idle", "write", "context", "bridge", "return"} /\ c.alone \in BOOLEAN
  /\ TargetLike(c.target)

DtTypeOK ==
  /\ dtFile = [is |-> dtFile.is, target |-> dtFile.target] /\ TargetLike(dtFile.target)
  /\ dtCall = [c \in Calls |-> dtCall[c]] /\ \A c \in Calls : CallLike(dtCall[c])
  /\ card = [loaded |-> card.loaded, reload |-> card.reload, target |-> card.target,
             busy |-> card.busy, report |-> card.report]
  /\ TargetLike(card.target) /\ TargetLike(applied)
  /\ detect = [on |-> detect.on, context |-> detect.context, left |-> detect.left]
  /\ detect.on \in BOOLEAN
  /\ relay \in [Relay -> {"new", "binding", "listening", "ended"}]
  /\ relayHost = [r \in Relay |-> relayHost[r]] /\ relaySlot \in Relay \cup {NoRelay}
  /\ relayCrossed \in BOOLEAN /\ dtMixed \in BOOLEAN /\ moved \in BOOLEAN

\* A call that runs alone is the only one, and what it has set is cached.
LoneCalls ==
  \A c \in Calls : dtCall[c].pc # "idle" /\ dtCall[c].alone =>
    /\ \A d \in Calls : d # c => dtCall[d].pc = "idle"
    /\ dtCall[c].pc \in {"bridge", "return"} => activeCtx = dtCall[c].target.context
    /\ dtCall[c].pc = "return" => activeBrg = dtCall[c].target.bridge

\* Past its write a save is what the file tells; a get that runs alone, or
\* since the caches agree, is too, and no save runs beside it.
CallsTellFile ==
  /\ dtCall["save"].pc \in {"context", "bridge", "return"} => dtFile.target = dtCall["save"].target
  /\ \A c \in DtGet : dtCall[c].pc # "idle" /\ (dtCall[c].alone \/ ~dtMixed) =>
       dtCall[c].target = dtFile.target

CachesAgree ==
  ~dtMixed =>
    IF dtCall["save"].pc = "idle"
    THEN activeCtx = dtFile.target.context /\ activeBrg = dtFile.target.bridge
    ELSE dtCall["save"].alone

CallsAgree == LoneCalls /\ CallsTellFile /\ CachesAgree

\* A verified address was reached, from the cluster of its target unless the
\* context was changed under a detection.
WasReached(t) ==
  t.bridge.kind = "verified" =>
    \E e \in reached : e[2] = t.bridge.host /\ (moved \/ e[1] = t.context)
Bound(a) ==
  \/ \E i \in DOMAIN Iface : Iface[i].addr = a /\ Iface[i].loopback
  \/ \E e \in reached : e[2] = a

AddressesAreReached ==
  /\ WasReached(card.target) /\ WasReached(dtFile.target) /\ WasReached(applied)
  /\ \A c \in Calls : WasReached(dtCall[c].target)
  /\ activeBrg.kind = "verified" => \E e \in reached : e[2] = activeBrg.host
  /\ detect.on /\ ~moved => card.target.context = detect.context
  /\ applied.bridge.kind # "unverified" /\ (applied.bridge = KeepBase => applied.context = Managed)
  /\ \A r \in Relay : relay[r] \in {"binding", "listening"} => Bound(relayHost[r])

\* Unless two were started at once, a relay that listens is in the slot, and
\* none listens beside one that is being bound.
RelaysAreOwned ==
  ~relayCrossed =>
    /\ \A r \in Relay : relay[r] = "listening" => relaySlot = r
    /\ \A r, s \in Relay : relay[r] = "binding" /\ relay[s] \in {"binding", "listening"} => r = s

DtInv == DtTypeOK /\ CallsAgree /\ AddressesAreReached /\ RelaysAreOwned

-----------------------------------------------------------------------------
\* A target that was just chosen is none that was verified.
LEMMA ForContextFacts ==
  ASSUME NEW c \in Cluster
  PROVE  TargetLike(ForContext(c)) /\ ForContext(c).context = c /\ WasReached(ForContext(c))
         /\ ForContext(c).bridge.kind # "verified"
<1>1. /\ ForContext(c).context = c
      /\ ForContext(c).bridge = IF c = Managed THEN KeepBase ELSE Unverified("not_probed")
  BY DEF ForContext
<1>2. KeepBase.kind = "keep_base" /\ Unverified("not_probed").kind = "unverified"
  BY DEF KeepBase, Unverified
<1>3. TargetLike(ForContext(c))
  BY DEF ForContext, TargetLike
<1>4. QED
  BY <1>1, <1>2, <1>3 DEF WasReached

\* The calls and what they write stay as they are.
LEMMA CallsStay ==
  ASSUME DtInv, UNCHANGED <<dtFile, activeCtx, activeBrg, dtCall, dtMixed>>
  PROVE  CallsAgree'
BY DEF DtInv, CallsAgree, LoneCalls, CallsTellFile, CachesAgree

\* The relays stay as they are.
LEMMA RelaysStay ==
  ASSUME DtInv, UNCHANGED relayVars
  PROVE  RelaysAreOwned'
BY DEF DtInv, RelaysAreOwned, relayVars

\* What was reached stays reached.
LEMMA ReachedStays ==
  ASSUME reached \subseteq reached', moved => moved'
  PROVE  /\ \A t : WasReached(t) => (t.bridge.kind = "verified" =>
                     \E e \in reached' : e[2] = t.bridge.host /\ (moved' \/ e[1] = t.context))
         /\ \A a : Bound(a) => \/ \E i \in DOMAIN Iface : Iface[i].addr = a /\ Iface[i].loopback
                               \/ \E e \in reached' : e[2] = a
BY DEF WasReached, Bound

\* Only the card, the detection and what was reached change.
LEMMA CardInv ==
  ASSUME DtInv, UNCHANGED <<dtFile, activeCtx, activeBrg, dtCall, applied, relayVars, dtMixed>>,
         reached \subseteq reached', moved => moved', moved' \in BOOLEAN,
         card' = [loaded |-> card'.loaded, reload |-> card'.reload, target |-> card'.target,
                  busy |-> card'.busy, report |-> card'.report],
         TargetLike(card'.target), WasReached(card.target)',
         detect' = [on |-> detect'.on, context |-> detect'.context, left |-> detect'.left],
         detect'.on \in BOOLEAN, detect'.on /\ ~moved' => card'.target.context = detect'.context
  PROVE  DtInv'
<1>1. DtTypeOK'
  BY DEF DtInv, DtTypeOK, relayVars
<1>2. WasReached(dtFile.target)' /\ WasReached(applied)'
  BY ReachedStays DEF DtInv, AddressesAreReached, WasReached
<1>3. \A c \in Calls : WasReached(dtCall[c].target)'
  BY ReachedStays DEF DtInv, AddressesAreReached, WasReached
<1>4. /\ activeBrg'.kind = "verified" => \E e \in reached' : e[2] = activeBrg'.host
      /\ applied'.bridge.kind # "unverified" /\ (applied'.bridge = KeepBase => applied'.context = Managed)
  BY DEF DtInv, AddressesAreReached
<1>5. \A r \in Relay : relay'[r] \in {"binding", "listening"} => Bound(relayHost[r])'
  BY ReachedStays DEF DtInv, AddressesAreReached, relayVars, Bound
<1>6. AddressesAreReached'
  BY <1>2, <1>3, <1>4, <1>5 DEF AddressesAreReached
<1>7. QED
  BY <1>1, <1>6, CallsStay, RelaysStay DEF DtInv

\* Nothing is saved, asked or relayed at the start.
LEMMA DtInitInv == DtInit => DtInv
<1> SUFFICES ASSUME DtInit PROVE DtInv
  OBVIOUS
<1> DEFINE t == ForContext(Managed)
<1>1. /\ Managed \in Cluster /\ TargetLike(t) /\ t.context = Managed /\ WasReached(t)
      /\ t.bridge.kind = "keep_base"
  <2>1. Managed \in Cluster
    BY DeployTargetsAssumption
  <2>2. t.bridge = KeepBase
    BY DEF ForContext
  <2>3. QED
    BY <2>1, <2>2, ForContextFacts DEF KeepBase
<1> HIDE DEF t
<1>2. dtFile = [is |-> "none", target |-> t] /\ applied = t
  BY DEF DtInit, t
<1>3. dtCall = [c \in Calls |-> [pc |-> "idle", target |-> t, alone |-> TRUE, for |-> "show"]]
  BY DEF DtInit, t, IdleDt
<1>4. card = [loaded |-> FALSE, reload |-> TRUE, target |-> t, busy |-> "no", report |-> NoReport]
  BY DEF DtInit, t, NewCard
<1>5. detect = [on |-> FALSE, context |-> Managed, left |-> <<>>]
  BY DEF DtInit, NoDetect
<1>6. activeBrg = [kind |-> "unverified", host |-> "not_set"]
  BY DEF DtInit, Unverified
<1>7. dtMixed = TRUE /\ moved = FALSE /\ relayCrossed = FALSE
  BY DEF DtInit
<1>8. /\ relay = [r \in Relay |-> "new"] /\ relayHost = [r \in Relay |-> "none"]
       /\ relaySlot = NoRelay
  BY DEF DtInit
<1>9. DtTypeOK
  <2>1. dtFile = [is |-> dtFile.is, target |-> dtFile.target] /\ TargetLike(dtFile.target)
    BY <1>1, <1>2
  <2>2. dtCall = [c \in Calls |-> dtCall[c]] /\ \A c \in Calls : CallLike(dtCall[c])
    BY <1>1, <1>3 DEF CallLike
  <2>3. card = [loaded |-> card.loaded, reload |-> card.reload, target |-> card.target,
             busy |-> card.busy, report |-> card.report] /\ TargetLike(card.target) /\ TargetLike(applied)
    BY <1>1, <1>2, <1>4
  <2>4. QED
  BY <1>1, <1>2, <1>5, <1>7, <1>8, <2>1, <2>2, <2>3 DEF DtTypeOK
<1>10. CallsAgree
  BY <1>2, <1>3, <1>7, DeployTargetsAssumption DEF CallsAgree, LoneCalls, CallsTellFile, CachesAgree, Calls
<1>11. AddressesAreReached
  <2>1. WasReached(card.target) /\ WasReached(dtFile.target) /\ WasReached(applied)
    BY <1>1, <1>2, <1>4
  <2>2. \A c \in Calls : WasReached(dtCall[c].target)
    BY <1>1, <1>3
  <2>3. /\ activeBrg.kind # "verified" /\ ~detect.on
        /\ applied.bridge.kind # "unverified" /\ applied.context = Managed
        /\ \A r \in Relay : relay[r] \notin {"binding", "listening"}
    BY <1>1, <1>2, <1>5, <1>6, <1>8
  <2>4. QED
    BY <2>1, <2>2, <2>3 DEF AddressesAreReached
<1>12. RelaysAreOwned
  BY <1>8 DEF RelaysAreOwned
<1>13. QED
  BY <1>9, <1>10, <1>11, <1>12 DEF DtInv

\* The user chooses another context: a detection under way was for the old one.
LEMMA SelectContextInv ==
  ASSUME DtInv, NEW c \in Cluster, SelectContext(c)
  PROVE  DtInv'
<1>1. /\ UNCHANGED <<dtFile, activeCtx, activeBrg, dtCall, detect, applied, relayVars, reached, dtMixed>>
      /\ card' = [card EXCEPT !.target = ForContext(c), !.report = NoReport]
      /\ moved' = (moved \/ (detect.on /\ detect.context # c))
  BY DEF SelectContext, savedVars
<1>2. /\ card' = [loaded |-> card.loaded, reload |-> card.reload, target |-> ForContext(c),
                  busy |-> card.busy, report |-> NoReport]
  BY <1>1 DEF DtInv, DtTypeOK
<1>3. card'.target = ForContext(c)
  BY <1>2
<1>4. WasReached(card.target)'
  BY <1>3, ForContextFacts DEF WasReached
<1>5. QED
  BY <1>1, <1>2, <1>3, <1>4, ForContextFacts, CardInv DEF DtInv, DtTypeOK

LEMMA ChooseFullStackInv == DtInv /\ ChooseFullStack => DtInv'
<1> SUFFICES ASSUME DtInv, ChooseFullStack PROVE DtInv'
  OBVIOUS
<1> DEFINE t == [card.target EXCEPT !.level = "full-stack"]
<1>1. UNCHANGED <<dtFile, activeCtx, activeBrg, dtCall, detect, applied, relayVars, reached, dtMixed, moved>>
  BY DEF ChooseFullStack, savedVars
<1>2. TargetLike(t) /\ t.context = card.target.context /\ t.bridge = card.target.bridge
  BY DEF DtInv, DtTypeOK, TargetLike
<1>3. card' = [loaded |-> card.loaded, reload |-> card.reload, target |-> t,
               busy |-> card.busy, report |-> card.report]
  BY DEF DtInv, DtTypeOK, ChooseFullStack
<1> HIDE DEF t
<1>4. card'.target = t
  BY <1>3
<1>5. WasReached(card.target)'
  BY <1>1, <1>2, <1>4 DEF DtInv, AddressesAreReached, WasReached
<1>6. QED
  BY <1>1, <1>2, <1>3, <1>4, <1>5, CardInv DEF DtInv, DtTypeOK, AddressesAreReached

LEMMA RunPreflightInv == DtInv /\ RunPreflight => DtInv'
<1> SUFFICES ASSUME DtInv, RunPreflight PROVE DtInv'
  OBVIOUS
<1>1. UNCHANGED <<dtFile, activeCtx, activeBrg, dtCall, detect, applied, relayVars, reached, dtMixed, moved>>
  BY DEF RunPreflight, savedVars
<1>2. PICK x : card' = [card EXCEPT !.report = x]
  BY DEF RunPreflight
<1>3. card' = [loaded |-> card.loaded, reload |-> card.reload, target |-> card.target,
               busy |-> card.busy, report |-> x]
  BY <1>2 DEF DtInv, DtTypeOK
<1>4. QED
  BY <1>1, <1>3, CardInv DEF DtInv, DtTypeOK, AddressesAreReached, WasReached

LEMMA DetectBridgeInv == DtInv /\ DetectBridge => DtInv'
<1> SUFFICES ASSUME DtInv, DetectBridge PROVE DtInv'
  OBVIOUS
<1> DEFINE left == BridgeCandidates(card.target.context)
<1>1. /\ UNCHANGED <<dtFile, activeCtx, activeBrg, dtCall, applied, relayVars, reached, dtMixed, moved>>
      /\ card' = [card EXCEPT !.busy = "bridge"]
      /\ detect' = [on |-> TRUE, context |-> card.target.context, left |-> left]
  BY DEF DetectBridge, savedVars
<1> HIDE DEF left
<1>2. card' = [loaded |-> card.loaded, reload |-> card.reload, target |-> card.target,
               busy |-> "bridge", report |-> card.report]
  BY <1>1 DEF DtInv, DtTypeOK
<1>3. QED
  BY <1>1, <1>2, CardInv DEF DtInv, DtTypeOK, AddressesAreReached, WasReached

\* The detection's answer goes into the target the card holds by now: what was
\* verified was reached from the cluster the detection was for.
LEMMA AnswerInv ==
  ASSUME DtInv, NEW brg, Answer(brg), detect.on, reached \subseteq reached',
         brg.kind = "verified" => <<detect.context, brg.host>> \in reached'
  PROVE  DtInv'
<1> DEFINE t == [context |-> card.target.context, level |-> card.target.level, bridge |-> brg]
<1>1. /\ UNCHANGED <<dtFile, activeCtx, activeBrg, dtCall, applied, relayVars, dtMixed, moved>>
      /\ card' = [card EXCEPT !.busy = "no", !.target.bridge = brg]
      /\ detect' = [on |-> FALSE, context |-> Managed, left |-> <<>>]
  BY DEF Answer, savedVars, NoDetect
<1>2. [card.target EXCEPT !.bridge = brg] = t
  BY DEF DtInv, DtTypeOK, TargetLike
<1>3. TargetLike(t) /\ t.bridge = brg /\ t.context = card.target.context
  BY DEF DtInv, DtTypeOK, TargetLike
<1>4. card' = [loaded |-> card.loaded, reload |-> card.reload, target |-> t,
               busy |-> "no", report |-> card.report]
  <2>1. card' = [card EXCEPT !.busy = "no", !.target = [card.target EXCEPT !.bridge = brg]]
    BY <1>1 DEF DtInv, DtTypeOK
  <2> HIDE DEF t
  <2>2. QED
    BY <1>2, <2>1 DEF DtInv, DtTypeOK
<1> HIDE DEF t
<1>5. card'.target = t
  BY <1>4
<1>6. WasReached(card.target)'
  <2>1. SUFFICES ASSUME brg.kind = "verified"
                 PROVE  \E e \in reached' : e[2] = brg.host /\ (moved \/ e[1] = card.target.context)
    BY <1>1, <1>3, <1>5 DEF WasReached
  <2>2. moved \/ card.target.context = detect.context
    BY DEF DtInv, AddressesAreReached
  <2>3. QED
    BY <2>1, <2>2
<1>7. QED
  BY <1>1, <1>3, <1>4, <1>5, <1>6, CardInv DEF DtInv, DtTypeOK

\* The answers that verify nothing, and the one of a pod that reached the host.
LEMMA DetectionAnswersInv ==
  DtInv /\ (DetectManaged \/ DetectNoCandidate \/ ProbeReaches \/ DetectFails) => DtInv'
<1>1. KeepBase.kind = "keep_base" /\ \A w : Unverified(w).kind = "unverified"
  BY DEF KeepBase, Unverified
<1>2. \A a : Reachable(a).host = a
  BY DEF Reachable
<1>3. ASSUME DtInv, DetectManaged PROVE DtInv'
  BY <1>1, <1>3, AnswerInv DEF DetectManaged
<1>4. ASSUME DtInv, DetectNoCandidate PROVE DtInv'
  BY <1>1, <1>4, AnswerInv DEF DetectNoCandidate
<1>5. ASSUME DtInv, ProbeReaches PROVE DtInv'
  <2> DEFINE a == Head(detect.left)
  <2>1. detect.on /\ reached' = reached \cup {<<detect.context, a>>} /\ Answer(Reachable(a))
    BY <1>5 DEF ProbeReaches
  <2> HIDE DEF a
  <2>2. QED
    BY <1>2, <1>5, <2>1, AnswerInv
<1>6. ASSUME DtInv, DetectFails PROVE DtInv'
  BY <1>1, <1>6, AnswerInv DEF DetectFails
<1>7. QED
  BY <1>3, <1>4, <1>5, <1>6

LEMMA ProbeFailsInv == DtInv /\ ProbeFails => DtInv'
<1> SUFFICES ASSUME DtInv, ProbeFails PROVE DtInv'
  OBVIOUS
<1> DEFINE left == Tail(detect.left)
<1>1. reached' = reached /\ detect.on
  BY DEF ProbeFails
<1>2. CASE left = <<>>
  <2>1. Answer(Unverified("unreachable_from_cluster"))
    BY <1>2 DEF ProbeFails
  <2>2. Unverified("unreachable_from_cluster").kind = "unverified"
    BY DEF Unverified
  <2>3. QED
    BY <1>1, <2>1, <2>2, AnswerInv
<1>3. CASE left # <<>>
  <2>1. /\ detect' = [detect EXCEPT !.left = left]
        /\ UNCHANGED <<dtFile, activeCtx, activeBrg, dtCall, card, applied, relayVars, dtMixed, moved>>
    BY <1>3 DEF ProbeFails, savedVars
  <2> HIDE DEF left
  <2>2. detect' = [on |-> detect.on, context |-> detect.context, left |-> left]
    BY <2>1 DEF DtInv, DtTypeOK
  <2>3. QED
    BY <1>1, <2>1, <2>2, CardInv DEF DtInv, DtTypeOK, AddressesAreReached, WasReached
<1>4. QED
  BY <1>2, <1>3

-----------------------------------------------------------------------------
\* A call that begins: those under way do not run alone any more.
LEMMA StartedFacts ==
  ASSUME DtTypeOK, NEW c \in Calls, NEW pc \in {"write", "context"}, NEW t, NEW for,
         TargetLike(t), dtCall' = Started(c, pc, t, for)
  PROVE  /\ dtCall' = [d \in Calls |-> dtCall'[d]] /\ \A d \in Calls : CallLike(dtCall'[d])
         /\ dtCall'[c].pc = pc /\ dtCall'[c].target = t /\ dtCall'[c].alone = Quiet
         /\ \A d \in Calls : d # c => /\ dtCall'[d].pc = dtCall[d].pc /\ dtCall'[d].alone = FALSE
                                      /\ dtCall'[d].target = dtCall[d].target
<1> DEFINE New(d) == IF d = c THEN [pc |-> pc, target |-> t, alone |-> Quiet, for |-> for]
                     ELSE [dtCall[d] EXCEPT !.alone = FALSE]
<1>1. Quiet \in BOOLEAN
  BY DEF Quiet
<1>2. dtCall' = [d \in Calls |-> New(d)]
  BY DEF Started
<1>3. New(c) = [pc |-> pc, target |-> t, alone |-> Quiet, for |-> for]
  OBVIOUS
<1>4. ASSUME NEW d \in Calls, d # c
      PROVE  /\ CallLike(New(d)) /\ New(d).pc = dtCall[d].pc /\ New(d).alone = FALSE
             /\ New(d).target = dtCall[d].target
  <2>1. CallLike(dtCall[d])
    BY DEF DtTypeOK
  <2>2. New(d) = [dtCall[d] EXCEPT !.alone = FALSE]
    BY <1>4
  <2>3. New(d) = [pc |-> dtCall[d].pc, target |-> dtCall[d].target, alone |-> FALSE,
                  for |-> dtCall[d].for]
    BY <2>1, <2>2 DEF CallLike
  <2> HIDE DEF New
  <2>4. QED
    BY <2>1, <2>3 DEF CallLike
<1> HIDE DEF New
<1>5. CallLike(New(c))
  BY <1>1, <1>3 DEF CallLike
<1>6. dtCall' = [d \in Calls |-> dtCall'[d]] /\ \A d \in Calls : dtCall'[d] = New(d)
  BY <1>2
<1>7. dtCall'[c].pc = pc /\ dtCall'[c].target = t /\ dtCall'[c].alone = Quiet
  BY <1>3, <1>6
<1>8. \A d \in Calls : d # c => /\ dtCall'[d].pc = dtCall[d].pc /\ dtCall'[d].alone = FALSE
                               /\ dtCall'[d].target = dtCall[d].target
  BY <1>4, <1>6
<1>9. \A d \in Calls : CallLike(dtCall'[d])
  BY <1>4, <1>5, <1>6
<1>10. QED
  BY <1>6, <1>7, <1>8, <1>9

\* A call that goes on changes in nothing else.
LEMMA GoesOnFacts ==
  ASSUME DtTypeOK, NEW c \in Calls, NEW pc \in {"context", "bridge", "return"},
         dtCall' = [dtCall EXCEPT ![c].pc = pc]
  PROVE  /\ dtCall' = [d \in Calls |-> dtCall'[d]] /\ \A d \in Calls : CallLike(dtCall'[d])
         /\ dtCall'[c].pc = pc
         /\ \A d \in Calls : d # c => dtCall'[d].pc = dtCall[d].pc
         /\ \A d \in Calls : dtCall'[d].alone = dtCall[d].alone /\ dtCall'[d].target = dtCall[d].target
<1>1. \A d \in Calls : CallLike(dtCall[d])
  BY DEF DtTypeOK
<1>2. dtCall' = [d \in Calls |-> IF d = c THEN [dtCall[d] EXCEPT !.pc = pc] ELSE dtCall[d]]
  BY DEF DtTypeOK
<1>3. dtCall'[c] = [pc |-> pc, target |-> dtCall[c].target, alone |-> dtCall[c].alone,
                    for |-> dtCall[c].for]
  BY <1>1, <1>2 DEF CallLike
<1>4. CallLike(dtCall'[c])
  <2> DEFINE k == dtCall'[c]
             t == dtCall[c].target
  <2>1. TargetLike(t) /\ dtCall[c].alone \in BOOLEAN
    BY <1>1 DEF CallLike
  <2>2. k = [pc |-> pc, target |-> t, alone |-> dtCall[c].alone, for |-> dtCall[c].for]
    BY <1>3
  <2> HIDE DEF k, t
  <2>3. CallLike(k)
    BY <2>1, <2>2 DEF CallLike
  <2>4. QED
    BY <2>3 DEF k
<1>5. QED
  BY <1>1, <1>2, <1>3, <1>4

\* A call's step: whatever it takes over is a target a call, the file or the
\* card held.
LEMMA CallInv ==
  ASSUME DtInv, UNCHANGED <<detect, relayVars, reached>>, moved => moved',
         moved' \in BOOLEAN, dtMixed' \in BOOLEAN, CallsAgree',
         dtFile' = [is |-> dtFile'.is, target |-> dtFile'.target],
         TargetLike(dtFile'.target), WasReached(dtFile'.target),
         dtCall' = [c \in Calls |-> dtCall'[c]],
         \A c \in Calls : CallLike(dtCall'[c]) /\ WasReached(dtCall'[c].target),
         card' = [loaded |-> card'.loaded, reload |-> card'.reload, target |-> card'.target,
                  busy |-> card'.busy, report |-> card'.report],
         TargetLike(card'.target), WasReached(card'.target),
         detect.on /\ ~moved' => card'.target.context = detect.context,
         activeBrg'.kind = "verified" => \E e \in reached : e[2] = activeBrg'.host,
         TargetLike(applied'), WasReached(applied'), applied'.bridge.kind # "unverified",
         applied'.bridge = KeepBase => applied'.context = Managed
  PROVE  DtInv'
<1>1. DtTypeOK'
  BY DEF DtInv, DtTypeOK, relayVars
<1>2. \A t : WasReached(t) => (t.bridge.kind = "verified" =>
           \E e \in reached' : e[2] = t.bridge.host /\ (moved' \/ e[1] = t.context))
  BY ReachedStays
<1>3. WasReached(dtFile.target)' /\ WasReached(applied)' /\ WasReached(card.target)'
  BY <1>2 DEF WasReached
<1>4. \A c \in Calls : WasReached(dtCall[c].target)'
  BY <1>2 DEF WasReached
<1>5. \A r \in Relay : relay'[r] \in {"binding", "listening"} => Bound(relayHost[r])'
  BY DEF DtInv, AddressesAreReached, relayVars, Bound
<1>6. AddressesAreReached'
  BY <1>3, <1>4, <1>5 DEF AddressesAreReached
<1>7. QED
  BY <1>1, <1>6, RelaysStay DEF DtInv

LEMMA SaveDeployTargetInv == DtInv /\ SaveDeployTarget => DtInv'
<1> SUFFICES ASSUME DtInv, SaveDeployTarget PROVE DtInv'
  OBVIOUS
<1>1. /\ dtCall["save"].pc = "idle" /\ card' = [card EXCEPT !.busy = "save"]
      /\ dtFile' = [dtFile EXCEPT !.is = "garbled"]
      /\ dtCall' = Started("save", "write", card.target, "show")
      /\ dtMixed' = (dtMixed \/ ~Quiet)
      /\ UNCHANGED <<activeCtx, activeBrg, detect, applied, relayVars, reached, moved>>
  BY DEF SaveDeployTarget
<1>2. "save" \in Calls /\ TargetLike(card.target) /\ dtMixed' \in BOOLEAN
  BY <1>1 DEF Calls, DtInv, DtTypeOK, Quiet
<1>3. dtFile' = [is |-> "garbled", target |-> dtFile.target]
  BY <1>1 DEF DtInv, DtTypeOK
<1>4. card' = [loaded |-> card.loaded, reload |-> card.reload, target |-> card.target,
               busy |-> "save", report |-> card.report]
  BY <1>1 DEF DtInv, DtTypeOK
<1>5. /\ dtCall' = [d \in Calls |-> dtCall'[d]] /\ \A d \in Calls : CallLike(dtCall'[d])
      /\ dtCall'["save"].pc = "write" /\ dtCall'["save"].target = card.target
      /\ dtCall'["save"].alone = Quiet
      /\ \A d \in Calls : d # "save" =>
           /\ dtCall'[d].pc = dtCall[d].pc /\ dtCall'[d].alone = FALSE
           /\ dtCall'[d].target = dtCall[d].target
  BY <1>1, <1>2, StartedFacts DEF DtInv
<1>6. CallsAgree'
  <2>1. LoneCalls'
    BY <1>5 DEF LoneCalls, Quiet
  <2>2. CallsTellFile'
    <3>1. ASSUME NEW c \in DtGet, dtCall'[c].pc # "idle" PROVE ~dtCall'[c].alone /\ dtMixed'
      <4>1. c \in Calls /\ c # "save"
        BY DeployTargetsAssumption DEF Calls
      <4>2. dtCall[c].pc # "idle" /\ dtCall'[c].alone = FALSE
        BY <1>5, <3>1, <4>1
      <4>3. QED
        BY <1>1, <4>1, <4>2 DEF Quiet
    <3>2. dtCall'["save"].pc \notin {"context", "bridge", "return"}
      BY <1>5
    <3>3. QED
      BY <3>1, <3>2 DEF CallsTellFile
  <2>3. CachesAgree'
    BY <1>1, <1>5 DEF CachesAgree
  <2>4. QED
    BY <2>1, <2>2, <2>3 DEF CallsAgree
<1>7. \A d \in Calls : WasReached(dtCall'[d].target)
  BY <1>5 DEF DtInv, AddressesAreReached
<1>8. QED
  BY <1>1, <1>2, <1>3, <1>4, <1>5, <1>6, <1>7, CallInv DEF DtInv, DtTypeOK, AddressesAreReached

LEMMA SaveWritesInv == DtInv /\ SaveWrites => DtInv'
<1> SUFFICES ASSUME DtInv, SaveWrites PROVE DtInv'
  OBVIOUS
<1>1. /\ dtCall["save"].pc = "write"
      /\ dtFile' = [is |-> "saved", target |-> dtCall["save"].target]
      /\ dtCall' = [dtCall EXCEPT !["save"].pc = "context"]
      /\ UNCHANGED <<activeCtx, activeBrg, card, detect, applied, relayVars, reached, dtMixed, moved>>
  BY DEF SaveWrites, cardVars
<1>2. "save" \in Calls /\ TargetLike(dtCall["save"].target)
  BY DEF Calls, DtInv, DtTypeOK, CallLike
<1>3. /\ dtCall' = [d \in Calls |-> dtCall'[d]] /\ \A d \in Calls : CallLike(dtCall'[d])
      /\ dtCall'["save"].pc = "context"
      /\ \A d \in Calls : d # "save" => dtCall'[d].pc = dtCall[d].pc
      /\ \A d \in Calls : dtCall'[d].alone = dtCall[d].alone /\ dtCall'[d].target = dtCall[d].target
  BY <1>1, <1>2, GoesOnFacts DEF DtInv
<1>4. CallsAgree'
  <2>1. LoneCalls'
    BY <1>1, <1>2, <1>3 DEF DtInv, CallsAgree, LoneCalls
  <2>2. CallsTellFile'
    BY <1>1, <1>2, <1>3, DeployTargetsAssumption
    DEF DtInv, CallsAgree, LoneCalls, CachesAgree, CallsTellFile, Calls
  <2>3. CachesAgree'
    BY <1>1, <1>2, <1>3 DEF DtInv, CallsAgree, CachesAgree
  <2>4. QED
    BY <2>1, <2>2, <2>3 DEF CallsAgree
<1>5. \A d \in Calls : WasReached(dtCall'[d].target)
  BY <1>3 DEF DtInv, AddressesAreReached
<1>6. QED
  BY <1>1, <1>2, <1>3, <1>4, <1>5, CallInv DEF DtInv, DtTypeOK, AddressesAreReached

LEMMA GetInv ==
  ASSUME DtInv, NEW c \in DtGet, NEW for \in {"show", "apply"}, Get(c, for)
  PROVE  DtInv'
<1> DEFINE again == card.reload /\ for # "show"
<1>1. /\ dtCall[c].pc = "idle" /\ card' = [card EXCEPT !.reload = again]
      /\ dtCall' = Started(c, "context", dtFile.target, for)
      /\ dtMixed' = (dtMixed \/ dtCall["save"].pc # "idle")
      /\ UNCHANGED <<dtFile, activeCtx, activeBrg, detect, applied, relayVars, reached, moved>>
  BY DEF Get, savedVars
<1> HIDE DEF again
<1>2. c \in Calls /\ c # "save" /\ "save" \in Calls /\ TargetLike(dtFile.target)
      /\ dtMixed' \in BOOLEAN
  BY <1>1, DeployTargetsAssumption DEF Calls, DtInv, DtTypeOK
<1>3. card' = [loaded |-> card.loaded, reload |-> again, target |-> card.target,
               busy |-> card.busy, report |-> card.report]
  BY <1>1 DEF DtInv, DtTypeOK
<1>4. /\ dtCall' = [d \in Calls |-> dtCall'[d]] /\ \A d \in Calls : CallLike(dtCall'[d])
      /\ dtCall'[c].pc = "context" /\ dtCall'[c].target = dtFile.target
      /\ dtCall'[c].alone = Quiet
      /\ \A d \in Calls : d # c =>
           /\ dtCall'[d].pc = dtCall[d].pc /\ dtCall'[d].alone = FALSE
           /\ dtCall'[d].target = dtCall[d].target
  BY <1>1, <1>2, StartedFacts DEF DtInv
<1>5. CallsAgree'
  <2>1. LoneCalls'
    BY <1>4 DEF LoneCalls, Quiet
  <2>2. CallsTellFile'
    BY <1>1, <1>2, <1>4 DEF DtInv, CallsAgree, CallsTellFile, Calls
  <2>3. CachesAgree'
    BY <1>1, <1>2, <1>4 DEF DtInv, CallsAgree, CachesAgree
  <2>4. QED
    BY <2>1, <2>2, <2>3 DEF CallsAgree
<1>6. \A d \in Calls : WasReached(dtCall'[d].target)
  BY <1>4 DEF DtInv, AddressesAreReached
<1>7. QED
  BY <1>1, <1>2, <1>3, <1>4, <1>5, <1>6, CallInv DEF DtInv, DtTypeOK, AddressesAreReached

LEMMA SetContextInv ==
  ASSUME DtInv, NEW c \in Calls, SetContext(c)
  PROVE  DtInv'
<1>1. /\ dtCall[c].pc = "context" /\ activeCtx' = dtCall[c].target.context
      /\ dtCall' = [dtCall EXCEPT ![c].pc = "bridge"]
      /\ UNCHANGED <<dtFile, activeBrg, card, detect, applied, relayVars, reached, dtMixed, moved>>
  BY DEF SetContext, cardVars
<1>2. /\ dtCall' = [d \in Calls |-> dtCall'[d]] /\ \A d \in Calls : CallLike(dtCall'[d])
      /\ dtCall'[c].pc = "bridge"
      /\ \A d \in Calls : d # c => dtCall'[d].pc = dtCall[d].pc
      /\ \A d \in Calls : dtCall'[d].alone = dtCall[d].alone /\ dtCall'[d].target = dtCall[d].target
  BY <1>1, GoesOnFacts DEF DtInv
<1>3. CallsAgree'
  <2>1. LoneCalls'
    BY <1>1, <1>2 DEF DtInv, CallsAgree, LoneCalls
  <2>2. CallsTellFile'
    BY <1>1, <1>2 DEF DtInv, CallsAgree, CallsTellFile, Calls
  <2>3. CachesAgree'
    BY <1>1, <1>2 DEF DtInv, CallsAgree, CallsTellFile, CachesAgree, Calls
  <2>4. QED
    BY <2>1, <2>2, <2>3 DEF CallsAgree
<1>4. \A d \in Calls : WasReached(dtCall'[d].target)
  BY <1>2 DEF DtInv, AddressesAreReached
<1>5. QED
  BY <1>1, <1>2, <1>3, <1>4, CallInv DEF DtInv, DtTypeOK, AddressesAreReached

LEMMA SetBridgeInv ==
  ASSUME DtInv, NEW c \in Calls, SetBridge(c)
  PROVE  DtInv'
<1>1. /\ dtCall[c].pc = "bridge" /\ activeBrg' = dtCall[c].target.bridge
      /\ dtCall' = [dtCall EXCEPT ![c].pc = "return"]
      /\ dtMixed' = (dtMixed /\ ~dtCall[c].alone)
      /\ UNCHANGED <<dtFile, activeCtx, card, detect, applied, relayVars, reached, moved>>
  BY DEF SetBridge, cardVars
<1>2. /\ dtCall' = [d \in Calls |-> dtCall'[d]] /\ \A d \in Calls : CallLike(dtCall'[d])
      /\ dtCall'[c].pc = "return"
      /\ \A d \in Calls : d # c => dtCall'[d].pc = dtCall[d].pc
      /\ \A d \in Calls : dtCall'[d].alone = dtCall[d].alone /\ dtCall'[d].target = dtCall[d].target
  BY <1>1, GoesOnFacts DEF DtInv
<1>3. dtMixed' \in BOOLEAN /\ WasReached(dtCall[c].target) /\ "save" \in Calls
  BY <1>1 DEF DtInv, DtTypeOK, AddressesAreReached, Calls
<1>4. CallsAgree'
  <2>1. LoneCalls'
    BY <1>1, <1>2 DEF DtInv, CallsAgree, LoneCalls
  <2>2. CallsTellFile'
    <3>1. dtCall'["save"].pc \in {"context", "bridge", "return"} => dtFile'.target = dtCall'["save"].target
      BY <1>1, <1>2, <1>3 DEF DtInv, CallsAgree, CallsTellFile
    <3>2. ASSUME NEW d \in DtGet, dtCall'[d].pc # "idle", dtCall'[d].alone \/ ~dtMixed'
          PROVE  dtCall'[d].target = dtFile'.target
      <4>1. d \in Calls /\ dtCall[d].pc # "idle" /\ (dtCall[d].alone \/ ~dtMixed \/ dtCall[c].alone)
        BY <1>1, <1>2, <3>2 DEF Calls
      <4>2. dtCall[c].alone => d = c
        BY <1>1, <4>1 DEF DtInv, CallsAgree, LoneCalls
      <4>3. QED
        BY <1>1, <1>2, <4>1, <4>2 DEF DtInv, CallsAgree, CallsTellFile
    <3>3. QED
      BY <3>1, <3>2 DEF CallsTellFile
  <2>3. CachesAgree'
    <3>1. CASE ~dtMixed
      BY <1>1, <1>2, <1>3, <3>1 DEF DtInv, CallsAgree, CallsTellFile, CachesAgree, Calls
    <3>2. CASE dtCall[c].alone
      <4>1. /\ \A d \in Calls : d # c => dtCall[d].pc = "idle"
            /\ activeCtx = dtCall[c].target.context
        BY <1>1, <3>2 DEF DtInv, CallsAgree, LoneCalls
      <4>2. dtFile.target = dtCall[c].target
        BY <1>1, <3>2 DEF DtInv, CallsAgree, CallsTellFile, Calls
      <4>3. QED
        BY <1>1, <1>2, <1>3, <3>2, <4>1, <4>2 DEF CachesAgree
    <3>3. QED
      BY <1>1, <3>1, <3>2 DEF CachesAgree
  <2>4. QED
    BY <2>1, <2>2, <2>3 DEF CallsAgree
<1>5. \A d \in Calls : WasReached(dtCall'[d].target)
  BY <1>2 DEF DtInv, AddressesAreReached
<1>6. activeBrg'.kind = "verified" => \E e \in reached : e[2] = activeBrg'.host
  BY <1>1, <1>3 DEF WasReached
<1>7. QED
  BY <1>1, <1>2, <1>3, <1>4, <1>5, <1>6, CallInv DEF DtInv, DtTypeOK, AddressesAreReached

LEMMA DtReturnInv ==
  ASSUME DtInv, NEW c \in Calls, DtReturn(c)
  PROVE  DtInv'
<1> DEFINE t == dtCall[c].target
           none == ForContext(Managed)
           re == card.reload \/ c = "save"
           b == IF c = "save" THEN "no" ELSE card.busy
<1>1. /\ dtCall[c].pc = "return" /\ dtCall' = [dtCall EXCEPT ![c] = IdleDt]
      /\ UNCHANGED <<dtFile, activeCtx, activeBrg, detect, relayVars, reached, dtMixed>>
  BY DEF DtReturn, savedVars
<1>2. /\ CallLike(dtCall[c]) /\ TargetLike(t) /\ WasReached(t)
      /\ Managed \in Cluster /\ TargetLike(none) /\ WasReached(none)
  BY DeployTargetsAssumption, ForContextFacts
  DEF DtInv, DtTypeOK, CallLike, AddressesAreReached
<1>3. /\ applied' = applied \/ (Renders(t) /\ applied' = t)
      /\ \/ card' = card /\ moved' = moved
         \/ /\ moved' = (moved \/ (detect.on /\ detect.context # t.context))
            /\ card' = [card EXCEPT !.loaded = TRUE, !.target = t, !.reload = re, !.busy = b]
  <2>1. CASE dtCall[c].for = "show"
    BY <2>1 DEF DtReturn
  <2>2. CASE dtCall[c].for # "show"
    BY <2>2 DEF DtReturn
  <2>3. QED
    BY <2>1, <2>2
<1>4. IdleDt = [pc |-> "idle", target |-> none, alone |-> TRUE, for |-> "show"]
  BY DEF IdleDt
<1> HIDE DEF t, none, re, b
<1>5. CallLike(IdleDt) /\ IdleDt.pc = "idle" /\ IdleDt.target = none
  BY <1>2, <1>4 DEF CallLike
<1>6. /\ dtCall' = [d \in Calls |-> dtCall'[d]] /\ \A d \in Calls : CallLike(dtCall'[d])
      /\ dtCall'[c].pc = "idle" /\ dtCall'[c].target = none
      /\ \A d \in Calls : d # c => dtCall'[d] = dtCall[d]
  BY <1>1, <1>5 DEF DtInv, DtTypeOK
<1>7. CallsAgree'
  <2>1. LoneCalls'
    BY <1>1, <1>6 DEF DtInv, CallsAgree, LoneCalls
  <2>2. CallsTellFile'
    BY <1>1, <1>6 DEF DtInv, CallsAgree, CallsTellFile, Calls
  <2>3. CachesAgree'
    BY <1>1, <1>6 DEF DtInv, CallsAgree, LoneCalls, CallsTellFile, CachesAgree, Calls
  <2>4. QED
    BY <2>1, <2>2, <2>3 DEF CallsAgree
<1>8. \A d \in Calls : WasReached(dtCall'[d].target)
  BY <1>2, <1>6 DEF DtInv, AddressesAreReached
<1>9. /\ TargetLike(applied') /\ WasReached(applied') /\ applied'.bridge.kind # "unverified"
      /\ applied'.bridge = KeepBase => applied'.context = Managed
  <2>1. CASE applied' = applied
    BY <2>1 DEF DtInv, DtTypeOK, AddressesAreReached
  <2>2. CASE Renders(t) /\ applied' = t
    <3>1. KeepBase.kind = "keep_base"
      BY DEF KeepBase
    <3>2. QED
      BY <1>2, <2>2, <3>1 DEF Renders
  <2>3. QED
    BY <1>3, <2>1, <2>2
<1>10. /\ card' = [loaded |-> card'.loaded, reload |-> card'.reload, target |-> card'.target,
                   busy |-> card'.busy, report |-> card'.report]
       /\ TargetLike(card'.target) /\ WasReached(card'.target)
       /\ (moved => moved') /\ moved' \in BOOLEAN
       /\ (detect.on /\ ~moved' => card'.target.context = detect.context)
  <2>1. CASE card' = card /\ moved' = moved
    BY <2>1 DEF DtInv, DtTypeOK, AddressesAreReached
  <2>2. CASE /\ moved' = (moved \/ (detect.on /\ detect.context # t.context))
             /\ card' = [card EXCEPT !.loaded = TRUE, !.target = t, !.reload = re, !.busy = b]
    <3>1. card' = [loaded |-> TRUE, reload |-> re, target |-> t, busy |-> b, report |-> card.report]
      BY <2>2 DEF DtInv, DtTypeOK
    <3>2. QED
      BY <1>2, <2>2, <3>1 DEF DtInv, DtTypeOK
  <2>3. QED
    BY <1>3, <2>1, <2>2
<1>11. QED
  BY <1>1, <1>6, <1>7, <1>8, <1>9, <1>10, CallInv DEF DtInv, DtTypeOK, AddressesAreReached

-----------------------------------------------------------------------------
\* A relay's step.
LEMMA RelayInv ==
  ASSUME DtInv,
         UNCHANGED <<dtFile, activeCtx, activeBrg, dtCall, card, detect, applied, reached, dtMixed, moved>>,
         relay' \in [Relay -> {"new", "binding", "listening", "ended"}],
         relayHost' = [r \in Relay |-> relayHost'[r]],
         relaySlot' \in Relay \cup {NoRelay}, relayCrossed' \in BOOLEAN,
         \A r \in Relay : relay'[r] \in {"binding", "listening"} => Bound(relayHost'[r]),
         RelaysAreOwned'
  PROVE  DtInv'
<1>1. DtTypeOK'
  BY DEF DtInv, DtTypeOK
<1>2. AddressesAreReached'
  <2>1. /\ WasReached(card.target)' /\ WasReached(dtFile.target)' /\ WasReached(applied)'
        /\ \A c \in Calls : WasReached(dtCall[c].target)'
    BY DEF DtInv, AddressesAreReached, WasReached
  <2>2. \A r \in Relay : relay'[r] \in {"binding", "listening"} => Bound(relayHost[r])'
    BY DEF Bound
  <2>3. QED
    BY <2>1, <2>2 DEF DtInv, AddressesAreReached
<1>3. QED
  BY <1>1, <1>2, CallsStay DEF DtInv

LEMMA RelayBeginInv ==
  ASSUME DtInv, NEW r \in Relay, NEW a, RelayBegin(r, a)
  PROVE  DtInv'
<1>1. /\ relay[r] = "new" /\ AllowedBindHost(a, activeBrg)
      /\ \A s \in Relay : s = relaySlot => relay[s] = "ended"
      /\ relay' = [relay EXCEPT ![r] = "binding"] /\ relayHost' = [relayHost EXCEPT ![r] = a]
      /\ relayCrossed' = (relayCrossed \/ \E s \in Relay : relay[s] = "binding")
      /\ UNCHANGED <<dtFile, activeCtx, activeBrg, dtCall, card, detect, applied, relaySlot,
                     reached, dtMixed, moved>>
  BY DEF RelayBegin, savedVars, cardVars
<1>2. Bound(a)
  <2>1. CASE activeBrg = Reachable(a)
    <3>1. activeBrg.kind = "verified" /\ activeBrg.host = a
      BY <2>1 DEF Reachable
    <3>2. QED
      BY <3>1 DEF DtInv, AddressesAreReached, Bound
  <2>2. QED
    BY <1>1, <2>1 DEF AllowedBindHost, Bound
<1>3. \A s \in Relay : relay'[s] \in {"binding", "listening"} => Bound(relayHost'[s])
  BY <1>1, <1>2 DEF DtInv, DtTypeOK, AddressesAreReached
<1>4. RelaysAreOwned'
  BY <1>1 DEF DtInv, DtTypeOK, RelaysAreOwned
<1>5. relayHost' = [s \in Relay |-> relayHost'[s]] /\ relayCrossed' \in BOOLEAN
  BY <1>1 DEF DtInv, DtTypeOK
<1>6. relay' \in [Relay -> {"new", "binding", "listening", "ended"}]
  BY <1>1 DEF DtInv, DtTypeOK
<1>7. QED
  BY <1>1, <1>3, <1>4, <1>5, <1>6, RelayInv DEF DtInv, DtTypeOK

LEMMA RelayBindsInv ==
  ASSUME DtInv, NEW r \in Relay, RelayBinds(r)
  PROVE  DtInv'
<1> DEFINE host == IF relay'[r] = "listening" THEN relayHost[r] ELSE "none"
<1>1. /\ relay[r] = "binding"
      /\ \/ relay' = [relay EXCEPT ![r] = "listening"] /\ relaySlot' = r
         \/ relay' = [relay EXCEPT ![r] = "ended"] /\ relaySlot' = relaySlot
      /\ relayHost' = [relayHost EXCEPT ![r] = host]
      /\ UNCHANGED <<dtFile, activeCtx, activeBrg, dtCall, card, detect, applied, relayCrossed,
                     reached, dtMixed, moved>>
  BY DEF RelayBinds, savedVars, cardVars
<1>2. \A s \in Relay : relay'[s] \in {"binding", "listening"} => Bound(relayHost'[s])
  BY <1>1 DEF DtInv, DtTypeOK, AddressesAreReached
<1>3. RelaysAreOwned'
  BY <1>1 DEF DtInv, DtTypeOK, RelaysAreOwned
<1> HIDE DEF host
<1>4. relayHost' = [s \in Relay |-> relayHost'[s]]
  BY <1>1 DEF DtInv, DtTypeOK
<1>5. relay' \in [Relay -> {"new", "binding", "listening", "ended"}]
  BY <1>1 DEF DtInv, DtTypeOK
<1>6. QED
  BY <1>1, <1>2, <1>3, <1>4, <1>5, RelayInv DEF DtInv, DtTypeOK

\* A relay that ends, by itself or because it is stopped.
LEMMA RelayEndsInv ==
  DtInv /\ (RelayStop \/ \E r \in Relay : RelayEnds(r)) => DtInv'
<1> SUFFICES ASSUME DtInv, RelayStop \/ \E r \in Relay : RelayEnds(r) PROVE DtInv'
  OBVIOUS
<1>1. PICK r \in Relay :
        /\ relay' = [relay EXCEPT ![r] = "ended"] /\ relayHost' = [relayHost EXCEPT ![r] = "none"]
        /\ relaySlot' = relaySlot \/ (relaySlot = r /\ relaySlot' = NoRelay)
        /\ UNCHANGED <<dtFile, activeCtx, activeBrg, dtCall, card, detect, applied, relayCrossed,
                       reached, dtMixed, moved>>
  <2>1. CASE RelayStop
    BY <2>1 DEF RelayStop, DtInv, DtTypeOK, savedVars, cardVars
  <2>2. CASE \E r \in Relay : RelayEnds(r)
    BY <2>2 DEF RelayEnds, savedVars, cardVars
  <2>3. QED
    BY <2>1, <2>2
<1>2. \A s \in Relay : relay'[s] \in {"binding", "listening"} => Bound(relayHost'[s])
  BY <1>1 DEF DtInv, DtTypeOK, AddressesAreReached
<1>3. RelaysAreOwned'
  BY <1>1 DEF DtInv, DtTypeOK, RelaysAreOwned
<1>4. relayHost' = [s \in Relay |-> relayHost'[s]]
  BY <1>1 DEF DtInv, DtTypeOK
<1>5. relay' \in [Relay -> {"new", "binding", "listening", "ended"}]
  BY <1>1 DEF DtInv, DtTypeOK
<1>6. QED
  BY <1>1, <1>2, <1>3, <1>4, <1>5, RelayInv DEF DtInv, DtTypeOK

\* After a restart only the file is left, and what was applied.
LEMMA DtRestartInv == DtInv /\ DtRestart => DtInv'
<1> SUFFICES ASSUME DtInv, DtRestart PROVE DtInv'
  OBVIOUS
<1> DEFINE t == ForContext(Managed)
<1>1. Managed \in Cluster /\ TargetLike(t) /\ t.context = Managed /\ WasReached(t)
      /\ t.bridge.kind # "verified"
  BY DeployTargetsAssumption, ForContextFacts
<1>2. /\ activeBrg' = [kind |-> "unverified", host |-> "not_set"]
      /\ detect' = [on |-> FALSE, context |-> Managed, left |-> <<>>]
      /\ dtMixed' = TRUE /\ relayCrossed' = FALSE
      /\ UNCHANGED <<dtFile, applied, reached, moved>>
  BY DEF DtRestart, Unverified, NoDetect
<1>3. /\ relay' = [r \in Relay |-> "new"] /\ relayHost' = [r \in Relay |-> "none"]
      /\ relaySlot' = NoRelay
  BY DEF DtRestart
<1>4. dtCall' = [c \in Calls |-> [pc |-> "idle", target |-> t, alone |-> TRUE, for |-> "show"]]
  BY DEF DtRestart, IdleDt
<1>5. card' = [loaded |-> FALSE, reload |-> TRUE, target |-> t, busy |-> "no", report |-> NoReport]
  BY DEF DtRestart, NewCard
<1> HIDE DEF t
<1>6. dtCall' = [c \in Calls |-> dtCall'[c]] /\ \A c \in Calls : CallLike(dtCall'[c])
  BY <1>1, <1>4 DEF CallLike
<1>7. DtTypeOK'
  <2>1. card' = [loaded |-> card'.loaded, reload |-> card'.reload, target |-> card'.target,
                 busy |-> card'.busy, report |-> card'.report] /\ TargetLike(card'.target)
    BY <1>1, <1>5
  <2>2. QED
    BY <1>2, <1>3, <1>6, <2>1 DEF DtInv, DtTypeOK
<1>8. CallsAgree'
  BY <1>2, <1>4, DeployTargetsAssumption DEF CallsAgree, LoneCalls, CallsTellFile, CachesAgree, Calls
<1>9. AddressesAreReached'
  <2>1. \A u : WasReached(u) => WasReached(u)'
    BY <1>2 DEF WasReached
  <2>2. WasReached(card.target)' /\ WasReached(dtFile.target)' /\ WasReached(applied)'
    BY <1>1, <1>2, <1>5 DEF DtInv, AddressesAreReached, WasReached
  <2>3. \A c \in Calls : WasReached(dtCall[c].target)'
    BY <1>1, <1>2, <1>4 DEF WasReached
  <2>4. /\ activeBrg'.kind # "verified" /\ ~detect'.on
        /\ \A r \in Relay : relay'[r] \notin {"binding", "listening"}
    BY <1>2, <1>3
  <2>5. /\ applied'.bridge.kind # "unverified"
        /\ applied'.bridge = KeepBase => applied'.context = Managed
    BY <1>2 DEF DtInv, AddressesAreReached
  <2>6. QED
    BY <2>2, <2>3, <2>4, <2>5 DEF AddressesAreReached
<1>10. RelaysAreOwned'
  BY <1>3 DEF RelaysAreOwned
<1>11. QED
  BY <1>7, <1>8, <1>9, <1>10 DEF DtInv

-----------------------------------------------------------------------------
LEMMA DtNextInv == DtInv /\ [DtNext]_dtVars => DtInv'
<1> SUFFICES ASSUME DtInv, [DtNext]_dtVars PROVE DtInv'
  OBVIOUS
<1>1. CASE UNCHANGED dtVars
  <2>1. UNCHANGED <<dtFile, activeCtx, activeBrg, dtCall, card, detect, applied, relayVars,
                    reached, dtMixed, moved>>
    BY <1>1 DEF dtVars, savedVars, cardVars
  <2>2. QED
    BY <2>1, CardInv DEF DtInv, DtTypeOK, AddressesAreReached, WasReached
<1>2. CASE \E c \in Cluster : SelectContext(c)
  BY <1>2, SelectContextInv
<1>3. CASE \E c \in DtGet, for \in {"show", "apply"} : Get(c, for)
  BY <1>3, GetInv
<1>4. CASE \E c \in Calls : SetContext(c) \/ SetBridge(c) \/ DtReturn(c)
  BY <1>4, SetContextInv, SetBridgeInv, DtReturnInv
<1>5. CASE \E r \in Relay : (\E a \in Addresses : RelayBegin(r, a)) \/ RelayBinds(r) \/ RelayEnds(r)
  BY <1>5, RelayBeginInv, RelayBindsInv, RelayEndsInv
<1>6. QED
  BY <1>1, <1>2, <1>3, <1>4, <1>5, ChooseFullStackInv, RunPreflightInv, DetectBridgeInv,
     DetectionAnswersInv, ProbeFailsInv, SaveDeployTargetInv, SaveWritesInv, RelayEndsInv,
     DtRestartInv
  DEF DtNext

\* The saved target, its caches, the addresses and the relays, in every state.
THEOREM DtInvariant == DtSpec => []DtInv
<1>1. DtInit => DtInv
  BY DtInitInv
<1>2. DtInv /\ [DtNext]_dtVars => DtInv'
  BY DtNextInv
<1>3. QED
  BY <1>1, <1>2, PTL DEF DtSpec

\* The caches of the deploy target follow the file: once nothing is in flight
\* they tell the saved target, unless a get and a save overlapped, and then until
\* a call has run alone.
THEOREM CachesAlwaysFollowFile == DtSpec => []CachesFollowFile
<1>1. DtInv => CachesFollowFile
  BY DEF DtInv, CallsAgree, CachesAgree, CachesFollowFile, Quiet, Calls
<1>2. QED
  BY <1>1, DtInvariant, PTL

\* No address that no cluster reached is rendered into manifests or relayed to.
THEOREM OnlyReachedAddressesEver == DtSpec => []OnlyReachedAddresses
<1>1. DtInv => OnlyReachedAddresses
  BY DEF DtInv, AddressesAreReached, WasReached, Bound, OnlyReachedAddresses
<1>2. QED
  BY <1>1, DtInvariant, PTL

\* The relay that listens is the one stop would end, unless two were started at once.
THEOREM RelayIsAlwaysOwned == DtSpec => []RelayIsOwned
<1>1. DtInv => RelayIsOwned
  BY DEF DtInv, RelaysAreOwned, RelayIsOwned
<1>2. QED
  BY <1>1, DtInvariant, PTL

-----------------------------------------------------------------------------
\* The forwards of the dashboard and of the kagent panel, for any calls, contexts and jobs.

PfCallState ==
  [pc : {"idle", "reap", "spawn", "verify", "stop", "stopped", "probe", "open", "opening", "opened"},
   context : Context \cup {NoContext}, held : SUBSET Forward, next : Nat,
   answered : SUBSET Job]

ForwardState ==
  [alive : BOOLEAN, context : Context \cup {NoContext}, port : Nat, ours : BOOLEAN]

PfTypeOK ==
  /\ target \in Context
  /\ jobs \in [Job -> Forward \cup {0}] /\ kagentUi \in [Context -> Forward \cup {0}]
  /\ forward \in [Forward -> ForwardState]
  /\ assigned \in [Job -> Nat] /\ pfCall \in [PfCall -> PfCallState]
  /\ overlapped \in BOOLEAN /\ givenUp \subseteq Forward
  /\ \A c \in PfCall :
       /\ pfCall[c].pc \in {"probe", "open", "opening"} => pfCall[c].context \in Context
       /\ pfCall[c].pc \in {"reap", "spawn"} => pfCall[c].next \in DOMAIN Jobs
       /\ pfCall[c].pc \notin {"reap", "stop"} => pfCall[c].held = {}

\* A call that only hands out the address of a forward disturbs none.
InCall(c) == pfCall[c].pc \notin {"idle", "opened"}

\* Unless two commands overlapped, at most one is at work.
CallsStandAlone ==
  ~overlapped => \A c, d \in PfCall : InCall(c) /\ InCall(d) => c = d

\* A forward that runs is in a table, in the hands of a call, or given up.
NothingIsLost ==
  ~overlapped => \A f \in Forward : forward[f].alive =>
    \/ f \in givenUp
    \/ \E k \in Job : jobs[k] = f
    \/ \E x \in Context : kagentUi[x] = f
    \/ \E c \in PfCall : f \in pfCall[c].held

\* Where a call is about to put a forward, the table is empty.
TablesAreEmptied ==
  ~overlapped => \A c \in PfCall :
    /\ pfCall[c].pc \in {"reap", "spawn"} =>
         \A i \in DOMAIN Jobs : i >= pfCall[c].next => jobs[Jobs[i]] = 0
    /\ pfCall[c].pc = "open" => kagentUi[pfCall[c].context] = 0
    /\ pfCall[c].pc = "stop" =>
         (\A k \in Job : jobs[k] = 0) /\ \A x \in Context : kagentUi[x] = 0

\* The port of a job's forward is the one assigned to the job.
LinksLead ==
  ~overlapped => \A k \in Job : jobs[k] # 0 /\ forward[jobs[k]].alive =>
    assigned[k] = forward[jobs[k]].port /\ assigned[k] # 0

\* What outlives a stop had left the tables, and of the active target pgrep did not list it.
StopReachesAll ==
  ~overlapped => \A c \in PfCall : pfCall[c].pc = "stopped" =>
    \A f \in Forward : forward[f].alive =>
      /\ f \in givenUp
      /\ forward[f].context = pfCall[c].context
         => forward[f].port \notin PortsOf(pfCall[c].answered)

PfInv ==
  PfTypeOK /\ CallsStandAlone /\ NothingIsLost /\ TablesAreEmptied /\ LinksLead /\ StopReachesAll

-----------------------------------------------------------------------------
\* An id is taken only while its process is gone and nothing refers to it.
LEMMA NewIdFacts ==
  ASSUME FreeIds # {}
  PROVE  LET f == NewId(FreeIds) IN
         /\ f \in Forward /\ ~forward[f].alive /\ f # 0
         /\ \A k \in Job : jobs[k] # f
         /\ \A x \in Context : kagentUi[x] # f
         /\ \A c \in PfCall : f \notin pfCall[c].held
<1> DEFINE f == NewId(FreeIds)
<1>1. f \in FreeIds
  BY DEF NewId
<1>2. f \in Forward /\ ~Alive(f) /\ f \notin tracked
  BY <1>1 DEF FreeIds
<1>3. f # 0
  BY <1>2, PortForwardsAssumption DEF Forward
<1>4. QED
  BY <1>2, <1>3 DEF tracked, Alive

LEMMA KilledFacts ==
  ASSUME PfTypeOK, NEW fs
  PROVE  /\ Killed(fs) \in [Forward -> ForwardState]
         /\ \A f \in Forward : f \in fs => ~Killed(fs)[f].alive
         /\ \A f \in Forward : f \notin fs => Killed(fs)[f] = forward[f]
<1>1. /\ NoForward \in ForwardState
      /\ ~NoForward.alive
  BY DEF NoForward, ForwardState
<1>2. QED
  BY <1>1 DEF Killed, PfTypeOK

LEMMA SpawnedFacts ==
  ASSUME PfTypeOK, NEW f \in Forward, NEW x \in Context \cup {NoContext}, NEW p \in Nat
  PROVE  /\ Spawned(f, x, p) \in
              [Forward -> ForwardState]
         /\ Spawned(f, x, p)[f] = [alive |-> TRUE, context |-> x, port |-> p, ours |-> TRUE]
         /\ \A g \in Forward : g # f => Spawned(f, x, p)[g] = forward[g]
BY DEF Spawned, PfTypeOK, ForwardState

\* While a call works alone the others hold nothing, and what runs is in a table,
\* in its hands or given up.
LEMMA AloneFacts ==
  ASSUME PfInv, NEW c \in PfCall, ~overlapped, InCall(c) \/ \A d \in PfCall : pfCall[d].pc = "idle"
  PROVE  /\ \A d \in PfCall : d # c => pfCall[d].pc \in {"idle", "opened"} /\ pfCall[d].held = {}
         /\ \A f \in Forward : forward[f].alive =>
              \/ f \in givenUp \/ f \in pfCall[c].held
              \/ \E k \in Job : jobs[k] = f
              \/ \E x \in Context : kagentUi[x] = f
<1>1. \A d \in PfCall : d # c => pfCall[d].pc \in {"idle", "opened"}
  BY DEF PfInv, CallsStandAlone, InCall
<1>2. \A d \in PfCall : d # c => pfCall[d].held = {}
  BY <1>1 DEF PfInv, PfTypeOK
<1>3. QED
  BY <1>1, <1>2 DEF PfInv, NothingIsLost

\* What a call's step must leave: r is what becomes of the call.
Leaves(r) ==
  /\ \A f \in Forward : forward'[f].alive =>
       \/ f \in givenUp' \/ f \in r.held
       \/ \E k \in Job : jobs'[k] = f
       \/ \E x \in Context : kagentUi'[x] = f
  /\ r.pc \in {"reap", "spawn"} => \A i \in DOMAIN Jobs : i >= r.next => jobs'[Jobs[i]] = 0
  /\ r.pc = "open" => kagentUi'[r.context] = 0
  /\ r.pc = "stop" => (\A k \in Job : jobs'[k] = 0) /\ \A x \in Context : kagentUi'[x] = 0
  /\ \A k \in Job : jobs'[k] # 0 /\ forward'[jobs'[k]].alive =>
       assigned'[k] = forward'[jobs'[k]].port /\ assigned'[k] # 0
  /\ r.pc = "stopped" => \A f \in Forward : forward'[f].alive =>
       /\ f \in givenUp'
       /\ forward'[f].context = r.context => forward'[f].port \notin PortsOf(r.answered)

CallIs(r) ==
  /\ r \in PfCallState
  /\ r.pc \in {"probe", "open", "opening"} => r.context \in Context
  /\ r.pc \in {"reap", "spawn"} => r.next \in DOMAIN Jobs
  /\ r.pc \notin {"reap", "stop"} => r.held = {}

TablesOK ==
  /\ jobs \in [Job -> Forward \cup {0}] /\ kagentUi \in [Context -> Forward \cup {0}]
  /\ forward \in [Forward -> ForwardState]
  /\ assigned \in [Job -> Nat] /\ givenUp \subseteq Forward

\* One call takes a step, a busy one or one that begins.
LEMMA CallStep ==
  ASSUME PfInv, NEW c \in PfCall, NEW r, CallIs(r), pfCall' = [pfCall EXCEPT ![c] = r],
         target' = target, TablesOK', overlapped' \in BOOLEAN,
         \/ InCall(c) /\ overlapped' = overlapped
         \/ overlapped' = (overlapped \/ \E d \in PfCall : pfCall[d].pc # "idle"),
         ~overlapped' => Leaves(r)
  PROVE  PfInv'
<1>1. pfCall'[c] = r /\ \A d \in PfCall : d # c => pfCall'[d] = pfCall[d]
  BY DEF PfInv, PfTypeOK
<1>2. PfTypeOK'
  <2>1. pfCall' \in [PfCall -> PfCallState]
    BY DEF PfInv, PfTypeOK, CallIs
  <2>2. \A d \in PfCall : CallIs(pfCall'[d])
    BY <1>1 DEF PfInv, PfTypeOK, CallIs
  <2>3. QED
    BY <2>1, <2>2 DEF PfInv, PfTypeOK, CallIs, TablesOK
<1>3. CASE overlapped'
  BY <1>2, <1>3
  DEF PfInv, CallsStandAlone, NothingIsLost, TablesAreEmptied, LinksLead, StopReachesAll
<1>4. CASE ~overlapped'
  <2>1. ~overlapped /\ (InCall(c) \/ \A d \in PfCall : pfCall[d].pc = "idle")
    BY <1>4
  <2>2. \A d \in PfCall : d # c => pfCall'[d].pc \in {"idle", "opened"} /\ pfCall'[d].held = {}
    BY <1>1, <2>1, AloneFacts
  <2>3. Leaves(r)
    BY <1>4
  <2>4. CallsStandAlone'
    BY <2>2 DEF CallsStandAlone, InCall
  <2>5. NothingIsLost'
    BY <1>1, <2>3 DEF NothingIsLost, Leaves
  <2>6. TablesAreEmptied'
    BY <1>1, <2>2, <2>3 DEF TablesAreEmptied, Leaves
  <2>7. LinksLead'
    BY <2>3 DEF LinksLead, Leaves
  <2>8. StopReachesAll'
    BY <1>1, <2>2, <2>3 DEF StopReachesAll, Leaves
  <2>9. QED
    BY <1>2, <2>4, <2>5, <2>6, <2>7, <2>8 DEF PfInv
<1>5. QED
  BY <1>2, <1>3, <1>4 DEF PfTypeOK

\* What a working call can count on, in the words of Leaves.
LEMMA CallHas ==
  ASSUME PfInv, NEW c \in PfCall
  PROVE  /\ CallIs(pfCall[c]) /\ TablesOK
         /\ ~overlapped =>
              /\ pfCall[c].pc \in {"reap", "spawn"} =>
                   \A i \in DOMAIN Jobs : i >= pfCall[c].next => jobs[Jobs[i]] = 0
              /\ pfCall[c].pc = "open" => kagentUi[pfCall[c].context] = 0
              /\ pfCall[c].pc = "stop" =>
                   (\A k \in Job : jobs[k] = 0) /\ \A x \in Context : kagentUi[x] = 0
              /\ \A k \in Job : jobs[k] # 0 /\ forward[jobs[k]].alive =>
                   assigned[k] = forward[jobs[k]].port /\ assigned[k] # 0
BY DEF PfInv, PfTypeOK, CallIs, TablesOK, TablesAreEmptied, LinksLead

-----------------------------------------------------------------------------
LEMMA PfInitInv == PfInit => PfInv
<1> SUFFICES ASSUME PfInit PROVE PfInv
  OBVIOUS
<1>1. /\ target \in Context /\ jobs = [k \in Job |-> 0] /\ kagentUi = [x \in Context |-> 0]
      /\ assigned = [k \in Job |-> 0] /\ overlapped = FALSE
      /\ givenUp = {1} \cap {f \in Forward : forward[f].alive}
      /\ pfCall = [c \in PfCall |-> [pc |-> "idle", context |-> NoContext, held |-> {}, next |-> 1,
                                      answered |-> {}]]
  BY DEF PfInit, IdleCall
<1>2. /\ forward \in [Forward -> ForwardState]
      /\ \A f \in Forward : forward[f].alive => f = 1
  <2>1. PICK x \in Context, p \in PortRange["kagent-ui"] :
          forward \in {[f \in Forward |-> NoForward],
                       [f \in Forward |-> IF f = 1 THEN [NoForward EXCEPT !.alive = TRUE,
                                                          !.context = x, !.port = p]
                                          ELSE NoForward]}
    BY Zenon DEF PfInit
  <2>2. p \in Nat
    BY PortForwardsAssumption
  <2>3. /\ NoForward \in ForwardState
        /\ ~NoForward.alive
    BY DEF NoForward, ForwardState
  <2>4. CASE forward = [f \in Forward |-> NoForward]
    BY <2>3, <2>4
  <2>5. CASE forward = [f \in Forward |-> IF f = 1 THEN [NoForward EXCEPT !.alive = TRUE,
                                                          !.context = x, !.port = p]
                                          ELSE NoForward]
    <3>1. [NoForward EXCEPT !.alive = TRUE, !.context = x, !.port = p] \in ForwardState
      BY <2>2 DEF NoForward, ForwardState
    <3>2. QED
      BY <2>3, <2>5, <3>1
  <2>6. QED
    BY <2>1, <2>4, <2>5
<1>3. PfTypeOK
  <2>1. [pc |-> "idle", context |-> NoContext, held |-> {}, next |-> 1, answered |-> {}] \in PfCallState
    BY DEF PfCallState
  <2>2. QED
    BY <1>1, <1>2, <2>1 DEF PfTypeOK
<1>4. CallsStandAlone /\ TablesAreEmptied /\ LinksLead /\ StopReachesAll
  BY <1>1 DEF CallsStandAlone, TablesAreEmptied, LinksLead, StopReachesAll, InCall
<1>5. NothingIsLost
  BY <1>1, <1>2 DEF NothingIsLost
<1>6. QED
  BY <1>3, <1>4, <1>5 DEF PfInv

LEMMA PfSaveTargetInv == PfInv /\ PfSaveTarget => PfInv'
BY DEF PfSaveTarget, PfInv, PfTypeOK, CallsStandAlone, NothingIsLost, TablesAreEmptied,
       LinksLead, StopReachesAll, InCall

\* A forward that dies takes nothing with it.
LEMMA ForwardDiesInv ==
  ASSUME PfInv, NEW f \in Forward, ForwardDies(f)
  PROVE  PfInv'
<1>1. /\ forward' = Killed({f})
      /\ UNCHANGED <<target, jobs, kagentUi, assigned, pfCall, overlapped, givenUp>>
  BY DEF ForwardDies
<1>2. /\ forward' \in [Forward -> ForwardState]
      /\ \A g \in Forward : forward'[g].alive => forward'[g] = forward[g]
  BY <1>1, KilledFacts DEF PfInv
<1>3. PfTypeOK'
  BY <1>1, <1>2 DEF PfInv, PfTypeOK
<1>4. CallsStandAlone' /\ TablesAreEmptied'
  BY <1>1 DEF PfInv, CallsStandAlone, TablesAreEmptied, InCall
<1>5. NothingIsLost'
  BY <1>1, <1>2 DEF PfInv, NothingIsLost
<1>6. LinksLead'
  BY <1>1, <1>2 DEF PfInv, PfTypeOK, LinksLead
<1>7. StopReachesAll'
  BY <1>1, <1>2 DEF PfInv, StopReachesAll
<1>8. QED
  BY <1>3, <1>4, <1>5, <1>6, <1>7 DEF PfInv

-----------------------------------------------------------------------------
LEMMA IdleIsCall ==
  /\ CallIs(IdleCall) /\ IdleCall.pc = "idle" /\ IdleCall.held = {} /\ IdleCall.next = 1
  /\ IdleCall.answered = {}
  /\ IdleCall = [pc |-> IdleCall.pc, context |-> IdleCall.context, held |-> IdleCall.held,
                 next |-> IdleCall.next, answered |-> IdleCall.answered]
BY DEF IdleCall, CallIs, PfCallState

LEMMA CallFields ==
  ASSUME PfInv, NEW c \in PfCall
  PROVE  /\ pfCall[c] = [pc |-> pfCall[c].pc, context |-> pfCall[c].context,
                         held |-> pfCall[c].held, next |-> pfCall[c].next,
                         answered |-> pfCall[c].answered]
         /\ pfCall[c].answered \in SUBSET Job
BY DEF PfInv, PfTypeOK, PfCallState

LEMMA BeginFacts ==
  ASSUME PfInv, NEW c \in PfCall, NEW pc, NEW x, NEW held, PfBegin(c, pc, x, held)
  PROVE  /\ pfCall[c].pc = "idle"
         /\ pfCall' = [pfCall EXCEPT ![c] = [pc |-> pc, context |-> x, held |-> held, next |-> 1, answered |-> {}]]
         /\ overlapped' = (overlapped \/ \E d \in PfCall : pfCall[d].pc # "idle")
         /\ overlapped' \in BOOLEAN
<1>1. PICK r : r = [IdleCall EXCEPT !.pc = pc, !.context = x, !.held = held]
  OBVIOUS
<1>2. r = [pc |-> pc, context |-> x, held |-> held, next |-> 1, answered |-> {}]
  BY <1>1, IdleIsCall
<1>3. QED
  BY <1>1, <1>2 DEF PfBegin, PfInv, PfTypeOK

\* A call returns: it held nothing, and what it did is done.
LEMMA ReturnStep ==
  ASSUME PfInv, NEW c \in PfCall, InCall(c), PfReturn(c), target' = target, TablesOK',
         overlapped' = overlapped,
         ~overlapped => /\ \A f \in Forward : forward'[f].alive =>
                             \/ f \in givenUp'
                             \/ \E k \in Job : jobs'[k] = f
                             \/ \E x \in Context : kagentUi'[x] = f
                        /\ \A k \in Job : jobs'[k] # 0 /\ forward'[jobs'[k]].alive =>
                             assigned'[k] = forward'[jobs'[k]].port /\ assigned'[k] # 0
  PROVE  PfInv'
<1>1. ~overlapped' => Leaves(IdleCall)
  BY IdleIsCall DEF Leaves
<1>2. pfCall' = [pfCall EXCEPT ![c] = IdleCall] /\ overlapped' \in BOOLEAN
  BY DEF PfReturn, PfInv, PfTypeOK
<1>3. QED
  BY <1>1, <1>2, IdleIsCall, CallStep

LEMMA StartDrainsInv ==
  ASSUME PfInv, NEW c \in PfCall, StartDrains(c)
  PROVE  PfInv'
<1> DEFINE held == {jobs[k] : k \in Job} \ {0}
           r == [pc |-> "reap", context |-> NoContext, held |-> held, next |-> 1, answered |-> {}]
<1>1. /\ PfBegin(c, "reap", NoContext, held) /\ jobs' = [k \in Job |-> 0]
      /\ UNCHANGED <<target, kagentUi, forward, assigned, givenUp>>
  BY DEF StartDrains
<1>2. held \in SUBSET Forward /\ \A k \in Job, f \in Forward : jobs[k] = f => f \in held
  BY PortForwardsAssumption DEF PfInv, PfTypeOK, Forward
<1> HIDE DEF held
<1>3. 1 \in DOMAIN Jobs
  BY PortForwardsAssumption DEF Job
<1>4. CallIs(r)
  BY <1>2, <1>3 DEF CallIs, PfCallState
<1>5. TablesOK'
  BY <1>1 DEF TablesOK, PfInv, PfTypeOK
<1>6. /\ pfCall[c].pc = "idle" /\ pfCall' = [pfCall EXCEPT ![c] = r]
      /\ overlapped' = (overlapped \/ \E d \in PfCall : pfCall[d].pc # "idle")
      /\ overlapped' \in BOOLEAN
  BY <1>1, BeginFacts
<1>7. ASSUME ~overlapped' PROVE Leaves(r)
  <2>1. \A f \in Forward : forward[f].alive =>
              \/ f \in givenUp \/ f \in pfCall[c].held
              \/ \E k \in Job : jobs[k] = f
              \/ \E x \in Context : kagentUi[x] = f
    BY <1>6, <1>7, AloneFacts
  <2>2. pfCall[c].held = {}
    BY <1>6 DEF PfInv, PfTypeOK
  <2>3. \A i \in DOMAIN Jobs : Jobs[i] \in Job
    BY DEF Job
  <2>4. QED
    BY <1>1, <1>2, <2>1, <2>2, <2>3 DEF Leaves
<1>8. QED
  BY <1>1, <1>4, <1>5, <1>6, <1>7, CallStep

LEMMA StartReapsInv ==
  ASSUME PfInv, NEW c \in PfCall, StartReaps(c)
  PROVE  PfInv'
<1>0. PICK answered \in SUBSET Job : forward' = Killed(pfCall[c].held \cup Matching(target, answered))
  BY DEF StartReaps
<1> DEFINE fs == pfCall[c].held \cup Matching(target, answered)
           r == [pc |-> "spawn", context |-> target, held |-> {}, next |-> pfCall[c].next,
                 answered |-> pfCall[c].answered]
<1>1. /\ pfCall[c].pc = "reap" /\ forward' = Killed(fs)
      /\ pfCall' = [pfCall EXCEPT ![c].pc = "spawn", ![c].held = {}, ![c].context = target]
      /\ UNCHANGED <<target, jobs, kagentUi, assigned, overlapped, givenUp>>
  BY <1>0 DEF StartReaps
<1>2. \A f \in pfCall[c].held : f \in fs
  OBVIOUS
<1> HIDE DEF fs
<1>3. pfCall' = [pfCall EXCEPT ![c] = r]
  <2>1. PICK y : y = [pfCall[c] EXCEPT !.pc = "spawn", !.held = {}, !.context = target]
    OBVIOUS
  <2>2. y = r
    <3>1. PICK k : k = pfCall[c]
      OBVIOUS
    <3>2. k = [pc |-> k.pc, context |-> k.context, held |-> k.held, next |-> k.next, answered |-> k.answered]
      BY <3>1, CallFields
    <3>3. y = [k EXCEPT !.pc = "spawn", !.held = {}, !.context = target]
      BY <2>1, <3>1
    <3>4. y = [pc |-> "spawn", context |-> target, held |-> {}, next |-> k.next, answered |-> k.answered]
      BY <3>2, <3>3
    <3>5. QED
      BY <3>1, <3>4
  <2>3. pfCall' = [pfCall EXCEPT ![c] = y]
    BY <1>1, <2>1 DEF PfInv, PfTypeOK
  <2>4. QED
    BY <2>2, <2>3
<1>4. CallIs(r)
  BY <1>1 DEF CallIs, PfInv, PfTypeOK, PfCallState
<1>5. /\ forward' \in [Forward -> ForwardState]
      /\ \A f \in Forward : forward'[f].alive => forward'[f] = forward[f] /\ f \notin fs
  BY <1>1, KilledFacts DEF PfInv
<1>6. TablesOK' /\ overlapped' \in BOOLEAN
  BY <1>1, <1>5 DEF TablesOK, PfInv, PfTypeOK
<1>7. ASSUME ~overlapped' PROVE Leaves(r)
  <2>1. \A f \in Forward : forward[f].alive =>
              \/ f \in givenUp \/ f \in pfCall[c].held
              \/ \E k \in Job : jobs[k] = f
              \/ \E x \in Context : kagentUi[x] = f
    BY <1>1, <1>7, AloneFacts DEF InCall
  <2>2. /\ \A i \in DOMAIN Jobs : i >= r.next => jobs[Jobs[i]] = 0
        /\ \A k \in Job : jobs[k] # 0 /\ forward[jobs[k]].alive =>
             assigned[k] = forward[jobs[k]].port /\ assigned[k] # 0
    BY <1>1, <1>7, CallHas
  <2>3. \A k \in Job : jobs[k] # 0 => jobs[k] \in Forward
    BY DEF PfInv, PfTypeOK
  <2>4. QED
    BY <1>1, <1>2, <1>5, <2>1, <2>2, <2>3 DEF Leaves
<1>8. InCall(c)
  BY <1>1 DEF InCall
<1>9. QED
  BY <1>1, <1>3, <1>4, <1>6, <1>7, <1>8, CallStep

LEMMA StartVerifiesInv ==
  ASSUME PfInv, NEW c \in PfCall, StartVerifies(c)
  PROVE  PfInv'
<1>1. PICK failed \in SUBSET Job :
        /\ jobs' = [k \in Job |-> IF k \in failed THEN 0 ELSE jobs[k]]
        /\ forward' = Killed({jobs[k] : k \in failed})
  BY DEF StartVerifies
<1>2. /\ pfCall[c].pc = "verify" /\ PfReturn(c)
      /\ UNCHANGED <<target, kagentUi, assigned, overlapped, givenUp>>
  BY DEF StartVerifies
<1> DEFINE fs == {jobs[k] : k \in failed}
<1>3. \A k \in Job : jobs[k] \in fs \/ jobs'[k] = jobs[k]
  BY <1>1
<1>4. \A k \in Job : jobs'[k] # 0 => jobs'[k] = jobs[k] /\ jobs[k] \in Forward
  BY <1>1 DEF PfInv, PfTypeOK
<1>5. jobs' \in [Job -> Forward \cup {0}] /\ forward' = Killed(fs)
  BY <1>1 DEF PfInv, PfTypeOK
<1> HIDE DEF fs
<1>6. /\ forward' \in [Forward -> ForwardState]
      /\ \A f \in Forward : forward'[f].alive => forward'[f] = forward[f] /\ f \notin fs
  BY <1>5, KilledFacts DEF PfInv
<1>7. TablesOK' /\ InCall(c) /\ pfCall[c].held = {}
  BY <1>2, <1>5, <1>6 DEF TablesOK, PfInv, PfTypeOK, InCall
<1>8. ASSUME ~overlapped
      PROVE  /\ \A f \in Forward : forward'[f].alive =>
                  \/ f \in givenUp'
                  \/ \E k \in Job : jobs'[k] = f
                  \/ \E x \in Context : kagentUi'[x] = f
             /\ \A k \in Job : jobs'[k] # 0 /\ forward'[jobs'[k]].alive =>
                  assigned'[k] = forward'[jobs'[k]].port /\ assigned'[k] # 0
  BY <1>2, <1>3, <1>4, <1>6, <1>7, <1>8, AloneFacts, CallHas
<1>9. QED
  BY <1>2, <1>7, <1>8, ReturnStep

LEMMA StopDrainsInv ==
  ASSUME PfInv, NEW c \in PfCall, StopDrains(c)
  PROVE  PfInv'
<1> DEFINE held == ({jobs[k] : k \in Job} \cup {kagentUi[x] : x \in Context}) \ {0}
           r == [pc |-> "stop", context |-> NoContext, held |-> held, next |-> 1, answered |-> {}]
<1>1. /\ PfBegin(c, "stop", NoContext, held)
      /\ jobs' = [k \in Job |-> 0] /\ kagentUi' = [x \in Context |-> 0]
      /\ UNCHANGED <<target, forward, assigned, givenUp>>
  BY DEF StopDrains
<1>2. /\ held \in SUBSET Forward /\ \A k \in Job, f \in Forward : jobs[k] = f => f \in held
      /\ \A x \in Context, f \in Forward : kagentUi[x] = f => f \in held
  BY PortForwardsAssumption DEF PfInv, PfTypeOK, Forward
<1> HIDE DEF held
<1>4. CallIs(r)
  BY <1>2 DEF CallIs, PfCallState
<1>5. TablesOK'
  BY <1>1 DEF TablesOK, PfInv, PfTypeOK
<1>6. /\ pfCall[c].pc = "idle" /\ pfCall' = [pfCall EXCEPT ![c] = r]
      /\ overlapped' = (overlapped \/ \E d \in PfCall : pfCall[d].pc # "idle")
      /\ overlapped' \in BOOLEAN
  BY <1>1, BeginFacts
<1>7. ASSUME ~overlapped' PROVE Leaves(r)
  <2>1. \A f \in Forward : forward[f].alive =>
              \/ f \in givenUp \/ f \in pfCall[c].held
              \/ \E k \in Job : jobs[k] = f
              \/ \E x \in Context : kagentUi[x] = f
    BY <1>6, <1>7, AloneFacts
  <2>2. pfCall[c].held = {}
    BY <1>6 DEF PfInv, PfTypeOK
  <2>3. QED
    BY <1>1, <1>2, <2>1, <2>2 DEF Leaves
<1>8. QED
  BY <1>1, <1>4, <1>5, <1>6, <1>7, CallStep

LEMMA StopKillsInv ==
  ASSUME PfInv, NEW c \in PfCall, StopKills(c)
  PROVE  PfInv'
<1>0. PICK answered \in SUBSET Job :
        /\ forward' = Killed(pfCall[c].held \cup Matching(target, answered))
        /\ pfCall' = [pfCall EXCEPT ![c] = [IdleCall EXCEPT !.pc = "stopped", !.context = target,
                                                          !.answered = answered]]
  BY DEF StopKills
<1> DEFINE fs == pfCall[c].held \cup Matching(target, answered)
           r == [pc |-> "stopped", context |-> target, held |-> {}, next |-> 1,
                 answered |-> answered]
<1>1. /\ pfCall[c].pc = "stop" /\ forward' = Killed(fs)
      /\ UNCHANGED <<target, jobs, kagentUi, assigned, overlapped, givenUp>>
  BY <1>0 DEF StopKills
<1>2. /\ \A f \in pfCall[c].held : f \in fs
      /\ \A f \in Forward :
           forward[f].alive /\ forward[f].context = target /\ forward[f].port \in PortsOf(answered)
           => f \in fs
  BY DEF Matching, Alive
<1>3. pfCall' = [pfCall EXCEPT ![c] = r]
  <2>1. PICK y : y = [IdleCall EXCEPT !.pc = "stopped", !.context = target, !.answered = answered]
    OBVIOUS
  <2>2. y = r
    BY <2>1, IdleIsCall
  <2>3. pfCall' = [pfCall EXCEPT ![c] = y]
    BY <1>0, <2>1
  <2>4. QED
    BY <2>2, <2>3
<1> HIDE DEF fs
<1>4. CallIs(r)
  BY DEF CallIs, PfInv, PfTypeOK, PfCallState
<1>5. /\ forward' \in [Forward -> ForwardState]
      /\ \A f \in Forward : forward'[f].alive => forward'[f] = forward[f] /\ f \notin fs
  BY <1>1, KilledFacts DEF PfInv
<1>6. TablesOK' /\ overlapped' \in BOOLEAN
  BY <1>1, <1>5 DEF TablesOK, PfInv, PfTypeOK
<1>7. ASSUME ~overlapped' PROVE Leaves(r)
  <2>1. \A f \in Forward : forward[f].alive =>
              \/ f \in givenUp \/ f \in pfCall[c].held
              \/ \E k \in Job : jobs[k] = f
              \/ \E x \in Context : kagentUi[x] = f
    BY <1>1, <1>7, AloneFacts DEF InCall
  <2>2. (\A k \in Job : jobs[k] = 0) /\ \A x \in Context : kagentUi[x] = 0
    BY <1>1, <1>7, CallHas
  <2>3. \A f \in Forward : f # 0
    BY PortForwardsAssumption DEF Forward
  <2>4. QED
    BY <1>1, <1>2, <1>5, <2>1, <2>2, <2>3 DEF Leaves
<1>8. InCall(c)
  BY <1>1 DEF InCall
<1>9. QED
  BY <1>1, <1>3, <1>4, <1>6, <1>7, <1>8, CallStep

-----------------------------------------------------------------------------
\* A call goes on, with what it noted.
LEMMA NoteFacts ==
  ASSUME PfInv, NEW c \in PfCall, NEW pc, NEW n,
         \/ pfCall' = [pfCall EXCEPT ![c].pc = pc, ![c].next = n]
         \/ pfCall' = [pfCall EXCEPT ![c].pc = pc] /\ n = pfCall[c].next
  PROVE  pfCall' = [pfCall EXCEPT ![c] =
                      [pc |-> pc, context |-> pfCall[c].context, held |-> pfCall[c].held, next |-> n,
                       answered |-> pfCall[c].answered]]
<1>1. PICK k : k = pfCall[c]
  OBVIOUS
<1>2. k = [pc |-> k.pc, context |-> k.context, held |-> k.held, next |-> k.next, answered |-> k.answered]
  BY <1>1, CallFields
<1>3. PICK y : y = [k EXCEPT !.pc = pc, !.next = n]
  OBVIOUS
<1>4. PICK z : z = [k EXCEPT !.pc = pc]
  OBVIOUS
<1>5. y = [pc |-> pc, context |-> k.context, held |-> k.held, next |-> n, answered |-> k.answered]
  BY <1>2, <1>3
<1>6. z = [pc |-> pc, context |-> k.context, held |-> k.held, next |-> k.next, answered |-> k.answered]
  BY <1>2, <1>4
<1>7. CASE pfCall' = [pfCall EXCEPT ![c].pc = pc, ![c].next = n]
  <2>1. pfCall' = [pfCall EXCEPT ![c] = y]
    BY <1>1, <1>3, <1>7 DEF PfInv, PfTypeOK
  <2>2. QED
    BY <1>1, <1>5, <2>1
<1>8. CASE pfCall' = [pfCall EXCEPT ![c].pc = pc] /\ n = pfCall[c].next
  <2>1. pfCall' = [pfCall EXCEPT ![c] = z]
    BY <1>1, <1>4, <1>8 DEF PfInv, PfTypeOK
  <2>2. QED
    BY <1>1, <1>6, <1>8, <2>1
<1>9. QED
  BY <1>7, <1>8

\* The next job's forward is spawned: its place in the table is empty.
LEMMA StartSpawnsInv ==
  ASSUME PfInv, NEW c \in PfCall, StartSpawns(c)
  PROVE  PfInv'
<1> DEFINE k == Jobs[pfCall[c].next]
           f == NewId(FreeIds)
           pc == IF pfCall[c].next = Len(Jobs) THEN "verify" ELSE pfCall[c].pc
           n == IF pfCall[c].next = Len(Jobs) THEN pfCall[c].next ELSE pfCall[c].next + 1
           x == pfCall[c].context
           r == [pc |-> pc, context |-> x, held |-> pfCall[c].held, next |-> n,
                       answered |-> pfCall[c].answered]
<1>1. pfCall[c].pc = "spawn" /\ UNCHANGED <<target, kagentUi, overlapped>>
  BY DEF StartSpawns
<1>2. PICK p \in FreePorts(PortRange[k]) :
        /\ assigned' = IF p = 0 THEN assigned ELSE [assigned EXCEPT ![k] = p]
        /\ \/ /\ p # 0 /\ FreeIds # {}
              /\ forward' = Spawned(f, x, p)
              /\ jobs' = [jobs EXCEPT ![k] = f] /\ givenUp' = givenUp \ {f}
              /\ pfCall' = [pfCall EXCEPT ![c].pc = pc, ![c].next = n]
           \/ PfReturn(c) /\ UNCHANGED <<forward, jobs, givenUp>>
  BY DEF StartSpawns
<1>3. /\ pfCall[c].next \in DOMAIN Jobs /\ k \in Job /\ pfCall[c].held = {}
      /\ DOMAIN Jobs = 1..Len(Jobs) /\ Len(Jobs) \in Nat
      /\ x \in Context \cup {NoContext}
  <2>1. pfCall[c].next \in DOMAIN Jobs /\ pfCall[c].held = {} /\ x \in Context \cup {NoContext}
    BY <1>1 DEF PfInv, PfTypeOK, PfCallState
  <2>2. DOMAIN Jobs = 1..Len(Jobs) /\ Len(Jobs) \in Nat
    BY PortForwardsAssumption
  <2>3. k \in Job
    BY <2>1 DEF Job
  <2>4. QED
    BY <2>1, <2>2, <2>3
<1>4. p \in Nat
  BY <1>3, PortForwardsAssumption DEF FreePorts
<1>5. assigned' \in [Job -> Nat] /\ \A j \in Job : j # k => assigned'[j] = assigned[j]
  BY <1>2, <1>3, <1>4 DEF PfInv, PfTypeOK
<1>6. InCall(c) /\ overlapped' \in BOOLEAN
  BY <1>1 DEF InCall, PfInv, PfTypeOK
<1>7. ASSUME ~overlapped
      PROVE  /\ jobs[k] = 0
             /\ \A i \in DOMAIN Jobs : i >= pfCall[c].next => jobs[Jobs[i]] = 0
             /\ \A j \in Job : jobs[j] # 0 /\ forward[jobs[j]].alive =>
                  assigned[j] = forward[jobs[j]].port /\ assigned[j] # 0
             /\ \A g \in Forward : forward[g].alive =>
                  \/ g \in givenUp
                  \/ \E j \in Job : jobs[j] = g
                  \/ \E y \in Context : kagentUi[y] = g
  BY <1>1, <1>3, <1>6, <1>7, CallHas, AloneFacts
<1>8. CASE PfReturn(c) /\ UNCHANGED <<forward, jobs, givenUp>>
  <2>1. TablesOK'
    BY <1>1, <1>5, <1>8 DEF TablesOK, PfInv, PfTypeOK
  <2> HIDE DEF k
  <2>2. QED
    BY <1>1, <1>5, <1>6, <1>7, <1>8, <2>1, ReturnStep
<1>9. CASE /\ p # 0 /\ FreeIds # {}
           /\ forward' = Spawned(f, x, p)
           /\ jobs' = [jobs EXCEPT ![k] = f] /\ givenUp' = givenUp \ {f}
           /\ pfCall' = [pfCall EXCEPT ![c].pc = pc, ![c].next = n]
  <2>1. /\ f \in Forward /\ f # 0
        /\ \A j \in Job : jobs[j] # f
        /\ \A y \in Context : kagentUi[y] # f
    BY <1>9, NewIdFacts
  <2>2. /\ pc \in {"spawn", "verify"} /\ n \in Nat
        /\ pc = "spawn" => n \in DOMAIN Jobs /\ n = pfCall[c].next + 1
    BY <1>1, <1>3
  <2> HIDE DEF f, pc, n
  <2>3. pfCall' = [pfCall EXCEPT ![c] = r]
    BY <1>9, NoteFacts
  <2>4. CallIs(r)
    BY <1>3, <2>2, CallFields DEF CallIs, PfCallState
  <2>5. /\ forward' \in [Forward -> ForwardState]
        /\ forward'[f].alive /\ forward'[f].port = p
        /\ \A g \in Forward : g # f => forward'[g] = forward[g]
    <3>1. forward' = Spawned(f, x, p) /\ x \in Context \cup {NoContext} /\ PfTypeOK
      BY <1>3, <1>9 DEF PfInv
    <3> HIDE DEF x
    <3>2. /\ forward' \in [Forward -> ForwardState]
          /\ forward'[f] = [alive |-> TRUE, context |-> x, port |-> p, ours |-> TRUE]
          /\ \A g \in Forward : g # f => forward'[g] = forward[g]
      BY <1>4, <2>1, <3>1, SpawnedFacts
    <3>3. QED
      BY <3>2
  <2>6. /\ jobs' \in [Job -> Forward \cup {0}] /\ jobs'[k] = f
        /\ \A j \in Job : j # k => jobs'[j] = jobs[j]
    BY <1>3, <1>9, <2>1 DEF PfInv, PfTypeOK
  <2>7. TablesOK'
    BY <1>1, <1>5, <1>9, <2>5, <2>6 DEF TablesOK, PfInv, PfTypeOK
  <2>8. assigned'[k] = p
    BY <1>2, <1>3, <1>9 DEF PfInv, PfTypeOK
  <2>9. ASSUME ~overlapped' PROVE Leaves(r)
    <3>1. \A g \in Forward : forward'[g].alive =>
            \/ g \in givenUp'
            \/ \E j \in Job : jobs'[j] = g
            \/ \E y \in Context : kagentUi'[y] = g
      <4> SUFFICES ASSUME NEW g \in Forward, forward'[g].alive, g # f
                   PROVE  \/ g \in givenUp'
                          \/ \E j \in Job : jobs'[j] = g
                          \/ \E y \in Context : kagentUi'[y] = g
        BY <1>3, <2>6
      <4>1. g # 0
        BY PortForwardsAssumption DEF Forward
      <4>2. \/ g \in givenUp
            \/ \E j \in Job : jobs[j] = g
            \/ \E y \in Context : kagentUi[y] = g
        BY <1>1, <1>7, <2>5, <2>9
      <4> HIDE DEF k
      <4>3. QED
        BY <1>1, <1>7, <1>9, <2>6, <2>9, <4>1, <4>2
    <3>2. pc = "spawn" => \A i \in DOMAIN Jobs : i >= n => jobs'[Jobs[i]] = 0
      <4> SUFFICES ASSUME pc = "spawn", NEW i \in DOMAIN Jobs, i >= n PROVE jobs'[Jobs[i]] = 0
        OBVIOUS
      <4>1. i # pfCall[c].next /\ i >= pfCall[c].next
        BY <1>3, <2>2
      <4>2. Jobs[i] \in Job /\ Jobs[i] # k
        BY <1>3, <4>1, PortForwardsAssumption DEF Job
      <4>3. QED
        BY <1>1, <1>7, <2>6, <2>9, <4>1, <4>2
    <3>3. \A j \in Job : jobs'[j] # 0 /\ forward'[jobs'[j]].alive =>
            assigned'[j] = forward'[jobs'[j]].port /\ assigned'[j] # 0
      <4> SUFFICES ASSUME NEW j \in Job, jobs'[j] # 0, forward'[jobs'[j]].alive
                   PROVE  assigned'[j] = forward'[jobs'[j]].port /\ assigned'[j] # 0
        OBVIOUS
      <4>1. CASE j = k
        BY <1>9, <2>5, <2>6, <2>8, <4>1
      <4>2. CASE j # k
        <5>1. jobs'[j] = jobs[j] /\ jobs[j] \in Forward /\ jobs[j] # f
          BY <2>1, <2>6, <4>2 DEF PfInv, PfTypeOK
        <5>2. forward'[jobs'[j]] = forward[jobs[j]] /\ assigned'[j] = assigned[j]
          BY <1>5, <2>5, <4>2, <5>1
        <5>3. QED
          BY <1>1, <1>7, <2>9, <5>1, <5>2
      <4>3. QED
        BY <4>1, <4>2
    <3>4. QED
      BY <2>2, <3>1, <3>2, <3>3 DEF Leaves
  <2>10. QED
    BY <1>1, <1>6, <2>3, <2>4, <2>7, <2>9, CallStep
<1>10. QED
  BY <1>2, <1>8, <1>9

-----------------------------------------------------------------------------
\* A step that touches no forward and no table but that of the panel, from
\* which only what is gone or given up leaves.
LEMMA PanelStep ==
  ASSUME PfInv, NEW c \in PfCall, NEW r, CallIs(r), pfCall' = [pfCall EXCEPT ![c] = r],
         UNCHANGED <<target, jobs, forward, assigned>>, overlapped' \in BOOLEAN,
         \/ InCall(c) /\ overlapped' = overlapped
         \/ overlapped' = (overlapped \/ \E d \in PfCall : pfCall[d].pc # "idle"),
         pfCall[c].held = {}, r.pc \in {"probe", "open", "opened"},
         kagentUi' \in [Context -> Forward \cup {0}], givenUp \subseteq givenUp',
         givenUp' \subseteq Forward,
         \A x \in Context, f \in Forward : kagentUi[x] = f /\ forward[f].alive =>
           kagentUi'[x] = f \/ f \in givenUp',
         r.pc = "open" => kagentUi'[r.context] = 0
  PROVE  PfInv'
<1>1. TablesOK'
  BY DEF TablesOK, PfInv, PfTypeOK
<1>2. ASSUME ~overlapped' PROVE Leaves(r)
  <2>1. ~overlapped /\ (InCall(c) \/ \A d \in PfCall : pfCall[d].pc = "idle")
    BY <1>2
  <2>2. \A f \in Forward : forward[f].alive =>
           \/ f \in givenUp
           \/ \E k \in Job : jobs[k] = f
           \/ \E x \in Context : kagentUi[x] = f
    BY <2>1, AloneFacts
  <2>3. \A k \in Job : jobs[k] # 0 /\ forward[jobs[k]].alive =>
           assigned[k] = forward[jobs[k]].port /\ assigned[k] # 0
    BY <2>1, CallHas
  <2>4. QED
    BY <2>2, <2>3 DEF Leaves
<1>3. QED
  BY <1>1, <1>2, CallStep

LEMMA OpenLooksInv ==
  ASSUME PfInv, NEW c \in PfCall, NEW x \in Context, OpenLooks(c, x)
  PROVE  PfInv'
<1>1. UNCHANGED <<target, jobs, forward, assigned, givenUp>>
  BY DEF OpenLooks
<1>2. PICK pc \in {"probe", "open"} :
        /\ PfBegin(c, pc, x, {})
        /\ \/ pc = "probe" /\ kagentUi' = kagentUi
           \/ ~Alive(kagentUi[x]) /\ kagentUi' = [kagentUi EXCEPT ![x] = 0]
  BY DEF OpenLooks
<1> DEFINE r == [pc |-> pc, context |-> x, held |-> {}, next |-> 1, answered |-> {}]
<1>3. /\ pfCall[c].pc = "idle" /\ pfCall' = [pfCall EXCEPT ![c] = r]
      /\ overlapped' = (overlapped \/ \E d \in PfCall : pfCall[d].pc # "idle")
      /\ overlapped' \in BOOLEAN
  BY <1>2, BeginFacts
<1>4. CallIs(r)
  BY <1>2 DEF CallIs, PfCallState
<1>5. pfCall[c].held = {} /\ kagentUi' \in [Context -> Forward \cup {0}]
  BY <1>2, <1>3 DEF PfInv, PfTypeOK
<1>6. \A y \in Context, f \in Forward : kagentUi[y] = f /\ forward[f].alive => kagentUi'[y] = f
  BY <1>2 DEF PfInv, PfTypeOK, Alive
<1>7. r.pc = "open" => kagentUi'[r.context] = 0
  BY <1>2 DEF PfInv, PfTypeOK
<1>8. r.pc \in {"probe", "open", "opened"} /\ givenUp \subseteq givenUp' /\ givenUp' \subseteq Forward
  BY <1>1, <1>2 DEF PfInv, PfTypeOK
<1> HIDE DEF r
<1>9. QED
  BY <1>1, <1>3, <1>4, <1>5, <1>6, <1>7, <1>8, PanelStep

\* The panel's forward answers, or is given up and left running.
LEMMA OpenProbesInv ==
  ASSUME PfInv, NEW c \in PfCall, OpenProbes(c)
  PROVE  PfInv'
<1> DEFINE x == pfCall[c].context
           f == kagentUi[x]
<1>1. /\ pfCall[c].pc = "probe"
      /\ UNCHANGED <<target, jobs, forward, assigned, overlapped>>
      /\ \/ f # 0 /\ Opened(c, forward[f].port) /\ UNCHANGED <<kagentUi, givenUp>>
         \/ /\ kagentUi' = [kagentUi EXCEPT ![x] = 0] /\ givenUp' = givenUp \cup ({f} \ {0})
            /\ PfAt(c, "open")
  BY DEF OpenProbes
<1>2. /\ x \in Context /\ f \in Forward \cup {0} /\ pfCall[c].held = {} /\ InCall(c)
      /\ pfCall[c].next \in Nat /\ overlapped' \in BOOLEAN
  BY <1>1 DEF PfInv, PfTypeOK, PfCallState, InCall
<1>3. PICK pc \in {"open", "opened"}, n \in Nat :
        /\ \/ pfCall' = [pfCall EXCEPT ![c].pc = pc, ![c].next = n]
           \/ pfCall' = [pfCall EXCEPT ![c].pc = pc] /\ n = pfCall[c].next
        /\ \/ pc = "opened" /\ UNCHANGED <<kagentUi, givenUp>>
           \/ kagentUi' = [kagentUi EXCEPT ![x] = 0] /\ givenUp' = givenUp \cup ({f} \ {0})
  <2>1. CASE f # 0 /\ Opened(c, forward[f].port) /\ UNCHANGED <<kagentUi, givenUp>>
    <3>1. forward[f].port \in Nat
      BY <1>2, <2>1 DEF PfInv, PfTypeOK, ForwardState
    <3>2. QED
      BY <2>1, <3>1 DEF Opened
  <2>2. CASE /\ kagentUi' = [kagentUi EXCEPT ![x] = 0] /\ givenUp' = givenUp \cup ({f} \ {0})
             /\ PfAt(c, "open")
    BY <1>2, <2>2 DEF PfAt
  <2>3. QED
    BY <1>1, <2>1, <2>2
<1> DEFINE r == [pc |-> pc, context |-> x, held |-> pfCall[c].held, next |-> n,
                       answered |-> pfCall[c].answered]
<1>4. pfCall' = [pfCall EXCEPT ![c] = r]
  BY <1>3, NoteFacts
<1>5. CallIs(r)
  BY <1>2, <1>3, CallFields DEF CallIs, PfCallState
<1> HIDE DEF x
<1>6. kagentUi' \in [Context -> Forward \cup {0}] /\ givenUp \subseteq givenUp' /\ givenUp' \subseteq Forward
  BY <1>2, <1>3 DEF PfInv, PfTypeOK
<1>7. \A y \in Context, g \in Forward : kagentUi[y] = g /\ forward[g].alive =>
        kagentUi'[y] = g \/ g \in givenUp'
  <2>1. \A g \in Forward : g # 0
    BY PortForwardsAssumption DEF Forward
  <2>2. QED
    BY <1>2, <1>3, <2>1 DEF PfInv, PfTypeOK
<1>8. r.pc \in {"probe", "open", "opened"} /\ (r.pc = "open" => kagentUi'[r.context] = 0)
  BY <1>2, <1>3 DEF PfInv, PfTypeOK
<1> HIDE DEF r
<1>9. QED
  BY <1>1, <1>2, <1>4, <1>5, <1>6, <1>7, <1>8, PanelStep

LEMMA OpenSpawnsInv ==
  ASSUME PfInv, NEW c \in PfCall, OpenSpawns(c)
  PROVE  PfInv'
<1> DEFINE x == pfCall[c].context
           f == NewId(FreeIds)
<1>1. pfCall[c].pc = "open" /\ UNCHANGED <<target, jobs, assigned, overlapped>>
  BY DEF OpenSpawns
<1>2. x \in Context /\ pfCall[c].held = {} /\ InCall(c) /\ overlapped' \in BOOLEAN
  BY <1>1 DEF PfInv, PfTypeOK, PfCallState, InCall
<1>3. ASSUME ~overlapped
      PROVE  /\ kagentUi[x] = 0
             /\ \A j \in Job : jobs[j] # 0 /\ forward[jobs[j]].alive =>
                  assigned[j] = forward[jobs[j]].port /\ assigned[j] # 0
             /\ \A g \in Forward : forward[g].alive =>
                  \/ g \in givenUp
                  \/ \E j \in Job : jobs[j] = g
                  \/ \E y \in Context : kagentUi[y] = g
  BY <1>1, <1>2, <1>3, CallHas, AloneFacts
<1>4. CASE PfReturn(c) /\ UNCHANGED <<forward, kagentUi, givenUp>>
  <2>1. TablesOK'
    BY <1>1, <1>4 DEF TablesOK, PfInv, PfTypeOK
  <2>2. QED
    BY <1>1, <1>2, <1>3, <1>4, <2>1, ReturnStep
<1>5. ASSUME NEW p \in FreePorts(PortRange["kagent-ui"]) \ {0}, FreeIds # {},
             forward' = Spawned(f, x, p),
             kagentUi' = [kagentUi EXCEPT ![x] = f], givenUp' = givenUp \ {f},
             pfCall' = [pfCall EXCEPT ![c].pc = "opening", ![c].next = p]
      PROVE  PfInv'
  <2> DEFINE r == [pc |-> "opening", context |-> x, held |-> pfCall[c].held, next |-> p,
                 answered |-> pfCall[c].answered]
  <2>1. p \in Nat
    BY PortForwardsAssumption DEF FreePorts
  <2>2. /\ f \in Forward /\ f # 0
        /\ \A j \in Job : jobs[j] # f
        /\ \A y \in Context : kagentUi[y] # f
    BY <1>5, NewIdFacts
  <2> HIDE DEF f
  <2>3. pfCall' = [pfCall EXCEPT ![c] = r]
    BY <1>5, NoteFacts
  <2>4. CallIs(r)
    BY <1>2, <2>1, CallFields DEF CallIs, PfCallState
  <2> HIDE DEF x
  <2>5. /\ forward' \in [Forward -> ForwardState]
        /\ \A g \in Forward : g # f => forward'[g] = forward[g]
    <3>1. /\ forward' = Spawned(f, x, p) /\ x \in Context \cup {NoContext} /\ PfTypeOK
      BY <1>2, <1>5 DEF PfInv
    <3>2. /\ forward' \in [Forward -> ForwardState]
          /\ forward'[f] = [alive |-> TRUE, context |-> x, port |-> p, ours |-> TRUE]
          /\ \A g \in Forward : g # f => forward'[g] = forward[g]
      BY <2>1, <2>2, <3>1, SpawnedFacts
    <3>3. QED
      BY <3>2
  <2>6. /\ kagentUi' \in [Context -> Forward \cup {0}] /\ kagentUi'[x] = f
        /\ \A y \in Context : y # x => kagentUi'[y] = kagentUi[y]
    BY <1>2, <1>5, <2>2 DEF PfInv, PfTypeOK
  <2>7. TablesOK'
    BY <1>1, <1>5, <2>5, <2>6 DEF TablesOK, PfInv, PfTypeOK
  <2>8. ASSUME ~overlapped' PROVE Leaves(r)
    <3>1. \A g \in Forward : forward'[g].alive =>
            \/ g \in givenUp'
            \/ \E j \in Job : jobs'[j] = g
            \/ \E y \in Context : kagentUi'[y] = g
      <4> SUFFICES ASSUME NEW g \in Forward, forward'[g].alive, g # f
                   PROVE  \/ g \in givenUp'
                          \/ \E j \in Job : jobs'[j] = g
                          \/ \E y \in Context : kagentUi'[y] = g
        BY <1>2, <2>6
      <4>1. g # 0
        BY PortForwardsAssumption DEF Forward
      <4>2. \/ g \in givenUp
            \/ \E j \in Job : jobs[j] = g
            \/ \E y \in Context : kagentUi[y] = g
        BY <1>1, <1>3, <2>5, <2>8
      <4>3. QED
        BY <1>1, <1>3, <1>5, <2>6, <2>8, <4>1, <4>2
    <3>2. \A j \in Job : jobs'[j] # 0 /\ forward'[jobs'[j]].alive =>
            assigned'[j] = forward'[jobs'[j]].port /\ assigned'[j] # 0
      <4> SUFFICES ASSUME NEW j \in Job, jobs[j] # 0, forward'[jobs[j]].alive
                   PROVE  assigned[j] = forward'[jobs[j]].port /\ assigned[j] # 0
        BY <1>1
      <4>1. forward'[jobs[j]] = forward[jobs[j]]
        BY <2>2, <2>5 DEF PfInv, PfTypeOK
      <4>2. QED
        BY <1>1, <1>3, <2>8, <4>1
    <3>3. QED
      BY <3>1, <3>2 DEF Leaves
  <2> HIDE DEF r
  <2>9. QED
    BY <1>1, <1>2, <2>3, <2>4, <2>7, <2>8, CallStep
<1>6. QED
  BY <1>4, <1>5 DEF OpenSpawns

LEMMA OpenVerifiesInv ==
  ASSUME PfInv, NEW c \in PfCall, OpenVerifies(c)
  PROVE  PfInv'
<1> DEFINE x == pfCall[c].context
<1>1. pfCall[c].pc = "opening" /\ UNCHANGED <<target, jobs, assigned, overlapped, givenUp>>
  BY DEF OpenVerifies
<1>2. /\ x \in Context /\ pfCall[c].held = {} /\ InCall(c) /\ overlapped' \in BOOLEAN
      /\ pfCall[c].next \in Nat
  BY <1>1 DEF PfInv, PfTypeOK, PfCallState, InCall
<1>3. CASE Opened(c, pfCall[c].next) /\ UNCHANGED <<kagentUi, forward>>
  <2> DEFINE r == [pc |-> "opened", context |-> x, held |-> pfCall[c].held, next |-> pfCall[c].next,
                answered |-> pfCall[c].answered]
  <2>1. pfCall' = [pfCall EXCEPT ![c] = r]
    BY <1>3, NoteFacts DEF Opened
  <2>2. CallIs(r) /\ r.pc = "opened"
    BY <1>2, CallFields DEF CallIs, PfCallState
  <2> HIDE DEF r
  <2>3. QED
    BY <1>1, <1>2, <1>3, <2>1, <2>2, PanelStep DEF PfInv, PfTypeOK
<1>4. CASE /\ kagentUi' = [kagentUi EXCEPT ![x] = 0]
           /\ forward' = Killed({kagentUi[x]}) /\ PfReturn(c)
  <2> HIDE DEF x
  <2>1. /\ forward' \in [Forward -> ForwardState]
        /\ \A f \in Forward : forward'[f].alive => forward'[f] = forward[f] /\ f # kagentUi[x]
    BY <1>4, KilledFacts DEF PfInv
  <2>2. /\ kagentUi' \in [Context -> Forward \cup {0}]
        /\ \A y \in Context : y # x => kagentUi'[y] = kagentUi[y]
    BY <1>2, <1>4 DEF PfInv, PfTypeOK
  <2>3. TablesOK'
    BY <1>1, <2>1, <2>2 DEF TablesOK, PfInv, PfTypeOK
  <2>4. ASSUME ~overlapped
        PROVE  /\ \A j \in Job : jobs[j] # 0 /\ forward[jobs[j]].alive =>
                    assigned[j] = forward[jobs[j]].port /\ assigned[j] # 0
               /\ \A g \in Forward : forward[g].alive =>
                    \/ g \in givenUp
                    \/ \E j \in Job : jobs[j] = g
                    \/ \E y \in Context : kagentUi[y] = g
    BY <1>2, <2>4, CallHas, AloneFacts
  <2>5. \A j \in Job : jobs[j] # 0 => jobs[j] \in Forward
    BY DEF PfInv, PfTypeOK
  <2>6. ASSUME ~overlapped, NEW g \in Forward, forward'[g].alive
        PROVE  \/ g \in givenUp'
               \/ \E j \in Job : jobs'[j] = g
               \/ \E y \in Context : kagentUi'[y] = g
    <3>1. forward[g].alive /\ g # kagentUi[x]
      BY <2>1, <2>6
    <3>2. \A y \in Context : kagentUi[y] = g => kagentUi'[y] = g
      BY <2>2, <3>1
    <3>3. QED
      BY <1>1, <2>4, <2>6, <3>1, <3>2
  <2>7. ASSUME ~overlapped, NEW j \in Job, jobs'[j] # 0, forward'[jobs'[j]].alive
        PROVE  assigned'[j] = forward'[jobs'[j]].port /\ assigned'[j] # 0
    BY <1>1, <2>1, <2>4, <2>5, <2>7
  <2>8. QED
    BY <1>1, <1>2, <1>4, <2>3, <2>6, <2>7, ReturnStep
<1>5. QED
  BY <1>3, <1>4 DEF OpenVerifies

\* The panel is handed the forward of the dashboard; another call may be at work.
LEMMA OpenReusesInv ==
  ASSUME PfInv, NEW c \in PfCall, NEW x \in Context, OpenReuses(c, x)
  PROVE  PfInv'
<1> DEFINE p == PortFor("kagent-ui")
<1>1. /\ pfCall[c].pc = "idle" /\ jobs["kagent-ui"] # 0
      /\ UNCHANGED <<target, jobs, kagentUi, forward, assigned, overlapped, givenUp>>
  BY DEF OpenReuses
<1>2. PICK r : r = [IdleCall EXCEPT !.pc = "opened", !.context = x, !.next = p]
  OBVIOUS
<1>3. pfCall' = [pfCall EXCEPT ![c] = r]
  BY <1>2 DEF OpenReuses
<1>4. r = [pc |-> "opened", context |-> x, held |-> {}, next |-> p, answered |-> {}]
  <2> HIDE DEF p
  <2>1. r = [pc |-> "opened", context |-> x, held |-> IdleCall.held, next |-> p,
           answered |-> IdleCall.answered]
    BY <1>2, IdleIsCall
  <2>2. QED
    BY <2>1, IdleIsCall
<1>5. p \in Nat
  <2>1. /\ "kagent-ui" \in Job /\ PortRange["kagent-ui"] \subseteq Nat
        /\ PreferredPort(PortRange["kagent-ui"]) \in PortRange["kagent-ui"]
    BY PortForwardsAssumption DEF PreferredPort
  <2>2. assigned["kagent-ui"] \in Nat
    BY <2>1 DEF PfInv, PfTypeOK
  <2>3. QED
    BY <2>1, <2>2 DEF PortFor
<1> HIDE DEF p
<1>6. CallIs(r) /\ r.pc = "opened" /\ r.held = {}
  BY <1>4, <1>5 DEF CallIs, PfCallState
<1>7. pfCall'[c] = r /\ \A d \in PfCall : d # c => pfCall'[d] = pfCall[d]
  BY <1>3 DEF PfInv, PfTypeOK
<1>8. PfTypeOK'
  <2>1. pfCall' \in [PfCall -> PfCallState]
    BY <1>3, <1>6 DEF PfInv, PfTypeOK, CallIs
  <2>2. \A d \in PfCall : CallIs(pfCall'[d])
    BY <1>6, <1>7 DEF PfInv, PfTypeOK, CallIs
  <2>3. QED
    BY <1>1, <2>1, <2>2 DEF PfInv, PfTypeOK, CallIs
<1>9. pfCall[c].held = {}
  BY <1>1 DEF PfInv, PfTypeOK
<1>10. CallsStandAlone' /\ TablesAreEmptied' /\ LinksLead' /\ StopReachesAll'
  BY <1>1, <1>6, <1>7
  DEF PfInv, CallsStandAlone, TablesAreEmptied, LinksLead, StopReachesAll, InCall
<1>11. NothingIsLost'
  BY <1>1, <1>6, <1>7, <1>9 DEF PfInv, NothingIsLost
<1>12. QED
  BY <1>8, <1>10, <1>11 DEF PfInv

LEMMA PfReturnsInv ==
  ASSUME PfInv, NEW c \in PfCall, PfReturns(c)
  PROVE  PfInv'
<1>1. /\ pfCall[c].pc \in {"stopped", "opened"} /\ pfCall' = [pfCall EXCEPT ![c] = IdleCall]
      /\ UNCHANGED <<target, jobs, kagentUi, forward, assigned, overlapped, givenUp>>
  BY DEF PfReturns, PfReturn
<1>2. pfCall'[c] = IdleCall /\ \A d \in PfCall : d # c => pfCall'[d] = pfCall[d]
  BY <1>1 DEF PfInv, PfTypeOK
<1>3. PfTypeOK'
  <2>1. pfCall' \in [PfCall -> PfCallState]
    BY <1>1, IdleIsCall DEF PfInv, PfTypeOK, CallIs
  <2>2. \A d \in PfCall : CallIs(pfCall'[d])
    BY <1>2, IdleIsCall DEF PfInv, PfTypeOK, CallIs
  <2>3. QED
    BY <1>1, <2>1, <2>2 DEF PfInv, PfTypeOK, CallIs
<1>4. pfCall[c].held = {}
  BY <1>1 DEF PfInv, PfTypeOK
<1>5. CallsStandAlone' /\ TablesAreEmptied' /\ LinksLead' /\ StopReachesAll'
  BY <1>1, <1>2, IdleIsCall
  DEF PfInv, CallsStandAlone, TablesAreEmptied, LinksLead, StopReachesAll, InCall
<1>6. NothingIsLost'
  BY <1>1, <1>2, <1>4 DEF PfInv, NothingIsLost
<1>7. QED
  BY <1>3, <1>5, <1>6 DEF PfInv

-----------------------------------------------------------------------------
LEMMA PfNextInv == PfInv /\ [PfNext]_pfVars => PfInv'
<1> SUFFICES ASSUME PfInv, [PfNext]_pfVars PROVE PfInv'
  OBVIOUS
<1>1. CASE UNCHANGED pfVars
  BY <1>1 DEF pfVars, PfInv, PfTypeOK, CallsStandAlone, NothingIsLost, TablesAreEmptied,
              LinksLead, StopReachesAll, InCall
<1>2. CASE PfNext
  BY <1>2, StartDrainsInv, StartReapsInv, StartSpawnsInv, StartVerifiesInv, StopDrainsInv,
     StopKillsInv, PfReturnsInv, OpenReusesInv, OpenLooksInv, OpenProbesInv, OpenSpawnsInv,
     OpenVerifiesInv, PfSaveTargetInv, ForwardDiesInv
  DEF PfNext
<1>3. QED
  BY <1>1, <1>2

\* The forwards, the tables and the calls, in every state.
THEOREM PfInvariant == PfSpec => []PfInv
<1>1. PfInit => PfInv
  BY PfInitInv
<1>2. PfInv /\ [PfNext]_pfVars => PfInv'
  BY PfNextInv
<1>3. QED
  BY <1>1, <1>2, PTL DEF PfSpec

\* The program knows its forwards: unless two commands overlapped, none but those it gave
\* up is lost, a stop reaches all it knows, of every context, and of the active target
\* those pgrep listed for it, and the links of the dashboard lead to them.
THEOREM ForwardsAreAlwaysKnown == PfSpec => []ForwardsAreKnown
<1>1. ASSUME PfInv PROVE ForwardsAreKnown
  <2>1. NoForwardIsLost
    BY <1>1 DEF PfInv, NothingIsLost, NoForwardIsLost, Alive, tracked
  <2>2. StopIsComplete
    BY <1>1 DEF PfInv, StopReachesAll, StopIsComplete, Alive
  <2>3. LinksFollowForwards
    BY <1>1 DEF PfInv, LinksLead, LinksFollowForwards, Alive, PortFor
  <2>4. QED
    BY <2>1, <2>2, <2>3 DEF ForwardsAreKnown
<1>2. QED
  BY <1>1, PfInvariant, PTL
=============================================================================
