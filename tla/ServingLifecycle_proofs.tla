--------------------------- MODULE ServingLifecycle_proofs ---------------------------
\* The serving slot, for any servers, adapters, requests and commands.
EXTENDS ServingLifecycle, TLAPS

\* The reservation named the adapter that is served.
Named(s) == Reserved(req[s]) = Effective(req[s])

\* The phase of a server tells what its process, its exit and its health check
\* can be.
PhaseAgrees ==
  \A s \in Server :
    /\ pc[s] \in {"idle", "admitted", "reserved"} => child[s] = "none"
    /\ pc[s] \in {"spawned", "published", "up"} => child[s] # "none"
    /\ pc[s] \in {"checked", "reporting"} => child[s] = "dead"
    /\ pc[s] = "over" => child[s] # "alive"
    /\ child[s] # "dead" => exit[s] = "none"
    /\ hc[s] # "off" => pc[s] \in {"up", "checked", "reporting", "over"}

\* A slot with a pid is that of a server whose start has published it, and an
\* empty one is empty.
SlotAgrees ==
  /\ ReservationHasOwner
  /\ slot.owner = NoOne => slot = EmptySlot
  /\ slot.up => pc[slot.owner] \in {"published", "up", "checked", "reporting", "over"}

\* From the reservation on the slot is the server's as long as it lives, and
\* until its reader looks unless a command aimed at it.
SlotIsHeld ==
  ~wiped => \A s \in Server :
    /\ pc[s] \in {"reserved", "spawned"} \/ child[s] = "alive" => slot.owner = s
    /\ pc[s] \in {"published", "up"} /\ s \notin asked => slot.owner = s /\ slot.up

\* An adapter that the reservation named is there once the server was spawned,
\* and is not being deleted.
PathIsKept ==
  ~wiped => \A s \in Server : slot.owner = s /\ Named(s) =>
    /\ slot.path = Effective(req[s])
    /\ deleting = Base \/ deleting # slot.path
    /\ pc[s] # "reserved" => Present(slot.path)

\* So is the last known good one: a deletion that looked at the slot while its
\* server was not recorded yet has not looked at the record yet.
GoodIsKept ==
  /\ cleared => deleting # Base
  /\ ~wiped /\ lkg.guarded => Present(lkg.path) /\ (cleared => deleting # lkg.path)

\* One revert at a time has a goal, and the server a command stops is known to
\* its reader as stopped.
CommandsAgree ==
  /\ \A c \in Caller : kpc[c] \in {"replacing", "restoring", "starting"} => goal[c] # NoOne
  /\ \A c \in Caller : kpc[c] = "idle" => goal[c] = NoOne
  /\ \A c, d \in Caller : goal[c] # NoOne /\ goal[d] # NoOne => c = d
  /\ \A c \in Caller : kpc[c] \in {"signalling", "starting"} => target[c] # NoOne
  /\ \A c \in Caller : kpc[c] = "signalling" => target[c] \in asked \/ pc[target[c]] = "over"

\* The benchmark measures beside an empty slot.
BenchmarkSeesSlot == ~wiped /\ benchmark = "measuring" => slot.owner = NoOne

SvInv ==
  /\ TypeOK /\ PhaseAgrees /\ SlotAgrees /\ SlotIsHeld /\ PathIsKept /\ GoodIsKept
  /\ CommandsAgree /\ BenchmarkSeesSlot
-----------------------------------------------------------------------------
\* At the start the slot is empty and nothing is served.
LEMMA SvInitInv == Init => SvInv
<1> SUFFICES ASSUME Init PROVE SvInv
  OBVIOUS
<1>1. TypeOK
  BY NamesDiffer DEF Init, TypeOK, EmptySlot, Path, Request, Phase
<1>2. PhaseAgrees /\ SlotAgrees
  BY DEF Init, PhaseAgrees, SlotAgrees, ReservationHasOwner, EmptySlot
<1>3. SlotIsHeld /\ PathIsKept
  BY NamesDiffer DEF Init, SlotIsHeld, PathIsKept, EmptySlot
<1>4. GoodIsKept /\ CommandsAgree /\ BenchmarkSeesSlot
  BY DEF Init, GoodIsKept, CommandsAgree, BenchmarkSeesSlot, Present
<1>5. QED
  BY <1>1, <1>2, <1>3, <1>4 DEF SvInv

\* A start enters, or is refused at the door.
LEMMA StartInv ==
  ASSUME SvInv, NEW s \in Server, NEW r \in Requests, Start(s, r)
  PROVE  SvInv'
<1>1. TypeOK'
  BY NamesDiffer, RequestsAreRequests DEF SvInv, Start, EmptySlot, Path, Phase, goto,
     Effective, Present, Enter, Named, PhaseAgrees, PathIsKept, GoodIsKept, CommandsAgree,
     BenchmarkSeesSlot, TypeOK
<1>2. PhaseAgrees' /\ SlotAgrees' /\ SlotIsHeld' /\ GoodIsKept' /\ CommandsAgree'
      /\ BenchmarkSeesSlot'
  BY DEF SvInv, Start, goto, Enter, TypeOK, PhaseAgrees, EmptySlot, ReservationHasOwner,
     SlotAgrees, SlotIsHeld, Present, GoodIsKept, CommandsAgree, BenchmarkSeesSlot
<1>3. PathIsKept'
  BY NamesDiffer, RequestsAreRequests DEF SvInv, Start, goto, Present, Enter,
     ReservationHasOwner, Named, TypeOK, SlotAgrees, PathIsKept
<1>4. QED
  BY <1>1, <1>2, <1>3 DEF SvInv

\* A start reserves the empty slot: nothing is served then.
LEMMA ReserveInv ==
  ASSUME SvInv, NEW s \in Server, Reserve(s)
  PROVE  SvInv'
<1>1. TypeOK'
  <2>1. slot' \in [owner : Server \cup {NoOne}, up : BOOLEAN, path : Path]
    <3>1. req[s] \in Request
      BY DEF SvInv, TypeOK
    <3>2. Reserved(req[s]) \in Path
      BY <3>1 DEF Reserved, Request, Path
    <3>3. slot' = slot \/ slot' = [owner |-> s, up |-> FALSE, path |-> Reserved(req[s])]
      BY DEF Reserve
    <3>4. slot \in [owner : Server \cup {NoOne}, up : BOOLEAN, path : Path]
      BY DEF SvInv, TypeOK
    <3>5. [owner |-> s, up |-> FALSE, path |-> Reserved(req[s])]
            \in [owner : Server \cup {NoOne}, up : BOOLEAN, path : Path]
      BY <3>2
    <3>6. QED
      BY <3>3, <3>4, <3>5
  <2>2. pc' \in [Server -> Phase]
    BY DEF SvInv, TypeOK, Reserve, goto, Phase
  <2>3. QED
    BY <2>1, <2>2 DEF SvInv, TypeOK, Reserve
<1>2. PhaseAgrees' /\ SlotAgrees' /\ SlotIsHeld' /\ PathIsKept' /\ GoodIsKept' /\ CommandsAgree'
      /\ BenchmarkSeesSlot'
  BY NamesDiffer, RequestsAreRequests DEF SvInv, Reserve, goto, TypeOK, PhaseAgrees,
     EmptySlot, ReservationHasOwner, SlotAgrees, SlotIsHeld, Present, Named, PathIsKept,
     GoodIsKept, CommandsAgree, BenchmarkSeesSlot
<1>3. QED
  BY <1>1, <1>2 DEF SvInv

\* A start fails and empties the slot, which is its own.
LEMMA StartFailsInv ==
  ASSUME SvInv, NEW s \in Server, StartFails(s)
  PROVE  SvInv'
<1>1. TypeOK'
  BY DEF SvInv, StartFails, EmptySlot, Path, Phase, goto, TypeOK
<1>2. PhaseAgrees' /\ SlotAgrees' /\ PathIsKept' /\ GoodIsKept' /\ CommandsAgree'
  BY NamesDiffer, RequestsAreRequests DEF SvInv, StartFails, goto, PhaseAgrees, EmptySlot,
     ReservationHasOwner, SlotAgrees, PathIsKept, Present, GoodIsKept, CommandsAgree
<1>3. SlotIsHeld'
  BY DEF SvInv, StartFails, goto, TypeOK, PhaseAgrees, SlotIsHeld
<1>4. BenchmarkSeesSlot'
  BY NamesDiffer, RequestsAreRequests DEF SvInv, StartFails, SlotIsHeld, BenchmarkSeesSlot
<1>5. QED
  BY <1>1, <1>2, <1>3, <1>4 DEF SvInv

\* A start spawns the server once the adapter is found.
LEMMA SpawnInv ==
  ASSUME SvInv, NEW s \in Server, Spawn(s)
  PROVE  SvInv'
<1>1. TypeOK'
  BY DEF SvInv, Spawn, Phase, goto, TypeOK
<1>2. PhaseAgrees' /\ SlotAgrees' /\ SlotIsHeld' /\ PathIsKept' /\ GoodIsKept' /\ CommandsAgree'
      /\ BenchmarkSeesSlot'
  BY DEF SvInv, Spawn, goto, TypeOK, PhaseAgrees, ReservationHasOwner, SlotAgrees,
     SlotIsHeld, Present, Named, PathIsKept, GoodIsKept, CommandsAgree, BenchmarkSeesSlot
<1>3. QED
  BY <1>1, <1>2 DEF SvInv

\* A start publishes the pid of its server.
LEMMA PublishSlotInv ==
  ASSUME SvInv, NEW s \in Server, PublishSlot(s)
  PROVE  SvInv'
<1>1. TypeOK'
  BY DEF SvInv, PublishSlot, Request, Phase, goto, Effective, TypeOK
<1>2. PhaseAgrees' /\ SlotAgrees' /\ SlotIsHeld' /\ GoodIsKept' /\ CommandsAgree'
  BY NamesDiffer, RequestsAreRequests DEF SvInv, PublishSlot, goto, PhaseAgrees,
     ReservationHasOwner, TypeOK, SlotAgrees, SlotIsHeld, Present, GoodIsKept, CommandsAgree
<1>3. PathIsKept'
  BY DEF SvInv, PublishSlot, Present, Named, SlotIsHeld, PathIsKept
<1>4. BenchmarkSeesSlot'
  BY DEF SvInv, PublishSlot, SlotIsHeld, BenchmarkSeesSlot
<1>5. QED
  BY <1>1, <1>2, <1>3, <1>4 DEF SvInv

\* A start hands over to the reader and the health check.
LEMMA StartedInv ==
  ASSUME SvInv, NEW s \in Server, Started(s)
  PROVE  SvInv'
<1>1. TypeOK'
  BY DEF SvInv, Started, Phase, goto, TypeOK
<1>2. PhaseAgrees' /\ SlotAgrees' /\ SlotIsHeld' /\ PathIsKept' /\ GoodIsKept' /\ CommandsAgree'
      /\ BenchmarkSeesSlot'
  BY DEF SvInv, Started, goto, TypeOK, PhaseAgrees, ReservationHasOwner, SlotAgrees,
     SlotIsHeld, Present, Named, PathIsKept, GoodIsKept, CommandsAgree, BenchmarkSeesSlot
<1>3. QED
  BY <1>1, <1>2 DEF SvInv

\* A server ends by itself.
LEMMA ServerExitsInv ==
  ASSUME SvInv, NEW s \in Server, ServerExits(s)
  PROVE  SvInv'
<1>1. TypeOK'
  BY DEF SvInv, ServerExits, TypeOK
<1>2. PhaseAgrees' /\ SlotAgrees' /\ SlotIsHeld' /\ PathIsKept' /\ GoodIsKept' /\ CommandsAgree'
      /\ BenchmarkSeesSlot'
  BY DEF SvInv, ServerExits, TypeOK, PhaseAgrees, ReservationHasOwner, SlotAgrees,
     SlotIsHeld, Present, Named, PathIsKept, GoodIsKept, CommandsAgree, BenchmarkSeesSlot
<1>3. QED
  BY <1>1, <1>2 DEF SvInv

\* The reader of a server that ended looks at the slot.
LEMMA ReaderChecksInv ==
  ASSUME SvInv, NEW s \in Server, ReaderChecks(s)
  PROVE  SvInv'
<1>1. TypeOK'
  BY DEF SvInv, ReaderChecks, Phase, goto, TypeOK
<1>2. PhaseAgrees' /\ SlotAgrees' /\ SlotIsHeld' /\ PathIsKept' /\ GoodIsKept' /\ CommandsAgree'
      /\ BenchmarkSeesSlot'
  BY DEF SvInv, ReaderChecks, goto, PhaseAgrees, ReservationHasOwner, SlotAgrees, TypeOK,
     SlotIsHeld, Present, Named, PathIsKept, GoodIsKept, CommandsAgree, BenchmarkSeesSlot
<1>3. QED
  BY <1>1, <1>2 DEF SvInv

\* The reader empties the slot: another owner, if any, is what wiped records.
LEMMA ReaderClearsInv ==
  ASSUME SvInv, NEW s \in Server, ReaderClears(s)
  PROVE  SvInv'
<1>1. TypeOK'
  BY DEF SvInv, ReaderClears, EmptySlot, Path, Phase, goto, TypeOK
<1>2. PhaseAgrees'
  BY DEF SvInv, ReaderClears, goto, PhaseAgrees
<1>3. SlotAgrees'
  BY DEF SvInv, ReaderClears, EmptySlot, ReservationHasOwner, SlotAgrees
<1>4. SlotIsHeld'
  <2>1. child[s] = "dead" /\ pc[s] = "checked"
    BY DEF SvInv, PhaseAgrees, ReaderClears
  <2>2. SUFFICES ASSUME ~wiped', NEW t \in Server
        PROVE  /\ pc'[t] \in {"reserved", "spawned"} \/ child'[t] = "alive" => slot'.owner = t
               /\ pc'[t] \in {"published", "up"} /\ t \notin asked' => slot'.owner = t /\ slot'.up
    BY DEF SlotIsHeld
  <2>3. ~wiped /\ slot.owner \in {s, NoOne}
    BY <2>2 DEF ReaderClears
  <2>4. pc'[t] \in {"reserved", "spawned", "published", "up"} => pc'[t] = pc[t] /\ t # s
    BY <2>1 DEF SvInv, TypeOK, ReaderClears, goto
  <2>5. QED
    BY <2>1, <2>3, <2>4, NamesDiffer DEF SvInv, SlotIsHeld, ReaderClears
<1>5. PathIsKept'
  BY NamesDiffer, RequestsAreRequests DEF SvInv, ReaderClears, EmptySlot, PathIsKept
<1>6. GoodIsKept'
  BY DEF SvInv, ReaderClears, Present, GoodIsKept
<1>7. CommandsAgree'
  BY DEF SvInv, ReaderClears, goto, CommandsAgree
<1>8. BenchmarkSeesSlot'
  BY DEF SvInv, ReaderClears, SlotAgrees, BenchmarkSeesSlot
<1>9. QED
  BY <1>1, <1>2, <1>3, <1>4, <1>5, <1>6, <1>7, <1>8 DEF SvInv

\* The reader reports the exit.
LEMMA ReaderReportsInv ==
  ASSUME SvInv, NEW s \in Server, ReaderReports(s)
  PROVE  SvInv'
<1>1. TypeOK'
  BY DEF SvInv, ReaderReports, Phase, goto, TypeOK
<1>2. PhaseAgrees' /\ SlotAgrees' /\ SlotIsHeld' /\ PathIsKept' /\ GoodIsKept' /\ CommandsAgree'
      /\ BenchmarkSeesSlot'
  BY DEF SvInv, ReaderReports, goto, PhaseAgrees, ReservationHasOwner, SlotAgrees,
     SlotIsHeld, Present, Named, PathIsKept, GoodIsKept, TypeOK, CommandsAgree,
     BenchmarkSeesSlot
<1>3. QED
  BY <1>1, <1>2 DEF SvInv

\* The health check passes or finds the slot changed.
LEMMA HealthPassesInv ==
  ASSUME SvInv, NEW s \in Server, HealthPasses(s)
  PROVE  SvInv'
<1>1. TypeOK'
  BY DEF SvInv, HealthPasses, TypeOK
<1>2. PhaseAgrees' /\ SlotAgrees' /\ SlotIsHeld' /\ PathIsKept' /\ GoodIsKept' /\ CommandsAgree'
      /\ BenchmarkSeesSlot'
  BY DEF SvInv, HealthPasses, PhaseAgrees, ReservationHasOwner, SlotAgrees, SlotIsHeld,
     Present, Named, PathIsKept, GoodIsKept, CommandsAgree, BenchmarkSeesSlot
<1>3. QED
  BY <1>1, <1>2 DEF SvInv

\* The health check records the last known good adapter.
LEMMA RecordInv ==
  ASSUME SvInv, NEW s \in Server, Record(s)
  PROVE  SvInv'
<1>1. TypeOK'
  BY DEF SvInv, Record, Request, Effective, TypeOK
<1>2. PhaseAgrees' /\ SlotAgrees' /\ SlotIsHeld' /\ PathIsKept' /\ CommandsAgree'
      /\ BenchmarkSeesSlot'
  BY DEF SvInv, Record, PhaseAgrees, ReservationHasOwner, SlotAgrees, SlotIsHeld, Present,
     Named, PathIsKept, CommandsAgree, BenchmarkSeesSlot
<1>3. GoodIsKept'
  BY DEF SvInv, Record, Present, Named, PhaseAgrees, PathIsKept, GoodIsKept
<1>4. QED
  BY <1>1, <1>2, <1>3 DEF SvInv

\* A stop aims at the server of the slot.
LEMMA StopInv ==
  ASSUME SvInv, NEW c \in Caller, Stop(c)
  PROVE  SvInv'
<1>1. TypeOK'
  BY DEF SvInv, Stop, AimAtServer, TypeOK
<1>2. PhaseAgrees' /\ SlotAgrees' /\ SlotIsHeld' /\ PathIsKept' /\ GoodIsKept' /\ CommandsAgree'
      /\ BenchmarkSeesSlot'
  BY DEF SvInv, Stop, PhaseAgrees, ReservationHasOwner, SlotAgrees, AimAtServer, SlotIsHeld,
     Present, Named, PathIsKept, GoodIsKept, TypeOK, CommandsAgree, BenchmarkSeesSlot
<1>3. QED
  BY <1>1, <1>2 DEF SvInv

\* A signal ends the server.
LEMMA SignalInv ==
  ASSUME SvInv, NEW c \in Caller, Signal(c)
  PROVE  SvInv'
<1>1. TypeOK'
  BY DEF SvInv, Signal, TypeOK
<1>2. PhaseAgrees' /\ SlotAgrees' /\ SlotIsHeld' /\ PathIsKept' /\ GoodIsKept' /\ CommandsAgree'
      /\ BenchmarkSeesSlot'
  BY DEF SvInv, Signal, TypeOK, PhaseAgrees, ReservationHasOwner, SlotAgrees, SlotIsHeld,
     Present, Named, PathIsKept, GoodIsKept, CommandsAgree, BenchmarkSeesSlot
<1>3. QED
  BY <1>1, <1>2 DEF SvInv

\* A stop empties the slot of the server it ended.
LEMMA StopClearsInv ==
  ASSUME SvInv, NEW c \in Caller, StopClears(c)
  PROVE  SvInv'
<1>1. TypeOK'
  BY DEF SvInv, StopClears, EmptySlot, Path, TypeOK
<1>2. PhaseAgrees'
  BY DEF SvInv, StopClears, PhaseAgrees
<1>3. SlotAgrees'
  BY DEF SvInv, StopClears, EmptySlot, ReservationHasOwner, SlotAgrees
<1>4. SlotIsHeld'
  BY DEF SvInv, StopClears, SlotAgrees, CommandsAgree, SlotIsHeld
<1>5. PathIsKept'
  BY NamesDiffer, RequestsAreRequests DEF SvInv, StopClears, EmptySlot, Present, Named,
     PathIsKept
<1>6. GoodIsKept'
  BY DEF SvInv, StopClears, Present, GoodIsKept
<1>7. CommandsAgree'
  BY DEF SvInv, StopClears, TypeOK, CommandsAgree
<1>8. BenchmarkSeesSlot'
  BY DEF SvInv, StopClears, SlotAgrees, BenchmarkSeesSlot
<1>9. QED
  BY <1>1, <1>2, <1>3, <1>4, <1>5, <1>6, <1>7, <1>8 DEF SvInv

\* A stop fails.
LEMMA StopFailsInv ==
  ASSUME SvInv, NEW c \in Caller, StopFails(c)
  PROVE  SvInv'
<1>1. TypeOK'
  BY DEF SvInv, StopFails, TypeOK
<1>2. PhaseAgrees' /\ SlotAgrees' /\ SlotIsHeld' /\ PathIsKept' /\ GoodIsKept' /\ CommandsAgree'
      /\ BenchmarkSeesSlot'
  BY DEF SvInv, StopFails, PhaseAgrees, ReservationHasOwner, SlotAgrees, SlotIsHeld,
     Present, Named, PathIsKept, GoodIsKept, TypeOK, CommandsAgree, BenchmarkSeesSlot
<1>3. QED
  BY <1>1, <1>2 DEF SvInv

\* A revert begins when no other one is under way.
LEMMA RevertBeginsInv ==
  ASSUME SvInv, NEW c \in Caller, RevertBegins(c)
  PROVE  SvInv'
<1>1. TypeOK'
  BY DEF SvInv, RevertBegins, TypeOK
<1>2. PhaseAgrees' /\ SlotAgrees' /\ SlotIsHeld' /\ PathIsKept' /\ GoodIsKept' /\ CommandsAgree'
      /\ BenchmarkSeesSlot'
  BY NamesDiffer, RequestsAreRequests DEF SvInv, RevertBegins, PhaseAgrees,
     ReservationHasOwner, SlotAgrees, SlotIsHeld, Present, Named, PathIsKept, GoodIsKept,
     Path, TypeOK, CommandsAgree, BenchmarkSeesSlot
<1>3. QED
  BY <1>1, <1>2 DEF SvInv

\* A revert is refused.
LEMMA RevertRefusedInv ==
  ASSUME SvInv, NEW c \in Caller, RevertRefused(c)
  PROVE  SvInv'
<1>1. TypeOK'
  BY DEF SvInv, RevertRefused, TypeOK
<1>2. PhaseAgrees' /\ SlotAgrees' /\ SlotIsHeld' /\ PathIsKept' /\ GoodIsKept' /\ CommandsAgree'
      /\ BenchmarkSeesSlot'
  BY DEF SvInv, RevertRefused, PhaseAgrees, ReservationHasOwner, SlotAgrees, SlotIsHeld,
     Present, Named, PathIsKept, GoodIsKept, TypeOK, CommandsAgree, BenchmarkSeesSlot
<1>3. QED
  BY <1>1, <1>2 DEF SvInv

\* A revert aims at the server of the slot.
LEMMA RevertStopsInv ==
  ASSUME SvInv, NEW c \in Caller, RevertStops(c)
  PROVE  SvInv'
<1>1. TypeOK'
  BY DEF SvInv, RevertStops, AimAtServer, TypeOK
<1>2. PhaseAgrees' /\ SlotAgrees' /\ SlotIsHeld' /\ PathIsKept' /\ GoodIsKept' /\ CommandsAgree'
      /\ BenchmarkSeesSlot'
  BY DEF SvInv, RevertStops, PhaseAgrees, ReservationHasOwner, SlotAgrees, AimAtServer,
     SlotIsHeld, Present, Named, PathIsKept, GoodIsKept, TypeOK, CommandsAgree,
     BenchmarkSeesSlot
<1>3. QED
  BY <1>1, <1>2 DEF SvInv

\* A revert starts a server.
LEMMA RevertStartsInv ==
  ASSUME SvInv, NEW c \in Caller, NEW s \in Server, RevertStarts(c, s)
  PROVE  SvInv'
<1>1. TypeOK'
  <2>1. goal[c] \in Path
    BY DEF SvInv, TypeOK, CommandsAgree, RevertStarts
  <2>2. req' \in [Server -> Request]
    BY <2>1 DEF SvInv, TypeOK, RevertStarts, Enter, Request, Path
  <2>3. pc' \in [Server -> Phase]
    BY DEF SvInv, TypeOK, RevertStarts, Enter, goto, Phase
  <2>4. /\ target' \in [Caller -> Server \cup {NoOne}]
        /\ kpc' \in [Caller -> {"idle", "replacing", "signalling", "restoring", "starting"}]
    BY DEF SvInv, TypeOK, RevertStarts
  <2>5. QED
    BY <2>2, <2>3, <2>4 DEF SvInv, TypeOK, RevertStarts
<1>2. PhaseAgrees' /\ SlotAgrees' /\ SlotIsHeld' /\ GoodIsKept' /\ CommandsAgree'
      /\ BenchmarkSeesSlot'
  BY NamesDiffer, RequestsAreRequests DEF SvInv, RevertStarts, goto, Enter, TypeOK,
     PhaseAgrees, EmptySlot, ReservationHasOwner, SlotAgrees, SlotIsHeld, Present,
     GoodIsKept, CommandsAgree, BenchmarkSeesSlot
<1>3. PathIsKept'
  BY NamesDiffer, RequestsAreRequests DEF SvInv, RevertStarts, goto, Present, Enter,
     ReservationHasOwner, Named, TypeOK, SlotAgrees, PathIsKept
<1>4. QED
  BY <1>1, <1>2, <1>3 DEF SvInv

\* A revert ends.
LEMMA RevertEndsInv ==
  ASSUME SvInv, NEW c \in Caller, RevertEnds(c)
  PROVE  SvInv'
<1>1. TypeOK'
  BY DEF SvInv, RevertEnds, TypeOK
<1>2. PhaseAgrees' /\ SlotAgrees' /\ SlotIsHeld' /\ PathIsKept' /\ GoodIsKept' /\ CommandsAgree'
      /\ BenchmarkSeesSlot'
  BY DEF SvInv, RevertEnds, PhaseAgrees, ReservationHasOwner, SlotAgrees, SlotIsHeld,
     Present, Named, PathIsKept, GoodIsKept, TypeOK, CommandsAgree, BenchmarkSeesSlot
<1>3. QED
  BY <1>1, <1>2 DEF SvInv

\* The deletion of an adapter that nothing protects begins.
LEMMA DeleteBeginsInv ==
  ASSUME SvInv, NEW a \in Adapter, DeleteBegins(a)
  PROVE  SvInv'
<1>1. TypeOK'
  BY DEF SvInv, DeleteBegins, Path, TypeOK
<1>2. PhaseAgrees' /\ SlotAgrees' /\ SlotIsHeld' /\ CommandsAgree' /\ BenchmarkSeesSlot'
  BY DEF SvInv, DeleteBegins, PhaseAgrees, ReservationHasOwner, SlotAgrees, SlotIsHeld,
     CommandsAgree, BenchmarkSeesSlot
<1>3. PathIsKept'
  BY DEF SvInv, DeleteBegins, InUse, Present, Named, PathIsKept
<1>4. GoodIsKept'
  BY DEF SvInv, DeleteBegins, Present, GoodIsKept
<1>5. QED
  BY <1>1, <1>2, <1>3, <1>4 DEF SvInv

\* A deletion looks at the last known good, and goes on or gives up.
LEMMA DeleteLooksInv ==
  ASSUME SvInv, DeleteLooks
  PROVE  SvInv'
<1>1. TypeOK'
  <2>1. deleting' \in Path /\ cleared' \in BOOLEAN
    BY DEF SvInv, DeleteLooks, Path, TypeOK
  <2>2. QED
    BY <2>1 DEF SvInv, DeleteLooks, TypeOK
<1>2. PhaseAgrees' /\ SlotAgrees' /\ SlotIsHeld' /\ CommandsAgree' /\ BenchmarkSeesSlot'
  BY DEF SvInv, DeleteLooks, PhaseAgrees, ReservationHasOwner, SlotAgrees, SlotIsHeld,
     CommandsAgree, BenchmarkSeesSlot
<1>3. PathIsKept'
  BY DEF SvInv, DeleteLooks, Present, Named, PathIsKept
<1>4. GoodIsKept'
  <2>1. CASE ~InUse(deleting, "second") /\ cleared' = TRUE /\ UNCHANGED deleting
    BY <2>1 DEF SvInv, DeleteLooks, GoodIsKept, Present, InUse
  <2>2. CASE deleting' = Base /\ UNCHANGED cleared
    BY <2>2 DEF SvInv, DeleteLooks, GoodIsKept, Present
  <2>3. QED
    BY <2>1, <2>2 DEF DeleteLooks
<1>5. QED
  BY <1>1, <1>2, <1>3, <1>4 DEF SvInv

\* A deletion ends.
LEMMA DeleteEndsInv ==
  ASSUME SvInv, DeleteEnds
  PROVE  SvInv'
<1>1. TypeOK'
  <2>1. deleting' \in Path /\ cleared' \in BOOLEAN /\ dir' \subseteq Adapter
    BY DEF SvInv, DeleteEnds, Path, TypeOK
  <2>2. QED
    BY <2>1 DEF SvInv, DeleteEnds, TypeOK
<1>2. PhaseAgrees' /\ SlotAgrees' /\ SlotIsHeld' /\ CommandsAgree' /\ BenchmarkSeesSlot'
  BY DEF SvInv, DeleteEnds, PhaseAgrees, ReservationHasOwner, SlotAgrees, SlotIsHeld,
     CommandsAgree, BenchmarkSeesSlot
<1>3. PathIsKept'
  BY DEF SvInv, DeleteEnds, Present, Named, PathIsKept
<1>4. GoodIsKept'
  BY DEF SvInv, DeleteEnds, Present, GoodIsKept
<1>5. QED
  BY <1>1, <1>2, <1>3, <1>4 DEF SvInv

\* The benchmark takes its reservation.
LEMMA ClaimBenchmarkInv ==
  ASSUME SvInv, ClaimBenchmark
  PROVE  SvInv'
<1>1. TypeOK'
  BY DEF SvInv, ClaimBenchmark, TypeOK
<1>2. PhaseAgrees' /\ SlotAgrees' /\ SlotIsHeld' /\ PathIsKept' /\ GoodIsKept' /\ CommandsAgree'
      /\ BenchmarkSeesSlot'
  BY DEF SvInv, ClaimBenchmark, PhaseAgrees, ReservationHasOwner, SlotAgrees, SlotIsHeld,
     Present, Named, PathIsKept, GoodIsKept, CommandsAgree, BenchmarkSeesSlot
<1>3. QED
  BY <1>1, <1>2 DEF SvInv

\* The benchmark is admitted beside an empty slot, or refused.
LEMMA AdmitBenchmarkInv ==
  ASSUME SvInv, AdmitBenchmark
  PROVE  SvInv'
<1>1. TypeOK'
  BY DEF SvInv, AdmitBenchmark, TypeOK
<1>2. PhaseAgrees' /\ SlotAgrees' /\ SlotIsHeld' /\ PathIsKept' /\ GoodIsKept' /\ CommandsAgree'
      /\ BenchmarkSeesSlot'
  BY DEF SvInv, AdmitBenchmark, PhaseAgrees, ReservationHasOwner, SlotAgrees, SlotIsHeld,
     Present, Named, PathIsKept, GoodIsKept, CommandsAgree, BenchmarkSeesSlot
<1>3. QED
  BY <1>1, <1>2 DEF SvInv

\* The benchmark ends.
LEMMA EndBenchmarkInv ==
  ASSUME SvInv, EndBenchmark
  PROVE  SvInv'
<1>1. TypeOK'
  BY DEF SvInv, EndBenchmark, TypeOK
<1>2. PhaseAgrees' /\ SlotAgrees' /\ SlotIsHeld' /\ PathIsKept' /\ GoodIsKept' /\ CommandsAgree'
      /\ BenchmarkSeesSlot'
  BY DEF SvInv, EndBenchmark, PhaseAgrees, ReservationHasOwner, SlotAgrees, SlotIsHeld,
     Present, Named, PathIsKept, GoodIsKept, CommandsAgree, BenchmarkSeesSlot
<1>3. QED
  BY <1>1, <1>2 DEF SvInv

\* Every step keeps the invariant: one case for each action.
LEMMA SvNextInv == SvInv /\ [Next]_vars => SvInv'
<1> SUFFICES ASSUME SvInv, [Next]_vars PROVE SvInv'
  OBVIOUS
<1>1. ASSUME NEW s \in Server, NEW r \in Requests, Start(s, r) PROVE SvInv'
  BY <1>1, StartInv
<1>2. ASSUME NEW s \in Server, Reserve(s) PROVE SvInv'
  BY <1>2, ReserveInv
<1>3. ASSUME NEW s \in Server, StartFails(s) PROVE SvInv'
  BY <1>3, StartFailsInv
<1>4. ASSUME NEW s \in Server, Spawn(s) PROVE SvInv'
  BY <1>4, SpawnInv
<1>5. ASSUME NEW s \in Server, PublishSlot(s) PROVE SvInv'
  BY <1>5, PublishSlotInv
<1>6. ASSUME NEW s \in Server, Started(s) PROVE SvInv'
  BY <1>6, StartedInv
<1>7. ASSUME NEW s \in Server, ServerExits(s) PROVE SvInv'
  BY <1>7, ServerExitsInv
<1>8. ASSUME NEW s \in Server, ReaderChecks(s) PROVE SvInv'
  BY <1>8, ReaderChecksInv
<1>9. ASSUME NEW s \in Server, ReaderClears(s) PROVE SvInv'
  BY <1>9, ReaderClearsInv
<1>10. ASSUME NEW s \in Server, ReaderReports(s) PROVE SvInv'
  BY <1>10, ReaderReportsInv
<1>11. ASSUME NEW s \in Server, HealthPasses(s) PROVE SvInv'
  BY <1>11, HealthPassesInv
<1>12. ASSUME NEW s \in Server, Record(s) PROVE SvInv'
  BY <1>12, RecordInv
<1>13. ASSUME NEW c \in Caller, Stop(c) PROVE SvInv'
  BY <1>13, StopInv
<1>14. ASSUME NEW c \in Caller, Signal(c) PROVE SvInv'
  BY <1>14, SignalInv
<1>15. ASSUME NEW c \in Caller, StopClears(c) PROVE SvInv'
  BY <1>15, StopClearsInv
<1>16. ASSUME NEW c \in Caller, StopFails(c) PROVE SvInv'
  BY <1>16, StopFailsInv
<1>17. ASSUME NEW c \in Caller, RevertBegins(c) PROVE SvInv'
  BY <1>17, RevertBeginsInv
<1>18. ASSUME NEW c \in Caller, RevertRefused(c) PROVE SvInv'
  BY <1>18, RevertRefusedInv
<1>19. ASSUME NEW c \in Caller, RevertStops(c) PROVE SvInv'
  BY <1>19, RevertStopsInv
<1>20. ASSUME NEW c \in Caller, NEW s \in Server, RevertStarts(c, s) PROVE SvInv'
  BY <1>20, RevertStartsInv
<1>21. ASSUME NEW c \in Caller, RevertEnds(c) PROVE SvInv'
  BY <1>21, RevertEndsInv
<1>22. ASSUME NEW a \in Adapter, DeleteBegins(a) PROVE SvInv'
  BY <1>22, DeleteBeginsInv
<1>23. CASE DeleteLooks
  BY <1>23, DeleteLooksInv
<1>24. CASE DeleteEnds
  BY <1>24, DeleteEndsInv
<1>25. CASE ClaimBenchmark
  BY <1>25, ClaimBenchmarkInv
<1>26. CASE AdmitBenchmark
  BY <1>26, AdmitBenchmarkInv
<1>27. CASE EndBenchmark
  BY <1>27, EndBenchmarkInv
<1>28. CASE UNCHANGED vars
  BY <1>28 DEF vars, SvInv, TypeOK, PhaseAgrees, SlotAgrees, ReservationHasOwner, SlotIsHeld,
     PathIsKept, GoodIsKept, CommandsAgree, BenchmarkSeesSlot, Named, Present
<1>29. QED
  BY <1>1, <1>2, <1>3, <1>4, <1>5, <1>6, <1>7, <1>8, <1>9, <1>10, <1>11, <1>12,
   <1>13, <1>14, <1>15, <1>16, <1>17, <1>18, <1>19, <1>20, <1>21, <1>22, <1>23, <1>24,
   <1>25, <1>26, <1>27, <1>28 DEF Next, StartCommand, Reader, HealthCheck,
     StopCommand, Revert

\* The invariant holds throughout, for any servers, adapters, requests and commands.
THEOREM ServingInvariant == Spec => []SvInv
BY SvInitInv, SvNextInv, PTL DEF Spec

\* SlotIsSound: outside the gap of the reader there is one server at a time and
\* the benchmark measures beside none; a reservation always has its start
\* command (start_model_serving, claim_benchmark_reservation).
THEOREM SlotAlwaysSound == Spec => []SlotIsSound
<1>1. SvInv => OneServer
  BY DEF SvInv, SlotIsHeld, OneServer
<1>2. SvInv => BenchmarkRunsAlone
  BY NamesDiffer DEF SvInv, SlotIsHeld, BenchmarkSeesSlot, BenchmarkRunsAlone
<1>3. SvInv => TypeOK /\ ReservationHasOwner
  BY DEF SvInv, SlotAgrees
<1>4. QED
  BY <1>1, <1>2, <1>3, ServingInvariant, PTL DEF SlotIsSound

\* ServedAdapterKept: the adapter of a live server is on disk if its reservation
\* named it (is_adapter_safe_to_delete, remove_adapter_checkpoint).
THEOREM ServedAdapterAlwaysKept == Spec => []ServedAdapterKept
<1>1. ASSUME SvInv, ~wiped, NEW s \in Server, child[s] = "alive", Named(s)
      PROVE  Present(Effective(req[s]))
  <2>1. slot.owner = s
    BY <1>1 DEF SvInv, SlotIsHeld
  <2>2. pc[s] # "reserved"
    BY <1>1 DEF SvInv, PhaseAgrees
  <2>3. QED
    BY <1>1, <2>1, <2>2 DEF SvInv, PathIsKept
<1>2. SvInv => ServedAdapterKept
  BY <1>1 DEF ServedAdapterKept, Named
<1>3. QED
  BY <1>2, ServingInvariant, PTL

\* RevertIsSafe: the adapter a revert goes back to is on disk, though a deletion
\* looks at the slot and at the last known good under two locks, and no revert
\* stops the server that another one has just started (is_adapter_safe_to_delete,
\* claim_revert_reservation).
THEOREM RevertAlwaysSafe == Spec => []RevertIsSafe
<1>1. SvInv => RevertTargetExists
  BY DEF SvInv, GoodIsKept, RevertTargetExists
<1>2. SvInv => RevertsDoNotFight
  BY DEF SvInv, CommandsAgree, RevertsDoNotFight
<1>3. QED
  BY <1>1, <1>2, ServingInvariant, PTL DEF RevertIsSafe

\* A reader that is through with a server that crashed unasked has said so.
LEMMA StepReportsCrash ==
  ASSUME SvInv, [Next]_vars, NEW s \in Server,
         ~wiped, s \notin asked, exit[s] = "bad", pc[s] # "over", pc'[s] = "over"
  PROVE  lastError' = "bad"
<1>1. child[s] = "dead" /\ pc[s] \notin {"idle", "admitted", "reserved"}
  BY DEF SvInv, PhaseAgrees
<1>2. ASSUME NEW t \in Server, ReaderChecks(t) PROVE FALSE
  BY <1>1, <1>2 DEF SvInv, TypeOK, SlotIsHeld, ReaderChecks, goto
<1>3. ASSUME NEW t \in Server, ReaderReports(t) PROVE lastError' = "bad"
  BY <1>1, <1>3 DEF SvInv, TypeOK, ReaderReports, goto
<1>4. ASSUME NEW t \in Server, NEW r \in Requests, Start(t, r) PROVE FALSE
  BY <1>1, <1>4 DEF SvInv, TypeOK, Start, Enter, goto
<1>5. ASSUME NEW c \in Caller, NEW t \in Server, RevertStarts(c, t) PROVE FALSE
  BY <1>1, <1>5 DEF SvInv, TypeOK, RevertStarts, Enter, goto
<1>6. ASSUME NEW t \in Server, StartCommand(t) PROVE FALSE
  BY <1>1, <1>6 DEF SvInv, TypeOK, StartCommand, Reserve, StartFails, Spawn, PublishSlot,
     Started, goto
<1>7. ASSUME NEW t \in Server, ReaderClears(t) PROVE FALSE
  BY <1>1, <1>7 DEF SvInv, TypeOK, ReaderClears, goto
<1>8. CASE UNCHANGED pc
  BY <1>8
<1>9. QED
  BY <1>2, <1>3, <1>4, <1>5, <1>6, <1>7, <1>8 DEF Next, vars, Reader, ServerExits, HealthCheck,
     HealthPasses,
     Record, Stop, StopCommand, Signal, StopClears, StopFails, RevertBegins, Revert, RevertRefused,
     RevertStops, RevertEnds, DeleteBegins, DeleteLooks, DeleteEnds, ClaimBenchmark, AdmitBenchmark, EndBenchmark

\* CrashIsReported: a server that crashed unasked, outside the gap of the reader,
\* is what the last error tells of when its reader is through (run_serving_reader).
THEOREM CrashAlwaysReported == Spec => CrashIsReported
<1>1. SvInv /\ [Next]_vars =>
        [\A s \in Server :
           ~wiped /\ s \notin asked /\ exit[s] = "bad" /\ pc[s] # "over" /\ pc'[s] = "over"
             => lastError' = "bad"]_vars
  BY StepReportsCrash
<1>2. QED
  BY <1>1, ServingInvariant, PTL DEF Spec, CrashIsReported
=============================================================================
