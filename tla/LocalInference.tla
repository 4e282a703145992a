----------------------------- MODULE LocalInference -----------------------------
(***************************************************************************)
(* commands/local_inference.rs: the one oMLX process the program manages,  *)
(* with its exit evidence. The slot is looked at first and written after   *)
(* several awaits; one mark tells which process a stop is about to end.    *)
(***************************************************************************)
EXTENDS Naturals

CONSTANTS Omlx,    \* oMLX processes, each with a pid of its own
          LiCall,  \* start_ and stop_local_inference_runtime calls
          NoOmlx   \* no process

ASSUME NobodyIsOmlx == NoOmlx \notin Omlx

VARIABLES
  managed,   \* LocalInferenceState.managed
  stopping,  \* LocalInferenceState.stopping_pid
  lastExit,  \* LocalInferenceState.last_exit: pid, expected_stop
  omlx,      \* each process
  watcher,   \* the task that waits for each process
  liCall,    \* each command
  liAsked,     \* history: processes a stop command marked
  signalled, \* history: processes that ran when they got its SIGTERM
  unmarked,  \* history: processes whose mark a start or another stop removed
  liCrossed  \* history: two starts overlapped

liVars == <<managed, stopping, lastExit, omlx, watcher, liCall, liAsked, signalled, unmarked, liCrossed>>

NoExit == [pid |-> NoOmlx, expected |-> FALSE]
IdleLi == [pc |-> "idle", pid |-> NoOmlx]
Running(p) == p \in Omlx /\ omlx[p] = "running"

LiInit ==
  /\ managed = NoOmlx /\ stopping = NoOmlx /\ lastExit = NoExit
  /\ omlx = [p \in Omlx |-> "new"]
  /\ watcher = [p \in Omlx |-> "off"]
  /\ liCall = [c \in LiCall |-> IdleLi]
  /\ liAsked = {} /\ signalled = {} /\ unmarked = {} /\ liCrossed = FALSE

liGoes(c, pc, p) == liCall' = [liCall EXCEPT ![c] = [pc |-> pc, pid |-> p]]
----------------------------------------------------------------------------
(* managed_process: a process that is not running any more leaves the slot. *)
Seen == IF Running(managed) THEN managed ELSE NoOmlx

(* get_local_inference_status *)
LiStatus ==
  /\ managed' = Seen
  /\ UNCHANGED <<stopping, lastExit, omlx, watcher, liCall, liAsked, signalled, unmarked, liCrossed>>

(* start: the slot is looked at, the port is probed, the command is built. *)
LiStartBegin(c) ==
  /\ liCall[c].pc = "idle" /\ Seen = NoOmlx
  /\ managed' = Seen
  /\ liGoes(c, "starting", NoOmlx)
  /\ liCrossed' = (liCrossed \/ \E d \in LiCall : liCall[d].pc = "starting")
  /\ UNCHANGED <<stopping, lastExit, omlx, watcher, liAsked, signalled, unmarked>>

(* Something answers on the port, or the command cannot be built. *)
LiStartRefused(c) ==
  /\ liCall[c].pc = "starting" /\ liGoes(c, "idle", NoOmlx)
  /\ UNCHANGED <<managed, stopping, lastExit, omlx, watcher, liAsked, signalled, unmarked, liCrossed>>

LiSpawn(c, p) ==
  /\ liCall[c].pc = "starting" /\ omlx[p] = "new"
  /\ omlx' = [omlx EXCEPT ![p] = "running"]
  /\ managed' = p
  /\ liGoes(c, "spawned", p)
  /\ UNCHANGED <<stopping, lastExit, watcher, liAsked, signalled, unmarked, liCrossed>>

(* The mark of an earlier stop is removed, and the watcher is started. *)
LiWatch(c) ==
  LET p == liCall[c].pid IN
  /\ liCall[c].pc = "spawned"
  /\ stopping' = NoOmlx
  /\ unmarked' = unmarked \cup ({stopping} \ {NoOmlx})
  /\ watcher' = [watcher EXCEPT ![p] = "waiting"]
  /\ liGoes(c, "idle", NoOmlx)
  /\ UNCHANGED <<managed, lastExit, omlx, liAsked, signalled, liCrossed>>

OmlxExits(p) ==
  /\ Running(p) /\ omlx' = [omlx EXCEPT ![p] = "gone"]
  /\ UNCHANGED <<managed, stopping, lastExit, watcher, liCall, liAsked, signalled, unmarked, liCrossed>>

\* Mutant of WatcherTakes: whichever process the mark is for.
WatcherTakesAny(p) ==
  /\ watcher[p] = "waiting" /\ omlx[p] = "gone"
  /\ watcher' = [watcher EXCEPT ![p] = IF stopping # NoOmlx THEN "expected" ELSE "unexpected"]
  /\ stopping' = NoOmlx
  /\ UNCHANGED <<managed, lastExit, omlx, liCall, liAsked, signalled, unmarked, liCrossed>>

(* The watcher: was the exit asked for, the evidence, the slot. *)
WatcherTakes(p) ==
  /\ watcher[p] = "waiting" /\ omlx[p] = "gone"
  /\ watcher' = [watcher EXCEPT ![p] = IF stopping = p THEN "expected" ELSE "unexpected"]
  /\ stopping' = IF stopping = p THEN NoOmlx ELSE stopping
  /\ UNCHANGED <<managed, lastExit, omlx, liCall, liAsked, signalled, unmarked, liCrossed>>

WatcherRecords(p) ==
  /\ watcher[p] \in {"expected", "unexpected"}
  /\ lastExit' = [pid |-> p, expected |-> watcher[p] = "expected"]
  /\ watcher' = [watcher EXCEPT ![p] = "recorded"]
  /\ UNCHANGED <<managed, stopping, omlx, liCall, liAsked, signalled, unmarked, liCrossed>>

\* Mutant of WatcherClears: the pid is not compared.
WatcherClearsAny(p) ==
  /\ watcher[p] = "recorded"
  /\ managed' = NoOmlx
  /\ watcher' = [watcher EXCEPT ![p] = "done"]
  /\ UNCHANGED <<stopping, lastExit, omlx, liCall, liAsked, signalled, unmarked, liCrossed>>

\* Mutant of WatcherClears: the exit is recorded and the slot is left as it is.
WatcherForgets(p) ==
  /\ watcher[p] = "recorded"
  /\ watcher' = [watcher EXCEPT ![p] = "done"]
  /\ UNCHANGED <<managed, stopping, lastExit, omlx, liCall, liAsked, signalled, unmarked, liCrossed>>

WatcherClears(p) ==
  /\ watcher[p] = "recorded"
  /\ managed' = IF managed = p THEN NoOmlx ELSE managed
  /\ watcher' = [watcher EXCEPT ![p] = "done"]
  /\ UNCHANGED <<stopping, lastExit, omlx, liCall, liAsked, signalled, unmarked, liCrossed>>

(* stop: the slot, the mark, the signal, and up to five seconds of waiting. *)
LiStopBegin(c) ==
  /\ liCall[c].pc = "idle" /\ Seen # NoOmlx
  /\ managed' = Seen
  /\ liGoes(c, "mark", Seen)
  /\ UNCHANGED <<stopping, lastExit, omlx, watcher, liAsked, signalled, unmarked, liCrossed>>

LiStopMarks(c) ==
  /\ liCall[c].pc = "mark"
  /\ stopping' = liCall[c].pid
  /\ unmarked' = unmarked \cup ({stopping} \ {NoOmlx, liCall[c].pid})
  /\ liAsked' = liAsked \cup {liCall[c].pid}
  /\ liGoes(c, "signal", liCall[c].pid)
  /\ UNCHANGED <<managed, lastExit, omlx, watcher, signalled, liCrossed>>

(* SIGTERM; the process may take its time or ignore it. It fails when the *)
(* process is gone, and then any mark is removed.                         *)
LiStopSignals(c) ==
  /\ liCall[c].pc = "signal"
  /\ \/ /\ Running(liCall[c].pid) /\ liGoes(c, "wait", liCall[c].pid)
        /\ signalled' = signalled \cup {liCall[c].pid}
        /\ UNCHANGED <<stopping, unmarked>>
     \/ /\ ~Running(liCall[c].pid) /\ liGoes(c, "idle", NoOmlx)
        /\ unmarked' = unmarked \cup ({stopping} \ {NoOmlx})
        /\ stopping' = NoOmlx /\ UNCHANGED signalled
  /\ UNCHANGED <<managed, lastExit, omlx, watcher, liAsked, liCrossed>>

LiStopEnds(c) ==
  /\ liCall[c].pc = "wait" /\ liGoes(c, "idle", NoOmlx)
  /\ UNCHANGED <<managed, stopping, lastExit, omlx, watcher, liAsked, signalled, unmarked, liCrossed>>
----------------------------------------------------------------------------
WatcherStep(p) == WatcherTakes(p) \/ WatcherRecords(p) \/ WatcherClears(p)
LiCallStep(c) == \/ LiStartRefused(c) \/ (\E p \in Omlx : LiSpawn(c, p)) \/ LiWatch(c)
                 \/ LiStopMarks(c) \/ LiStopSignals(c) \/ LiStopEnds(c)

LiNext ==
  \/ LiStatus
  \/ \E c \in LiCall : LiStartBegin(c) \/ LiStopBegin(c) \/ LiCallStep(c)
  \/ \E p \in Omlx : OmlxExits(p) \/ WatcherStep(p)

LiFairness ==
  /\ \A p \in Omlx : WF_liVars(WatcherStep(p))
  /\ \A c \in LiCall : WF_liVars(LiCallStep(c))

LiSpec == LiInit /\ [][LiNext]_liVars /\ LiFairness
----------------------------------------------------------------------------
(* As long as two starts never overlapped, an oMLX process that runs is the  *)
(* one in the slot: whoever dies, is stopped or is replaced meanwhile, none  *)
(* is forgotten, and no late watcher empties the slot of its successor.      *)
RuntimeIsOwned == ~liCrossed => \A p \in Omlx : Running(p) => managed = p

(* The evidence of an exit tells a stop from a crash: expected means that a  *)
(* stop asked for it, and a process that a stop ended is reported as crashed *)
(* only when another command removed the mark meanwhile.                     *)
ExitEvidenceIsTrue ==
  LET p == lastExit.pid IN
  p # NoOmlx => /\ lastExit.expected => p \in liAsked
                /\ (~lastExit.expected /\ p \in signalled) => p \in unmarked

(* A process that ended leaves the slot, although no one asks for it. *)
DeadRuntimeLeavesSlot ==
  \A p \in Omlx : (omlx[p] = "gone") ~> (managed # p)
=============================================================================
