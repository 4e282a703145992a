--------------------------- MODULE OrphanMarkers ---------------------------
\* The markers the program leaves beside the trainers and servers it starts,
\* and what a later instance of the program makes of them: the scan for
\* orphans and the termination of one of them.
\*
\* Several instances of the program share the home directory and the pids of
\* the machine. The kernel gives a pid out again once its process has been
\* waited for and no process group carries its number. Births tell processes
\* apart: the model has no two processes of one pid with one start time, where
\* the code compares seconds. The pid of a dead instance is not reused.
EXTENDS Naturals, FiniteSets

CONSTANTS App,      \* instances of the program, in any order of starting
          Pid,      \* pids the kernel gives out, positive
          Looking,  \* bound: the instances in which somebody looks for orphans
          MaxBirth, \* bound on the processes born
          Nobody    \* no instance: the owner of a marker that names none

ASSUME OrphanMarkersAssumption ==
  /\ Nobody \notin App /\ Looking \subseteq App
  /\ MaxBirth \in Nat \ {0}
  /\ Pid \subseteq Nat \ {0}

Kind == {"training", "serving"}
NoProc == [birth |-> 0, kind |-> "free"]
NoMark == [owner |-> Nobody, birth |-> 0, there |-> FALSE]
NoKid == [pid |-> 0, birth |-> 0, kind |-> "free"]
NoStrike == [birth |-> 0, kind |-> "free", knew |-> FALSE, ours |-> FALSE]
QuietOp == [pc |-> "idle", pid |-> 0, tracked |-> {}, todo |-> {}, at |-> <<"serving", 0>>,
            read |-> NoMark, found |-> NoMark, kind |-> "free", group |-> 0, known |-> {}]

VARIABLES
  live,     \* instances that run
  proc,     \* pid -> the process that has it
  group,    \* pid -> birth of the leader whose group has a child, 0 if none
  births,   \* processes born so far
  mark,     \* <<kind, pid>> -> the marker file
  kid,      \* instance -> its own child
  stage,    \* instance -> how far it is with that child
  slot,     \* instance -> pid in its training or serving slot, 0 if none
  op,       \* instance -> its scan or termination
  origin,   \* ghost: birth -> the instance that spawned it and its kind
  written,  \* ghost: births whose marker was written
  struck,   \* ghost: the process last signalled, and what was known of it
  snatched  \* ghost: births whose marker another one's clean-up removed
omVars == <<live, proc, group, births, mark, kid, stage, slot, op, origin, written, struck, snatched>>

Mark == Kind \X Pid
Free(p) == proc[p] = NoProc /\ group[p] = 0
\* signal 0 reaches a process, or, for a group, any member of it.
PidAlive(p) == p # 0 /\ proc[p] # NoProc
GroupAlive(p) == group[p] # 0 \/ (proc[p] # NoProc /\ proc[p].kind = "training")
StartTime(p) == proc[p].birth

OmInit ==
  /\ live = App /\ births = 1
  /\ group = [p \in Pid |-> 0]
  /\ kid = [a \in App |-> NoKid] /\ stage = [a \in App |-> "idle"]
  /\ slot = [a \in App |-> 0] /\ op = [a \in App |-> QuietOp]
  /\ written = {} /\ struck = NoStrike /\ snatched = {}
  \* A server left by an older version, whose marker is a bare pid, or nothing.
  /\ \E p \in Pid, old \in BOOLEAN :
       /\ proc = [q \in Pid |-> IF old /\ q = p THEN [birth |-> 1, kind |-> "serving"] ELSE NoProc]
       /\ mark = [m \in Mark |-> IF old /\ m = <<"serving", p>>
                                   THEN [NoMark EXCEPT !.there = TRUE] ELSE NoMark]
  /\ origin = [b \in 1 .. MaxBirth |-> [app |-> Nobody, kind |-> "serving"]]

-----------------------------------------------------------------------------
\* The machine.

Born(p, a, k) ==
  /\ births < MaxBirth /\ Free(p)
  /\ births' = births + 1
  /\ proc' = [proc EXCEPT ![p] = [birth |-> births', kind |-> k]]
  /\ origin' = [origin EXCEPT ![births'] = [app |-> a, kind |-> k]]

\* A process of somebody else takes a free pid.
StrangerBorn(p) ==
  /\ Born(p, Nobody, "other")
  /\ UNCHANGED <<live, group, mark, kid, stage, slot, op, written, struck, snatched>>

\* A waiting parent still holds the pid of a dead child: its exit and its
\* wait are one step, Reap.
HeldByParent(p) == \E a \in live : stage[a] \in {"spawned", "marked"} /\ kid[a].pid = p

\* A process without a waiting parent ends; a trainer's child may outlive it.
Ends(p) ==
  /\ PidAlive(p) /\ ~HeldByParent(p)
  /\ proc' = [proc EXCEPT ![p] = NoProc]
  /\ UNCHANGED <<live, group, births, mark, kid, stage, slot, op, origin, written, struck, snatched>>

\* The wrapper starts the training proper in its group. The children of one
\* leader are not told apart.
GroupForks(p) ==
  /\ proc[p].kind = "training" /\ group[p] = 0
  /\ group' = [group EXCEPT ![p] = proc[p].birth]
  /\ UNCHANGED <<live, proc, births, mark, kid, stage, slot, op, origin, written, struck, snatched>>

GroupEnds(p) ==
  /\ group[p] # 0
  /\ group' = [group EXCEPT ![p] = 0]
  /\ UNCHANGED <<live, proc, births, mark, kid, stage, slot, op, origin, written, struck, snatched>>

\* An instance dies: its slot goes with it, its child and its markers stay.
AppDies(a) ==
  /\ a \in live
  /\ live' = live \ {a}
  /\ kid' = [kid EXCEPT ![a] = NoKid] /\ stage' = [stage EXCEPT ![a] = "idle"]
  /\ slot' = [slot EXCEPT ![a] = 0] /\ op' = [op EXCEPT ![a] = QuietOp]
  /\ UNCHANGED <<proc, group, births, mark, origin, written, struck, snatched>>

-----------------------------------------------------------------------------
\* An instance and its own child.

\* The spawn and, with no wait in between, the pid in the slot.
Spawn(a, p, k) ==
  /\ a \in live /\ stage[a] = "idle"
  /\ Born(p, a, k)
  /\ kid' = [kid EXCEPT ![a] = [pid |-> p, birth |-> births', kind |-> k]]
  /\ slot' = [slot EXCEPT ![a] = p]
  /\ stage' = [stage EXCEPT ![a] = "spawned"]
  /\ UNCHANGED <<live, group, mark, op, written, struck, snatched>>

\* write_pid_marker: the start time is the process's own, since its pid is
\* held; the rename replaces what an earlier run left there. It may fail.
WriteMarker(a) ==
  LET k == kid[a] IN
  /\ stage[a] = "spawned"
  /\ \/ /\ mark' = [mark EXCEPT ![<<k.kind, k.pid>>] = [owner |-> a, birth |-> k.birth, there |-> TRUE]]
        /\ written' = written \cup {k.birth}
     \/ UNCHANGED <<mark, written>>
  /\ stage' = [stage EXCEPT ![a] = "marked"]
  /\ UNCHANGED <<live, proc, group, births, kid, slot, op, origin, struck, snatched>>

\* child.wait() of a reader returns: the pid is free for anyone.
Reap(a) ==
  /\ stage[a] = "marked"
  /\ proc' = [proc EXCEPT ![kid[a].pid] = NoProc]
  /\ stage' = [stage EXCEPT ![a] = "waited"]
  /\ UNCHANGED <<live, group, births, mark, kid, slot, op, origin, written, struck, snatched>>

\* What removing a marker by its path takes from whoever it belongs to now.
Snatches(m, b) == snatched \cup (IF mark[m].there /\ mark[m].birth # b THEN {mark[m].birth} ELSE {})

\* remove_pid_marker of a reader, and the slot: a server's is cleared, a
\* trainer's keeps its pid with a final status.
RemoveMarker(a) ==
  LET m == <<kid[a].kind, kid[a].pid>> IN
  /\ stage[a] = "waited"
  /\ mark' = [mark EXCEPT ![m] = NoMark]
  /\ snatched' = Snatches(m, kid[a].birth)
  /\ slot' = IF kid[a].kind = "serving" THEN [slot EXCEPT ![a] = 0] ELSE slot
  /\ stage' = [stage EXCEPT ![a] = "idle"]
  /\ kid' = [kid EXCEPT ![a] = NoKid]
  /\ UNCHANGED <<live, proc, group, births, op, origin, written, struck>>
-----------------------------------------------------------------------------
\* scan_orphaned_mlx_processes and terminate_orphaned_mlx_process: one at a
\* time in an instance, whose card disables its buttons meanwhile.

Goes(a, r) == op' = [op EXCEPT ![a] = r]
Tracked(a) == {slot[a]} \ {0}
Marked(p) == {mark[<<k, p>>].birth : k \in Kind} \ {0}

\* The slots' pids are copied first; pid 0 asks for a scan only.
BeginScan(a, p) ==
  /\ a \in live \cap Looking /\ op[a].pc = "idle"
  /\ Goes(a, [QuietOp EXCEPT !.pc = "scan", !.pid = p, !.tracked = Tracked(a),
                             !.todo = Mark, !.known = IF p = 0 THEN {} ELSE Marked(p)])
  /\ struck' = NoStrike
  /\ UNCHANGED <<live, proc, group, births, mark, kid, stage, slot, origin, written, snatched>>

\* The next file of the directory. Another one's files, links and contents
\* that do not parse are reported and left alone: they are not told apart
\* here from a marker that is not there.
ReadMarker(a) ==
  LET o == op[a] IN
  /\ o.pc = "scan"
  /\ \E m \in o.todo :
       Goes(a, IF ~mark[m].there \/ m[2] \in o.tracked
                 THEN [o EXCEPT !.todo = @ \ {m}]
                 ELSE [o EXCEPT !.todo = @ \ {m}, !.pc = "identify", !.at = m, !.read = mark[m]])
  /\ UNCHANGED <<live, proc, group, births, mark, kid, stage, slot, origin, written, struck, snatched>>

\* A dead process's marker goes; a live instance looks after its own; a
\* start time that differs is reported, the marker kept. A legacy marker has
\* no start time to compare.
Identified(a, p, r) ==
  IF ~PidAlive(p) THEN "remove"
  ELSE IF r.owner \in live \ {a} \/ (r.birth # 0 /\ StartTime(p) # r.birth) THEN "scan"
  ELSE "classify"

Identify(a) ==
  LET o == op[a] IN
  /\ o.pc = "identify"
  /\ Goes(a, [o EXCEPT !.pc = Identified(a, o.at[2], o.read)])
  /\ UNCHANGED <<live, proc, group, births, mark, kid, stage, slot, origin, written, struck, snatched>>

\* Mutant of Classes: an argv that cannot be read is not MLX's.
ClassesGuessing(p) == IF PidAlive(p) /\ proc[p].kind \in Kind THEN {"mlx", "not_mlx"} ELSE {"not_mlx"}

\* classify_mlx_argv of the pid's argv; a dead one's, or one that cannot be
\* read, is unverifiable and still listed.
Classes(p) == IF ~PidAlive(p) THEN {"unverifiable"}
              ELSE {"unverifiable", IF proc[p].kind \in Kind THEN "mlx" ELSE "not_mlx"}

Classify(a) ==
  LET o == op[a] IN
  /\ o.pc = "classify"
  /\ \E c \in Classes(o.at[2]) :
       Goes(a, CASE c = "not_mlx" -> [o EXCEPT !.pc = "remove"]
                 [] o.at[2] = o.pid /\ o.kind = "free" ->
                      [o EXCEPT !.pc = "scan", !.kind = o.at[1], !.found = o.read]
                 [] OTHER -> [o EXCEPT !.pc = "scan"])
  /\ UNCHANGED <<live, proc, group, births, mark, kid, stage, slot, origin, written, struck, snatched>>

RemoveStale(a) ==
  LET o == op[a] IN
  /\ o.pc = "remove"
  /\ mark' = [mark EXCEPT ![o.at] = NoMark]
  /\ snatched' = Snatches(o.at, o.read.birth)
  /\ Goes(a, [o EXCEPT !.pc = "scan"])
  /\ UNCHANGED <<live, proc, group, births, kid, stage, slot, origin, written, struck>>

\* The scan is over: a termination goes on with the orphan it found, when its
\* argv still is MLX's and its marker has a start time.
ScanEnds(a) ==
  LET o == op[a] IN
  /\ o.pc = "scan" /\ o.todo = {}
  /\ Goes(a, IF o.pid # 0 /\ o.kind # "free" /\ "mlx" \in Classes(o.pid) /\ o.found.birth # 0
               THEN [o EXCEPT !.pc = "look"] ELSE QuietOp)
  /\ UNCHANGED <<live, proc, group, births, mark, kid, stage, slot, origin, written, struck, snatched>>

\* terminate_pid: the start time, then the target and the group's members.
Look(a) ==
  LET o == op[a] IN
  /\ o.pc = "look"
  /\ Goes(a, IF StartTime(o.pid) # o.found.birth THEN QuietOp
               ELSE [o EXCEPT !.pc = "term", !.group = IF o.kind = "training" THEN group[o.pid] ELSE 0])
  /\ UNCHANGED <<live, proc, group, births, mark, kid, stage, slot, origin, written, struck, snatched>>

Strike(a, b) ==
  struck' = [birth |-> b, kind |-> origin[b].kind, knew |-> b \in op[a].known,
             ours |-> \E c \in live : kid[c].birth = b]

\* Mutant of Term: the start time was compared a step earlier, which will do.
TermUnchecked(a) ==
  LET o == op[a] IN
  /\ o.pc = "term"
  /\ Goes(a, [o EXCEPT !.pc = "wait"])
  /\ IF PidAlive(o.pid) THEN Strike(a, proc[o.pid].birth) ELSE UNCHANGED struck
  /\ UNCHANGED <<live, proc, group, births, mark, kid, stage, slot, origin, written, snatched>>

\* SIGTERM, in one breath with a second look at the start time.
Term(a) ==
  LET o == op[a] IN
  /\ o.pc = "term"
  /\ IF StartTime(o.pid) # o.found.birth
       THEN Goes(a, QuietOp) /\ UNCHANGED struck
       ELSE Goes(a, [o EXCEPT !.pc = "wait"]) /\ Strike(a, proc[o.pid].birth)
  /\ UNCHANGED <<live, proc, group, births, mark, kid, stage, slot, origin, written, snatched>>

\* A second later: what is left of the target.
TargetAlive(o) == PidAlive(o.pid) \/ (o.kind = "training" /\ GroupAlive(o.pid))
\* surviving_training_group_witness: the leader is gone, a member stayed.
Witness(o) == o.kind = "training" /\ ~PidAlive(o.pid) /\ o.group # 0 /\ group[o.pid] = o.group

Recheck(a) ==
  LET o == op[a] IN
  /\ o.pc = "wait"
  \* The argv of the leader, or of the witness, can be read or not.
  /\ \E readable \in BOOLEAN : Goes(a, CASE ~TargetAlive(o) -> [o EXCEPT !.pc = "exit"]
               [] TargetAlive(o) /\ readable /\ Witness(o) -> [o EXCEPT !.pc = "kill_group"]
               [] TargetAlive(o) /\ readable /\ ~Witness(o) /\ StartTime(o.pid) = o.found.birth
                                 /\ "mlx" \in Classes(o.pid) -> [o EXCEPT !.pc = "kill"]
               [] OTHER -> QuietOp)
  /\ UNCHANGED <<live, proc, group, births, mark, kid, stage, slot, origin, written, struck, snatched>>

\* SIGKILL, in one breath with a last look at the leader or the witness.
Kill(a) ==
  LET o == op[a] p == o.pid
      sure == \/ o.pc = "kill" /\ StartTime(p) = o.found.birth
              \/ o.pc = "kill_group" /\ Witness(o)
      whole == o.kind = "training" /\ group[p] # 0 IN
  /\ o.pc \in {"kill", "kill_group"}
  /\ IF sure
       THEN /\ Goes(a, [o EXCEPT !.pc = "exit"])
            /\ Strike(a, IF o.pc = "kill" THEN proc[p].birth ELSE group[p])
            /\ proc' = IF HeldByParent(p) THEN proc ELSE [proc EXCEPT ![p] = NoProc]
            /\ group' = IF whole THEN [group EXCEPT ![p] = 0] ELSE group
       ELSE Goes(a, QuietOp) /\ UNCHANGED <<proc, group, struck>>
  /\ UNCHANGED <<live, births, mark, kid, stage, slot, origin, written, snatched>>

\* The pid is polled for some three seconds: gone, or the command fails.
AwaitExit(a) ==
  LET o == op[a] IN
  /\ o.pc = "exit"
  /\ Goes(a, IF PidAlive(o.pid) THEN QuietOp ELSE [o EXCEPT !.pc = "unlink"])
  /\ UNCHANGED <<live, proc, group, births, mark, kid, stage, slot, origin, written, struck, snatched>>

\* The marker goes and a fresh scan is answered.
Unlink(a) ==
  LET o == op[a] m == <<o.kind, o.pid>> IN
  /\ o.pc = "unlink"
  /\ mark' = [mark EXCEPT ![m] = NoMark]
  /\ snatched' = Snatches(m, o.found.birth)
  /\ Goes(a, [QuietOp EXCEPT !.pc = "scan", !.tracked = Tracked(a), !.todo = Mark])
  /\ UNCHANGED <<live, proc, group, births, kid, stage, slot, origin, written, struck>>

OmNext ==
  \/ \E p \in Pid : StrangerBorn(p) \/ Ends(p) \/ GroupForks(p) \/ GroupEnds(p)
  \/ \E a \in App, p \in Pid, k \in Kind : Spawn(a, p, k)
  \/ \E a \in App, p \in Pid \cup {0} : BeginScan(a, p)
  \/ \E a \in App :
       \/ AppDies(a) \/ WriteMarker(a) \/ Reap(a) \/ RemoveMarker(a)
       \/ ReadMarker(a) \/ Identify(a) \/ Classify(a) \/ RemoveStale(a) \/ ScanEnds(a)
       \/ Look(a) \/ Term(a) \/ Recheck(a) \/ Kill(a) \/ AwaitExit(a) \/ Unlink(a)

OmSpec == OmInit /\ [][OmNext]_omVars

-----------------------------------------------------------------------------
\* A termination signals MLX processes only, and, among those whose marker
\* was there when it took its copy of the slots, none that a running instance
\* still waits for. (A marker that appears later may be of an own child that
\* took over the pid while the command ran.)
OnlyOrphansAreStruck ==
  struck # NoStrike => struck.kind \in Kind /\ ~(struck.knew /\ struck.ours)

\* A process that outlives its program keeps the marker by which the next
\* instance finds it. What is excepted: a marker that was never written, one
\* that a stranger to the process removed by its path, and one that a later
\* process's marker replaced.
Orphan(p) == proc[p].kind \in Kind /\ origin[proc[p].birth].app \notin live \cup {Nobody}
OrphanKeepsMarker ==
  \A p \in Pid : Orphan(p) /\ proc[p].birth \in written \ snatched =>
                   LET m == mark[<<proc[p].kind, p>>] IN m.there /\ m.birth = proc[p].birth
=============================================================================
