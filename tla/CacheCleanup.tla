------------------------------- MODULE CacheCleanup -------------------------------
(***************************************************************************)
(* commands/local_inference_cache.rs and the card that calls it            *)
(* (LocalInferenceOpsCard.tsx): the preview and the removal of expired     *)
(* cache files by a walk over the directory tree, while the oMLX runtime   *)
(* may be started and may write to the very cache.                         *)
(***************************************************************************)
EXTENDS Naturals, FiniteSets, Sequences

CONSTANTS
  Node,       \* entries of the tree
  Root,       \* the directory that is cleaned
  Above,      \* the directory each other entry is in
  NodeKind,   \* "dir", "file" or "link" of each entry
  RootAnswer  \* what the file system tells of the path given

ASSUME CacheCleanupAssumption ==
  /\ Root \in Node /\ NodeKind[Root] = "dir"
  /\ \A n \in Node \ {Root} : Above[n] \in Node /\ NodeKind[Above[n]] = "dir"
  /\ RootAnswer \in [underHome : BOOLEAN, isHome : BOOLEAN, cacheNamed : BOOLEAN]

VARIABLES
  present,   \* entries there now
  fresh,     \* files modified since the cutoff
  runtimeUp, \* the managed runtime runs
  shownUp,   \* the card's managedRunning, of its last refresh
  preview,   \* the card's preview: 0 none, else 1 + the candidates it counted
  walk,      \* the walk: dry run or not, the open directories, the counts
  looked,    \* the file whose metadata the walk holds
  touched    \* history: the file was written between the look and the removal

ccVars == <<present, fresh, runtimeUp, shownUp, preview, walk, looked, touched>>

NoWalk == [on |-> FALSE, dry |-> TRUE, open |-> <<>>, candidates |-> 0,
           removed |-> 0, removedDirs |-> 0, errors |-> 0]
NotLooking == [on |-> FALSE, node |-> Root]
CacheFiles == {n \in Node : NodeKind[n] = "file"}
Children(d) == {n \in Node \ {Root} : Above[n] = d}
Here(d) == Children(d) \cap present

CcInit ==
  /\ present \in {p \in SUBSET Node : Root \in p /\ \A n \in p \ {Root} : Above[n] \in p}
  /\ fresh \in SUBSET (present \cap CacheFiles)
  /\ runtimeUp = FALSE /\ shownUp = FALSE
  /\ preview = 0 /\ walk = NoWalk /\ looked = NotLooking /\ touched = FALSE
----------------------------------------------------------------------------
(* expand_and_validate_home_path, validate_cleanup_root. *)
Accepted == RootAnswer.underHome /\ ~RootAnswer.isHome /\ RootAnswer.cacheNamed

(* The card: preview when the runtime is not shown as running, delete when *)
(* a preview has counted something.                                        *)
MayClean(dry) == ~shownUp /\ (dry \/ preview > 1)

RefreshCard ==
  /\ shownUp' = runtimeUp
  /\ UNCHANGED <<present, fresh, runtimeUp, preview, walk, looked, touched>>

EditPath ==
  /\ preview' = 0
  /\ UNCHANGED <<present, fresh, runtimeUp, shownUp, walk, looked, touched>>

Cleanup(dry) ==
  /\ ~walk.on /\ MayClean(dry) /\ Accepted
  /\ walk' = [NoWalk EXCEPT !.on = TRUE, !.dry = dry, !.open = <<[dir |-> Root, todo |-> Here(Root)]>>]
  /\ UNCHANGED <<present, fresh, runtimeUp, shownUp, preview, looked, touched>>

Top == walk.open[Len(walk.open)]
Below == SubSeq(walk.open, 1, Len(walk.open) - 1)
Taken(n) == Append(Below, [Top EXCEPT !.todo = @ \ {n}])

\* Mutant of Visit: a symbolic link is taken for what it points to.
VisitFollowing(n) ==
  /\ walk.on /\ ~looked.on /\ n \in Top.todo
  /\ walk' =
       IF n \in present /\ NodeKind[n] = "dir"
       THEN [walk EXCEPT !.open = Append(Taken(n), [dir |-> n, todo |-> Here(n)])]
       ELSE [walk EXCEPT !.open = Taken(n), !.candidates = @ + 1]
  /\ looked' = IF n \in present /\ NodeKind[n] # "dir" /\ ~walk.dry
               THEN [on |-> TRUE, node |-> n] ELSE NotLooking
  /\ touched' = FALSE
  /\ UNCHANGED <<present, fresh, runtimeUp, shownUp, preview>>

(* cleanup_tree on one entry: symlink_metadata first, read_dir of a directory. *)
Visit(n) ==
  /\ walk.on /\ ~looked.on /\ n \in Top.todo
  /\ \E readable \in BOOLEAN :
       walk' =
       IF n \notin present \/ (NodeKind[n] = "dir" /\ ~readable)
       THEN [walk EXCEPT !.open = Taken(n), !.errors = @ + 1]
       ELSE IF NodeKind[n] = "dir"
       THEN [walk EXCEPT !.open = Append(Taken(n), [dir |-> n, todo |-> Here(n)])]
       ELSE [walk EXCEPT !.open = Taken(n),
                         !.candidates = IF n \in CacheFiles \ fresh THEN @ + 1 ELSE @]
  /\ looked' = IF n \in (present \cap CacheFiles) \ fresh /\ ~walk.dry
               THEN [on |-> TRUE, node |-> n] ELSE NotLooking
  /\ touched' = FALSE
  /\ UNCHANGED <<present, fresh, runtimeUp, shownUp, preview>>

(* remove_file, which may fail. *)
RemoveFile ==
  /\ looked.on /\ looked' = NotLooking
  /\ \/ /\ looked.node \in present
        /\ present' = present \ {looked.node} /\ fresh' = fresh \ {looked.node}
        /\ walk' = [walk EXCEPT !.removed = @ + 1]
     \/ walk' = [walk EXCEPT !.errors = @ + 1] /\ UNCHANGED <<present, fresh>>
  /\ touched' = FALSE
  /\ UNCHANGED <<runtimeUp, shownUp, preview>>

(* All entries seen: a directory below the root that is empty is removed,  *)
(* and once the root is through the card shows the result.                 *)
RemovesDir(d) == ~walk.dry /\ d # Root /\ Here(d) = {}

CloseDir ==
  LET d == Top.dir IN
  /\ walk.on /\ ~looked.on /\ Top.todo = {}
  /\ \/ /\ RemovesDir(d) /\ present' = present \ {d}
        /\ walk' = [walk EXCEPT !.open = Below, !.removedDirs = @ + 1, !.on = Below # <<>>]
     \/ /\ UNCHANGED present
        /\ walk' = [walk EXCEPT !.open = Below, !.on = Below # <<>>]
  /\ preview' = IF Below # <<>> THEN preview
                ELSE IF walk.dry THEN 1 + walk.candidates ELSE 0
  /\ UNCHANGED <<fresh, runtimeUp, shownUp, looked, touched>>
----------------------------------------------------------------------------
(* The runtime is started from another card, writes its cache, stops. *)
RuntimeToggles ==
  /\ runtimeUp' = ~runtimeUp
  /\ UNCHANGED <<present, fresh, shownUp, preview, walk, looked, touched>>

RuntimeWrites(f) ==
  /\ runtimeUp /\ f \in CacheFiles /\ Above[f] \in present
  /\ present' = present \cup {f} /\ fresh' = fresh \cup {f}
  /\ touched' = (touched \/ (looked.on /\ looked.node = f))
  /\ UNCHANGED <<runtimeUp, shownUp, preview, walk, looked>>

CcNext ==
  \/ RefreshCard \/ EditPath \/ RuntimeToggles
  \/ \E dry \in BOOLEAN : Cleanup(dry)
  \/ \E n \in Node : Visit(n) \/ RuntimeWrites(n)
  \/ RemoveFile \/ CloseDir

CcSpec == CcInit /\ [][CcNext]_ccVars
----------------------------------------------------------------------------
(* A removal loses nothing that is in use: links, the root and whatever is  *)
(* not empty stay, a file written since the cutoff goes only when it was    *)
(* written between the look and the removal, nothing goes in a dry run, and *)
(* no entry is left without the directory it is in.                         *)
LosesNothingInUse ==
  [][\A n \in present \ present' :
        /\ walk.on /\ ~walk.dry
        /\ n # Root /\ NodeKind[n] # "link"
        /\ n \in fresh => touched
        /\ Children(n) \cap present' = {}]_ccVars
=============================================================================
