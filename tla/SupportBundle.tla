----------------------------- MODULE SupportBundle -----------------------------
\* services/support_bundle.rs: a bundle of redacted files with a manifest is
\* written into a directory of its own, and verified offline, later and perhaps
\* elsewhere, while files come, go and change. A file is what a hash tells
\* apart: as it was written, within ("own") or over ("long") the limit that the
\* verification puts on a file, or something else.
EXTENDS Naturals, Sequences

CONSTANTS Log,       \* entries of the log directory
          Unsafe,    \* names check_safe_rel_path refuses, as one with ':'
          Fixed,     \* the files every bundle starts with, in their order
          Extra,     \* a file no bundle lists
          LogKinds,  \* the log directories to start from
          MaxDamage  \* bound: changes made to the bundle by others

Required == {"app_info.json", "health_summary.json"}
FixedName == {Fixed[i] : i \in 1..Len(Fixed)}
Name == FixedName \cup Log \cup {Extra}

ASSUME SupportBundleAssumption ==
  /\ Fixed \in Seq(STRING) /\ \A i, j \in 1..Len(Fixed) : Fixed[i] = Fixed[j] => i = j
  /\ Required \subseteq FixedName /\ FixedName \cap Log = {} /\ Unsafe \subseteq Log
  /\ Extra \notin FixedName \cup Log /\ "logs/" \notin Name

VARIABLES
  logs,     \* kind and content of each log
  gen,      \* create_support_bundle
  bundle,   \* each file of the directory, or "absent"
  manifest, \* its manifest, or NoManifest
  original, \* ghost: manifest and files when the generation ended
  verifier, \* verify_support_bundle_dir
  damages   \* changes made so far
sbVars == <<logs, gen, bundle, manifest, original, verifier, damages>>

NoBundle == [n \in Name |-> "absent"]
NoManifest == [files |-> NoBundle, omitted |-> {"none"}]
NoVerifier == [pc |-> "idle", pinned |-> FALSE, found |-> NoManifest, todo |-> {}, bad |-> FALSE, steady |-> TRUE]

SbInit ==
  /\ logs \in LogKinds
  /\ gen = [pc |-> "idle", at |-> 1, todo |-> {}, omitted |-> {}, files |-> NoBundle, seen |-> {}]
  /\ bundle = NoBundle /\ manifest = NoManifest
  /\ original = [manifest |-> NoManifest, bundle |-> NoBundle]
  /\ verifier = NoVerifier /\ damages = 0

\* A verification under way sees the directory change.
Unsteadies == verifier' = [verifier EXCEPT !.steady = FALSE]
-----------------------------------------------------------------------------
\* Another program rotates a log away between the listing and the read.
Rotate(n) ==
  /\ logs[n] \in {"text", "grows"}
  /\ logs' = [logs EXCEPT ![n] = "gone"]
  /\ UNCHANGED <<gen, bundle, manifest, original, verifier, damages>>

\* collect_log_sources: links are omitted, directories ignored; then
\* create_dir under a name that did not exist.
StartBundle(readable) ==
  /\ gen.pc = "idle"
  /\ LET regular == IF readable THEN {n \in Log : logs[n] \notin {"link", "dir", "gone"}} ELSE {}
         links == IF readable THEN {n \in Log : logs[n] = "link"} ELSE {} IN
     gen' = [gen EXCEPT !.pc = "write", !.todo = regular, !.seen = regular \cup links,
                        !.omitted = IF readable THEN links ELSE {"logs/"}]
  /\ UNCHANGED <<logs, bundle, manifest, original, verifier, damages>>

\* write_bundle_file reads back what it wrote and describes that.
Describe(written, source) == written

Written(n, content, source) ==
  /\ bundle' = [bundle EXCEPT ![n] = content]
  /\ gen' = [gen EXCEPT !.files[n] = Describe(content, source), !.at = @ + 1, !.todo = @ \ {n}]
  /\ Unsteadies

\* app_info, health_summary, capability_matrix.
WriteFixed ==
  /\ gen.pc = "write" /\ gen.at <= Len(Fixed)
  /\ Written(Fixed[gen.at], "own", "raw")
  /\ UNCHANGED <<logs, manifest, original, damages>>

LogsTurn(n) == gen.pc = "write" /\ gen.at > Len(Fixed) /\ n \in gen.todo
Scannable(n) == logs[n] \in {"text", "grows"}

\* The redacted text; only the source was held against the limit.
WriteLog(n) ==
  /\ LogsTurn(n) /\ Scannable(n)
  /\ Written(n, IF logs[n] = "grows" THEN "long" ELSE "own", "raw")
  /\ UNCHANGED <<logs, manifest, original, damages>>

\* Gone, unreadable, too large or not text: omitted, with the reason.
OmitLog(n) ==
  /\ LogsTurn(n) /\ ~Scannable(n)
  /\ gen' = [gen EXCEPT !.todo = @ \ {n}, !.omitted = @ \cup {n}]
  /\ UNCHANGED <<logs, bundle, manifest, original, verifier, damages>>

\* Any error leaves the directory as it is by then.
BundleFails ==
  /\ gen.pc = "write"
  /\ gen' = [gen EXCEPT !.pc = "failed"]
  /\ UNCHANGED <<logs, bundle, manifest, original, verifier, damages>>

WriteBundleManifest ==
  LET m == [files |-> gen.files, omitted |-> gen.omitted] IN
  /\ gen.pc = "write" /\ gen.at > Len(Fixed) /\ gen.todo = {}
  /\ manifest' = m /\ original' = [manifest |-> m, bundle |-> bundle]
  /\ gen' = [gen EXCEPT !.pc = "ok"]
  /\ Unsteadies
  /\ UNCHANGED <<logs, bundle, damages>>
-----------------------------------------------------------------------------
\* A copy, an editor or Finder changes, removes or adds a file of the bundle,
\* or somebody writes a manifest that fits.
Disturbed ==
  /\ gen.pc \in {"ok", "failed"}
  /\ damages < MaxDamage /\ damages' = damages + 1
  /\ Unsteadies

DamageBundle(n, content) ==
  /\ Disturbed /\ bundle[n] # content
  /\ bundle' = [bundle EXCEPT ![n] = content]
  /\ UNCHANGED <<logs, gen, manifest, original>>

Refit ==
  /\ Disturbed
  /\ manifest' = [files |-> bundle, omitted |-> {}]
  /\ UNCHANGED <<logs, gen, bundle, original>>
-----------------------------------------------------------------------------
\* The manifest: there, as pinned if a digest is given, complete.
ReadManifest(pinned) ==
  LET m == manifest IN
  /\ verifier.pc = "idle" /\ gen.pc # "idle"
  /\ pinned => original.manifest # NoManifest
  /\ verifier' =
       [pc |-> IF m = NoManifest THEN "fail" ELSE "files", pinned |-> pinned, found |-> m,
        todo |-> {n \in Name : m.files[n] # "absent"},
        bad |-> (pinned /\ m # original.manifest) \/ (\E n \in Required : m.files[n] = "absent"),
        steady |-> TRUE]
  /\ UNCHANGED <<logs, gen, bundle, manifest, original, damages>>

\* Mutant of FileMatches: present is enough.
FileIsThere(m, n, content) == content # "absent"

\* A safe name, a regular file within the limit, the listed content.
FileMatches(m, n, content) ==
  /\ n \notin Unsafe /\ content \notin {"absent", "link", "long"}
  /\ content = m.files[n]

VerifyFile(n) ==
  /\ verifier.pc = "files" /\ n \in verifier.todo
  /\ verifier' = [verifier EXCEPT !.todo = @ \ {n},
                    !.bad = @ \/ ~FileMatches(verifier.found, n, bundle[n])]
  /\ UNCHANGED <<logs, gen, bundle, manifest, original, damages>>

Unlisted(m) == {n \in Name : bundle[n] # "absent" /\ m.files[n] = "absent"}

\* What is listed is not omitted; what is there is listed.
Conclude ==
  LET m == verifier.found
      bad == verifier.bad \/ Unlisted(m) # {} \/ \E n \in m.omitted \cap Name : m.files[n] # "absent" IN
  /\ verifier.pc = "files" /\ verifier.todo = {}
  /\ verifier' = [verifier EXCEPT !.pc = IF bad THEN "fail" ELSE "pass"]
  /\ UNCHANGED <<logs, gen, bundle, manifest, original, damages>>

VerifyAgain ==
  /\ verifier.pc \in {"pass", "fail"}
  /\ verifier' = NoVerifier
  /\ UNCHANGED <<logs, gen, bundle, manifest, original, damages>>

SbNext ==
  \/ \E n \in Log : Rotate(n) \/ WriteLog(n) \/ OmitLog(n)
  \/ \E readable \in BOOLEAN : StartBundle(readable)
  \/ WriteFixed \/ BundleFails \/ WriteBundleManifest
  \/ \E n \in Name, content \in {"absent", "other", "link"} : DamageBundle(n, content)
  \/ Refit
  \/ \E pinned \in BOOLEAN : ReadManifest(pinned)
  \/ \E n \in Name : VerifyFile(n)
  \/ Conclude \/ VerifyAgain

SbSpec == SbInit /\ [][SbNext]_sbVars
-----------------------------------------------------------------------------
AsGenerated == gen.pc = "ok" /\ manifest = original.manifest /\ bundle = original.bundle

\* Whatever becomes of the logs meanwhile, a finished bundle names every log
\* that was there to collect: as a file of its own or as omitted, not as both.
EveryLogIsAccounted ==
  gen.pc = "ok" =>
    LET m == original.manifest
        listed == {n \in Name : m.files[n] # "absent"} IN
    gen.seen \subseteq listed \cup m.omitted /\ listed \cap m.omitted = {}

\* A bundle that passed against the digest of its manifest, and that nobody
\* changed during the verification, is the bundle that was generated.
PassedIsAsGenerated == verifier.pc = "pass" /\ verifier.pinned /\ verifier.steady => AsGenerated

\* A bundle that is as generated fails only for a file that outgrew the limit
\* or a name the verification does not accept.
FailsOnlyForKnown ==
  verifier.pc = "fail" /\ verifier.steady /\ AsGenerated =>
    \E n \in Log : bundle[n] # "absent" /\ (n \in Unsafe \/ bundle[n] = "long")

BundleTellsTheTruth == EveryLogIsAccounted /\ PassedIsAsGenerated /\ FailsOnlyForKnown

\* What the offline verifier says of the writer: it never emits a file over the
\* limit. (Only the source is limited; the mask is longer than many secrets.)
WriterStaysWithinLimit == \A n \in Name : bundle[n] # "long"
=============================================================================
