------------------------------- MODULE ModelHub -------------------------------
\* commands/modelhub.rs: models are downloaded file by file in background tasks
\* that share one status map, listed, uploaded to the object store and
\* registered with MLflow, while other downloads go on.
EXTENDS Naturals

CONSTANTS Repo,      \* repo ids in owner/name form
          Slug,      \* Slug[r]: the directory and key of r, '/' as '__'
          HubTask,   \* run_download tasks
          HubUpload, \* upload_model_to_storage calls
          MaxFile,   \* bound: files of a model
          MaxVersion \* bound: registered versions

ASSUME ModelHubAssumption ==
  /\ MaxFile \in Nat /\ MaxVersion \in Nat
  /\ Repo \cap {"none", "absent", "partial"} = {}

RepoFiles == 1..MaxFile
Slugs == {Slug[r] : r \in Repo}

VARIABLES
  download, \* ModelHubState: repo -> DownloadStatus, "none" where absent
  task,     \* each task: its repo, the file list it got, the file it is at
  local,    \* local[d][i]: the repo whose file i is whole in directory d, or "absent", "partial"
  upload,   \* each upload call
  bucket,   \* the same of the object store
  registry, \* MLflow: whether the name exists, its versions
  hubOverlapped \* ghost: uploads whose directory a download touched meanwhile
hubVars == <<download, task, local, upload, bucket, registry, hubOverlapped>>

NoDownload == [state |-> "none", total |-> 0, done |-> 0]
NoFetch == [pc |-> "off", repo |-> "none", total |-> 0, at |-> 0]
NoUpload == [pc |-> "idle", dir |-> "none", at |-> 0]
NoFiles == [i \in RepoFiles |-> "absent"]

HubInit ==
  /\ download = [r \in Repo |-> NoDownload]
  /\ task = [t \in HubTask |-> NoFetch]
  /\ local = [d \in Slugs |-> NoFiles]
  /\ upload = [u \in HubUpload |-> NoUpload]
  /\ bucket = [d \in Slugs |-> NoFiles]
  /\ registry = [d \in Slugs |-> [named |-> FALSE, versions |-> 0]]
  /\ hubOverlapped = {}

\* update_status: only a repo that has a status.
Update(r, s) == download' = [download EXCEPT ![r] = IF @.state = "none" THEN @ ELSE s]
TaskGoes(t, s) == task' = [task EXCEPT ![t] = s]

\* Uploads that read directory d now.
Reading(d) == {u \in HubUpload : upload[u].dir = d}
Writers(d) == {t \in HubTask : task[t].pc \notin {"off", "over"} /\ Slug[task[t].repo] = d}
-----------------------------------------------------------------------------
\* Mutant of MayDownload: a download that is under way does not refuse another.
MayDownloadAgain(r) == TRUE

MayDownload(r) == download[r].state # "downloading"

\* download_hf_model: check and insertion are one step under the lock.
Download(t, r) ==
  /\ task[t].pc = "off" /\ MayDownload(r)
  /\ download' = [download EXCEPT ![r] = [state |-> "downloading", total |-> 0, done |-> 0]]
  /\ TaskGoes(t, [NoFetch EXCEPT !.pc = "list", !.repo = r])
  /\ hubOverlapped' = hubOverlapped \cup Reading(Slug[r])
  /\ UNCHANGED <<local, upload, bucket, registry>>

\* run_download_inner: the file list, whose answer may be empty.
ListFiles(t, n) ==
  LET r == task[t].repo IN
  /\ task[t].pc = "list"
  /\ Update(r, [download[r] EXCEPT !.total = n])
  /\ TaskGoes(t, [task[t] EXCEPT !.pc = "fetch", !.total = n, !.at = 1])
  /\ UNCHANGED <<local, upload, bucket, registry, hubOverlapped>>

\* curl -o starts to write one file ...
Fetch(t) ==
  LET d == Slug[task[t].repo] IN
  /\ task[t].pc = "fetch" /\ task[t].at <= task[t].total
  /\ local' = [local EXCEPT ![d][task[t].at] = "partial"]
  /\ TaskGoes(t, [task[t] EXCEPT !.pc = "curl"])
  /\ UNCHANGED <<download, upload, bucket, registry, hubOverlapped>>

\* ... and has written it.
Fetched(t) ==
  LET r == task[t].repo IN
  /\ task[t].pc = "curl"
  /\ local' = [local EXCEPT ![Slug[r]][task[t].at] = r]
  /\ Update(r, [download[r] EXCEPT !.done = @ + 1])
  /\ TaskGoes(t, [task[t] EXCEPT !.pc = "fetch", !.at = @ + 1])
  /\ UNCHANGED <<upload, bucket, registry, hubOverlapped>>

\* run_download: any error ends the task. What is on disk stays.
DownloadFails(t) ==
  LET r == task[t].repo IN
  /\ task[t].pc \in {"list", "fetch", "curl"}
  /\ Update(r, [download[r] EXCEPT !.state = "error"])
  /\ TaskGoes(t, [task[t] EXCEPT !.pc = "over"])
  /\ UNCHANGED <<local, upload, bucket, registry, hubOverlapped>>

AllFetched(t) == task[t].pc = "fetch" /\ task[t].at > task[t].total

DownloadEnds(t) ==
  LET r == task[t].repo IN
  /\ AllFetched(t)
  /\ Update(r, [download[r] EXCEPT !.state = "done"])
  /\ TaskGoes(t, [task[t] EXCEPT !.pc = "over"])
  /\ UNCHANGED <<local, upload, bucket, registry, hubOverlapped>>

\* upload_model_to_storage: the directory, the bucket, the files it finds ...
Upload(u, r) ==
  LET d == Slug[r] IN
  /\ upload[u].pc = "idle" /\ local[d] # NoFiles
  /\ upload' = [upload EXCEPT ![u] = [pc |-> "put", dir |-> d, at |-> 1]]
  /\ hubOverlapped' = IF Writers(d) # {} THEN hubOverlapped \cup {u} ELSE hubOverlapped
  /\ UNCHANGED <<download, task, local, bucket, registry>>

\* ... each put as it is by then; an absent one is not in the listing.
Put(u) ==
  LET d == upload[u].dir
      i == upload[u].at IN
  /\ upload[u].pc = "put" /\ i <= MaxFile
  /\ bucket' = IF local[d][i] = "absent" THEN bucket
               ELSE [bucket EXCEPT ![d][i] = local[d][i]]
  /\ upload' = [upload EXCEPT ![u].at = i + 1]
  /\ UNCHANGED <<download, task, local, registry, hubOverlapped>>

\* An upload's answer; what was put stays after an error.
UploadEnds(u, ok) ==
  /\ upload[u].pc = "put" /\ (ok => upload[u].at > MaxFile)
  /\ upload' = [upload EXCEPT ![u] = [@ EXCEPT !.pc = IF ok THEN "ok" ELSE "error"]]
  /\ UNCHANGED <<download, task, local, bucket, registry, hubOverlapped>>

UploadForgotten(u) ==
  /\ upload[u].pc \in {"ok", "error"}
  /\ upload' = [upload EXCEPT ![u] = NoUpload]
  /\ hubOverlapped' = hubOverlapped \ {u}
  /\ UNCHANGED <<download, task, local, bucket, registry>>

\* register_model_mlflow: the name, whether or not it exists, then a version,
\* unless the second request fails.
Register(r, both) ==
  LET d == Slug[r] IN
  /\ registry[d].versions < MaxVersion
  /\ registry' = [registry EXCEPT ![d] = [named |-> TRUE,
                                         versions |-> @.versions + IF both THEN 1 ELSE 0]]
  /\ UNCHANGED <<download, task, local, upload, bucket, hubOverlapped>>

HubNext ==
  \/ \E t \in HubTask :
       \/ \E r \in Repo : Download(t, r)
       \/ \E n \in 0..MaxFile : ListFiles(t, n)
       \/ Fetch(t) \/ Fetched(t) \/ DownloadFails(t) \/ DownloadEnds(t)
  \/ \E u \in HubUpload :
       \/ \E r \in Repo : Upload(u, r)
       \/ Put(u) \/ UploadForgotten(u)
       \/ \E ok \in BOOLEAN : UploadEnds(u, ok)
  \/ \E r \in Repo, both \in BOOLEAN : Register(r, both)

HubSpec == HubInit /\ [][HubNext]_hubVars
-----------------------------------------------------------------------------
\* No other repo is downloaded into the directory of r.
Alone(r) == \A q \in Repo : Slug[q] = Slug[r] => q = r

\* A download shown as done has every file it counted whole on disk, and the
\* counter tells how far one under way is: no second task writes meanwhile.
DoneIsWhole ==
  \A r \in Repo : Alone(r) =>
    /\ download[r].done <= download[r].total
    /\ download[r].state = "done" =>
         /\ download[r].done = download[r].total
         /\ \A i \in 1..download[r].total : local[Slug[r]][i] = r

\* An upload that succeeded, with no download of that directory meanwhile and
\* a finished one before, has stored the whole model.
UploadIsWhole ==
  \A u \in HubUpload, r \in Repo :
    upload[u].pc = "ok" /\ u \notin hubOverlapped /\ upload[u].dir = Slug[r]
      /\ Alone(r) /\ download[r].state = "done" =>
        \A i \in 1..download[r].total : bucket[Slug[r]][i] = r

DownloadsAreWhole == DoneIsWhole /\ UploadIsWhole
=============================================================================
