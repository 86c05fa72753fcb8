----------------------------- MODULE ImageStore -----------------------------
(***************************************************************************)
(* The pictures of one account: rows in images and jobs on one side, files *)
(* in the object storage on the other.  Uploads (app/api/images.py) and    *)
(* the worker (app/workers/enhance.py, app/pipeline/exporter.py) write the *)
(* file first and the row after; deleting an image, or the account         *)
(* (app/services/account.py), removes the rows first and the files after.  *)
(* A download (app/api/download.py) reads the row, then opens the file.    *)
(* There is no transaction over both, and the handlers and workers run in  *)
(* threads: between any two statements others may commit.                  *)
(*                                                                         *)
(* The database is external: a statement sees what is committed, and a     *)
(* foreign key refuses a transaction that would leave a job without its    *)
(* image.  Credits are the business of EnhancementJobs.                    *)
(***************************************************************************)
EXTENDS Integers

CONSTANTS
    Images,      \* images that may be uploaded
    Jobs,        \* jobs that may be created
    Requests,    \* deletions that may be in flight at once
    Downloads,   \* downloads that may be in flight at once
    NoJob,       \* images.enhanced_path IS NULL
    MaxFailures  \* bound: restarts, and removals the storage refuses

ASSUME StoreAssumption == NoJob \notin Jobs /\ MaxFailures \in Nat

VARIABLES
    image,     \* image[i]: its row
    result,    \* result[i]: the job whose output the row points to
    job,       \* job[j]: its row
    deleted,   \* has the account been deleted?
    files,     \* keys in the storage
    upload,    \* upload[i]: how far its request is
    worker,    \* worker[j]: how far the thread that runs it is
    request,   \* request[r]: a deletion, what it has read, and its stage
    failures,  \* restarts, lost commits and refused removals so far
    download,  \* download[d]: the image and the file it has read from its row
    owed,      \* files of the account when its last deletion began
    erased     \* active jobs removed with an image whose deletion had asked about them

rows == <<image, result, job, deleted>>
threads == <<upload, worker, request>>
ghosts == <<owed, erased>>
store == <<rows, files, threads, failures, ghosts>>
vars == <<store, download>>

(* Beside enhanced.png and thumb.jpg a job has a metadata.json, which no   *)
(* row points to and nothing removes; it is left out.                      *)
Original(i) == <<"uploads", i>>
Enhanced(j) == <<"jobs", j>>
Keys == ({"uploads"} \X Images) \cup ({"jobs"} \X Jobs)

Job == [status : {"none", "queued", "running", "completed", "failed", "deleted"},
        image  : Images]

Request == [stage : {"idle", "found", "checked", "gathered", "removing"},
            of    : SUBSET Images,   \* the images it has found
            asked : SUBSET Jobs,     \* the jobs there were when it asked for active ones
            jobs  : SUBSET Jobs,     \* the jobs it has found
            keys  : SUBSET Keys,     \* the files to remove
            whole : BOOLEAN]         \* the whole account?

Download == [stage : {"closed", "read", "missing"}, of : SUBSET Images, key : SUBSET Keys]
Closed == [stage |-> "closed", of |-> {}, key |-> {}]

Idle == [stage |-> "idle", of |-> {}, asked |-> {}, jobs |-> {}, keys |-> {}, whole |-> FALSE]

Init ==
    /\ image = [i \in Images |-> "none"]
    /\ result = [i \in Images |-> NoJob]
    /\ job \in [Jobs -> {[status |-> "none", image |-> i] : i \in Images}]
    /\ deleted = FALSE
    /\ files = {}
    /\ upload = [i \in Images |-> "idle"]
    /\ worker = [j \in Jobs |-> "waiting"]
    /\ request = [r \in Requests |-> Idle]
    /\ download = [d \in Downloads |-> Closed]
    /\ failures = 0
    /\ owed = {}
    /\ erased = {}

Active(j) == job[j].status \in {"queued", "running"}
HasRow(j) == job[j].status \notin {"none", "deleted"}
JobsOf(is) == {j \in Jobs : HasRow(j) /\ job[j].image \in is}
Stored == {i \in Images : image[i] = "stored"}
KeysOf(is) == {Original(i) : i \in is}
                  \cup {Enhanced(result[i]) : i \in {k \in is : result[k] # NoJob}}

-----------------------------------------------------------------------------
(* app/services/storage.py, the same for a directory and for a bucket: a   *)
(* key names one file, and to remove what is not there is no error.        *)
Put(k) == files' = files \cup {k}
Drop(k) == files' = files \ {k}
Opens(k) == k \in files

(* POST /images/upload *)

PutFile_RowFirst(i) ==
    /\ upload[i] = "idle" /\ ~deleted
    /\ upload' = [upload EXCEPT ![i] = "over"]
    /\ image' = [image EXCEPT ![i] = "stored"]
    /\ UNCHANGED <<result, job, deleted, files, worker, request, failures, ghosts>>
PutFile(i) ==
    /\ upload[i] = "idle" /\ ~deleted
    /\ upload' = [upload EXCEPT ![i] = "put"]
    /\ Put(Original(i))
    /\ UNCHANGED <<rows, worker, request, failures, ghosts>>

InsertImage(i) ==
    /\ upload[i] = "put"
    /\ upload' = [upload EXCEPT ![i] = "over"]
    /\ image' = [image EXCEPT ![i] = "stored"]
    /\ UNCHANGED <<result, job, deleted, files, worker, request, failures, ghosts>>

-----------------------------------------------------------------------------
(* POST /jobs, and the worker.  Who knows an image's id when the account   *)
(* is deleted has lost the image.                                          *)

CreateJob(j) ==
    /\ job[j].status = "none"
    /\ job[j].image \in Stored /\ ~deleted
    /\ job' = [job EXCEPT ![j].status = "queued"]
    /\ UNCHANGED <<image, result, deleted, files, threads, failures, ghosts>>

LoadJob(j) ==
    /\ worker[j] = "waiting"
    /\ job[j].status # "none"
    /\ worker' = [worker EXCEPT ![j] = IF HasRow(j) THEN "loaded" ELSE "over"]
    /\ UNCHANGED <<rows, files, upload, request, failures, ghosts>>

(* "assert image_row is not None": it fails when the image was deleted     *)
(* after the job was read.                                                 *)
LoadImage(j) ==
    /\ worker[j] = "loaded"
    /\ worker' = [worker EXCEPT ![j] = IF job[j].image \in Stored THEN "starting" ELSE "over"]
    /\ UNCHANGED <<rows, files, upload, request, failures, ghosts>>

(* The commit of a job whose row is gone fails.                            *)
Start(j) ==
    /\ worker[j] = "starting"
    /\ worker' = [worker EXCEPT ![j] = IF HasRow(j) THEN "running" ELSE "over"]
    /\ job' = [job EXCEPT ![j].status = IF HasRow(j) THEN "running" ELSE @]
    /\ UNCHANGED <<image, result, deleted, files, upload, request, failures, ghosts>>

ReadOriginal(j) ==
    /\ worker[j] = "running"
    /\ Opens(Original(job[j].image))
    /\ worker' = [worker EXCEPT ![j] = "enhancing"]
    /\ UNCHANGED <<rows, files, upload, request, failures, ghosts>>

Export(j) ==
    /\ worker[j] = "enhancing"
    /\ Put(Enhanced(j))
    /\ worker' = [worker EXCEPT ![j] = "exported"]
    /\ UNCHANGED <<rows, upload, request, failures, ghosts>>

(* The final commit updates the rows of the job and its image.             *)
Complete_DropsOldResult(j) ==
    LET i == job[j].image
    IN  /\ worker[j] = "exported"
        /\ HasRow(j)
        /\ worker' = [worker EXCEPT ![j] = "over"]
        /\ result' = [result EXCEPT ![i] = j]
        /\ job' = [job EXCEPT ![j].status = "completed"]
        /\ files' = files \ {Enhanced(k) : k \in {result[i]} \ {NoJob}}
        /\ UNCHANGED <<image, deleted, upload, request, failures, ghosts>>
Complete_Revives(j) ==
    LET i == job[j].image
    IN  /\ worker[j] = "exported"
        /\ worker' = [worker EXCEPT ![j] = "over"]
        /\ image' = [image EXCEPT ![i] = "stored"]
        /\ result' = [result EXCEPT ![i] = j]
        /\ job' = [job EXCEPT ![j].status = "completed"]
        /\ UNCHANGED <<deleted, files, upload, request, failures, ghosts>>
Complete(j) ==
    /\ worker[j] = "exported"
    /\ HasRow(j)
    /\ worker' = [worker EXCEPT ![j] = "over"]
    /\ result' = [result EXCEPT ![job[j].image] = j]
    /\ job' = [job EXCEPT ![j].status = "completed"]
    /\ UNCHANGED <<image, deleted, files, upload, request, failures, ghosts>>

(* A stage fails, its file written or not.                                 *)
FailJob(j) ==
    /\ worker[j] \in {"running", "enhancing", "exported"}
    /\ worker' = [worker EXCEPT ![j] = "over"]
    /\ job' = [job EXCEPT ![j].status = IF HasRow(j) THEN "failed" ELSE @]
    /\ UNCHANGED <<image, result, deleted, files, upload, request, failures, ghosts>>

-----------------------------------------------------------------------------
(* DELETE /images/{id}: load the row, refuse when a job is active, find    *)
(* the jobs, remove the rows and commit, remove the files.                 *)

Found(stage, is, whole) ==
    [Idle EXCEPT !.stage = stage, !.of = is, !.keys = KeysOf(is), !.whole = whole]

FindImage(r, i) ==
    /\ request[r].stage = "idle"
    /\ i \in Stored /\ ~deleted
    /\ request' = [request EXCEPT ![r] = Found("found", {i}, FALSE)]
    /\ UNCHANGED <<rows, files, upload, worker, failures, ghosts>>

CheckActive_AnyStatus(r) ==
    /\ request[r].stage = "found"
    /\ request' = [request EXCEPT ![r].stage = "checked", ![r].asked = JobsOf(request[r].of)]
    /\ UNCHANGED <<rows, files, upload, worker, failures, ghosts>>
CheckActive(r) ==
    /\ request[r].stage = "found"
    /\ \A j \in JobsOf(request[r].of) : ~Active(j)
    /\ request' = [request EXCEPT ![r].stage = "checked", ![r].asked = JobsOf(request[r].of)]
    /\ UNCHANGED <<rows, files, upload, worker, failures, ghosts>>

(* POST /auth/delete finds every image and every job of the account, and   *)
(* does not mind active ones.                                              *)
FindAll(r) ==
    /\ request[r].stage = "idle"
    /\ ~deleted
    /\ request' = [request EXCEPT ![r] = Found("checked", Stored, TRUE)]
    /\ owed' = {Original(i) : i \in Stored}
                 \cup {Enhanced(j) : j \in {k \in Jobs : job[k].status = "completed"}}
    /\ UNCHANGED <<rows, files, upload, worker, failures, erased>>

(* What is removed of the account is removed by its owner, and may be more *)
(* than was found.                                                         *)
Doomed(r) == IF request[r].whole THEN Stored ELSE request[r].of

Gather(r) ==
    /\ request[r].stage = "checked"
    /\ request' = [request EXCEPT ![r].stage = "gathered", ![r].jobs = JobsOf(Doomed(r))]
    /\ UNCHANGED <<rows, files, upload, worker, failures, ghosts>>

WithoutJobs(gone) ==
    [j \in Jobs |-> IF j \in gone /\ HasRow(j) THEN [job[j] EXCEPT !.status = "deleted"]
                    ELSE job[j]]

(* A job created after the jobs were found still refers to its image.      *)
RemoveRows_LeaveImage(r) ==
    /\ request[r].stage = "gathered"
    /\ job' = WithoutJobs(request[r].jobs)
    /\ deleted' = (deleted \/ request[r].whole)
    /\ request' = [request EXCEPT ![r].stage = "removing"]
    /\ UNCHANGED <<image, result, files, upload, worker, failures, ghosts>>
RemoveRows(r) ==
    /\ request[r].stage = "gathered"
    /\ JobsOf(Doomed(r)) \subseteq request[r].jobs
    /\ image' = [i \in Images |-> IF i \in Doomed(r) THEN "deleted" ELSE image[i]]
    /\ job' = WithoutJobs(request[r].jobs)
    /\ deleted' = (deleted \/ request[r].whole)
    /\ erased' = erased \cup {j \in request[r].asked \cap request[r].jobs : Active(j)}
    /\ request' = [request EXCEPT ![r].stage = "removing"]
    /\ UNCHANGED <<result, files, upload, worker, failures, owed>>

RemoveFile(r, k) ==
    /\ request[r].stage = "removing"
    /\ k \in request[r].keys
    /\ request' = [request EXCEPT ![r].keys = @ \ {k}]
    /\ \/ Drop(k) /\ UNCHANGED failures
       \/ failures < MaxFailures /\ failures' = failures + 1 /\ UNCHANGED files
    /\ UNCHANGED <<rows, upload, worker, ghosts>>

(* Every file has been tried; or, before the commit, an error answer: a    *)
(* job is active, or the foreign key or Paddle refuses.                    *)
EndRequest(r) ==
    /\ \/ request[r].stage \in {"found", "checked", "gathered"}
       \/ request[r].stage = "removing" /\ request[r].keys = {}
    /\ request' = [request EXCEPT ![r] = Idle]
    /\ UNCHANGED <<rows, files, upload, worker, failures, ghosts>>

-----------------------------------------------------------------------------
(* GET /download/{id}, /original and /thumb: the path is read from the     *)
(* row, then the file is opened; only after that does the answer start.    *)

ReadRow(d, i) ==
    /\ download[d].stage = "closed"
    /\ i \in Stored /\ ~deleted
    /\ \E k \in KeysOf({i}) :
          download' = [download EXCEPT ![d] = [stage |-> "read", of |-> {i}, key |-> {k}]]
    /\ UNCHANGED store

(* A file that is missing is a 404, and one that is open can be read to    *)
(* its end, removed or not.                                                *)
Serve(d) ==
    /\ download[d].stage = "read"
    /\ download' = [download EXCEPT ![d] =
           IF \A k \in download[d].key : Opens(k) THEN Closed
           ELSE [download[d] EXCEPT !.stage = "missing"]]
    /\ UNCHANGED store

EndDownload(d) ==
    /\ download[d].stage # "closed"
    /\ download' = [download EXCEPT ![d] = Closed]
    /\ UNCHANGED store

-----------------------------------------------------------------------------
(* A commit is lost: of an upload's row, or of a worker's outcome, whose   *)
(* job may also be gone.                                                   *)
LoseUpload(i) ==
    /\ upload[i] = "put" /\ failures < MaxFailures
    /\ failures' = failures + 1
    /\ upload' = [upload EXCEPT ![i] = "over"]
    /\ UNCHANGED <<rows, files, worker, request, ghosts>>

LoseOutcome(j) ==
    /\ worker[j] \in {"starting", "running", "enhancing", "exported"}
    /\ failures < MaxFailures
    /\ failures' = failures + 1
    /\ worker' = [worker EXCEPT ![j] = "over"]
    /\ UNCHANGED <<rows, files, upload, request, ghosts>>

(* The process dies and starts again: what was in flight is forgotten, and *)
(* the startup sweep fails the jobs that were waiting or running.          *)
Restart ==
    /\ failures < MaxFailures
    /\ failures' = failures + 1
    /\ upload' = [i \in Images |-> IF upload[i] = "put" THEN "over" ELSE upload[i]]
    /\ worker' = [j \in Jobs |-> IF job[j].status = "none" THEN "waiting" ELSE "over"]
    /\ request' = [r \in Requests |-> Idle]
    /\ download' = [d \in Downloads |-> Closed]
    /\ job' = [j \in Jobs |-> IF Active(j) THEN [job[j] EXCEPT !.status = "failed"] ELSE job[j]]
    /\ UNCHANGED <<image, result, deleted, files, ghosts>>

Write ==
    \/ \E i \in Images : PutFile(i) \/ InsertImage(i) \/ LoseUpload(i)
    \/ \E j \in Jobs : CreateJob(j) \/ LoadJob(j) \/ LoadImage(j) \/ Start(j)
                       \/ ReadOriginal(j) \/ Export(j) \/ Complete(j) \/ FailJob(j)
                       \/ LoseOutcome(j)
    \/ \E r \in Requests :
        \/ \E i \in Images : FindImage(r, i)
        \/ CheckActive(r) \/ FindAll(r) \/ Gather(r) \/ RemoveRows(r) \/ EndRequest(r)
        \/ \E k \in Keys : RemoveFile(r, k)

Next ==
    \/ Write /\ UNCHANGED download
    \/ \E d \in Downloads : (\E i \in Images : ReadRow(d, i)) \/ Serve(d) \/ EndDownload(d)
    \/ Restart

Spec == Init /\ [][Next]_vars

-----------------------------------------------------------------------------
TypeOK ==
    /\ image \in [Images -> {"none", "stored", "deleted"}]
    /\ result \in [Images -> Jobs \cup {NoJob}]
    /\ job \in [Jobs -> Job]
    /\ deleted \in BOOLEAN
    /\ files \subseteq Keys
    /\ upload \in [Images -> {"idle", "put", "over"}]
    /\ worker \in [Jobs -> {"waiting", "loaded", "starting", "running", "enhancing",
                            "exported", "over"}]
    /\ request \in [Requests -> Request]
    /\ failures \in 0..MaxFailures
    /\ owed \subseteq Keys
    /\ erased \subseteq Jobs

(* Files go last: there is "never a DB row pointing at nothing"            *)
(* (app/api/images.py, delete_image), whatever overlaps, fails or crashes. *)
RowsHaveFiles ==
    \A i \in Images : image[i] = "stored" => KeysOf({i}) \subseteq files

(* A download that has read a row and meets no file was overtaken by a     *)
(* deletion of the image, not by a new result, a failure or a restart.     *)
MissingForCause ==
    \A d \in Downloads : download[d].stage = "missing" =>
        \A i \in download[d].of : image[i] = "deleted"

(* A picture and its jobs never come back once deleted, although a worker  *)
(* may be finishing one of them.                                           *)
DeletedForGood ==
    [][ /\ \A i \in Images : image[i] = "deleted" => image'[i] = "deleted"
        /\ \A j \in Jobs : job[j].status = "deleted" => job'[j].status = "deleted" ]_vars

(* Deleting an image is refused while "a job is still processing this      *)
(* image" (app/api/images.py, delete_image): a job that is removed active  *)
(* was created after the deletion had asked.                               *)
ActiveJobsKept == erased = {}

(* "Your images, results and thumbnails are deleted from storage"          *)
(* (app/web/templates/privacy.html): with nothing in flight and nothing    *)
(* failed, no file the account had when its deletion began is left.          *)
AtRest ==
    /\ \A r \in Requests : request[r].stage = "idle"
    /\ \A i \in Images : upload[i] # "put"
    /\ \A j \in Jobs : worker[j] \in {"waiting", "over"}
ErasedFromStorage == deleted /\ AtRest /\ failures = 0 => files \cap owed = {}

-----------------------------------------------------------------------------
(* The inductive strengthening the proofs of ImageStoreProofs use.         *)

(* What is written is there until its row is: an upload's file, and the    *)
(* output of a worker.                                                     *)
WrittenIsThere ==
    /\ \A i \in Images : upload[i] = "put" => Original(i) \in files /\ image[i] = "none"
    /\ \A i \in Images : upload[i] = "idle" => image[i] = "none"
    /\ \A j \in Jobs : worker[j] = "exported" => Enhanced(j) \in files

(* The output a row points to is of a job of its own that is over.         *)
ResultIsOwn ==
    \A i \in Images : result[i] # NoJob =>
        image[i] # "none" /\ job[result[i]].image = i /\ worker[result[i]] = "over"

(* A deletion collects files of images that were stored, and of workers    *)
(* that are over, and removes them when their rows are gone.               *)
RemovesTheDead ==
    \A r \in Requests :
        /\ \A i \in request[r].of :
               /\ image[i] # "none"
               /\ request[r].stage = "removing" => image[i] = "deleted"
        /\ \A i \in Images : Original(i) \in request[r].keys => i \in request[r].of
        /\ \A j \in Jobs : Enhanced(j) \in request[r].keys =>
               job[j].image \in request[r].of /\ worker[j] = "over"

(* A job that has a row has an image; one that never had a row, no worker. *)
JobsHaveImages ==
    \A j \in Jobs : /\ HasRow(j) => image[job[j].image] = "stored"
                    /\ job[j].status = "none" => worker[j] = "waiting"

(* What a deletion found settled has no worker that could start it again.  *)
AskedAreOver ==
    /\ \A j \in Jobs : HasRow(j) /\ ~Active(j) => worker[j] = "over"
    /\ \A r \in Requests : \A j \in request[r].asked :
           worker[j] = "over" /\ ~Active(j) /\ job[j].status # "none"
    /\ ActiveJobsKept

StoreInv ==
    /\ TypeOK
    /\ RowsHaveFiles
    /\ WrittenIsThere
    /\ ResultIsOwn
    /\ RemovesTheDead
    /\ JobsHaveImages

(* What a download has read is a file of its image, there while the image  *)
(* is, even when another result has replaced it.                           *)
DownloadsHaveFiles ==
    /\ download \in [Downloads -> Download]
    /\ \A d \in Downloads : \A i \in download[d].of :
          /\ image[i] # "none"
          /\ Original(i) \in download[d].key => Original(i) \in files \/ image[i] = "deleted"
          /\ \A k \in Images : Original(k) \in download[d].key => k = i
          /\ \A j \in Jobs : Enhanced(j) \in download[d].key =>
                job[j].image = i /\ (Enhanced(j) \in files \/ image[i] = "deleted")
    /\ MissingForCause

IInv == StoreInv /\ AskedAreOver /\ DownloadsHaveFiles

=============================================================================
