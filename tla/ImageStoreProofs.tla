-------------------------- MODULE ImageStoreProofs --------------------------
(***************************************************************************)
(* Proofs about ImageStore, for any number of images, jobs, deletions,    *)
(* downloads and failures.                                                 *)
(***************************************************************************)
EXTENDS ImageStore, TLAPS

(* What happens to the store; a download changes nothing of it. *)
Change == Write \/ Restart

-----------------------------------------------------------------------------
(* A key names one original or one job's output; the files of some images  *)
(* are their originals and the outputs their rows point to.                *)
LEMMA KeyNames ==
    /\ \A i, k \in Images : Original(i) = Original(k) <=> i = k
    /\ \A j, k \in Jobs : Enhanced(j) = Enhanced(k) <=> j = k
    /\ \A i \in Images, j \in Jobs : Original(i) # Enhanced(j)
    /\ \A i \in Images : Original(i) \in Keys
    /\ \A j \in Jobs : Enhanced(j) \in Keys
BY DEF Original, Enhanced, Keys

LEMMA KeysOfImages ==
    ASSUME TypeOK, NEW is \in SUBSET Images
    PROVE  /\ KeysOf(is) \subseteq Keys
           /\ \A i \in Images : Original(i) \in KeysOf(is) <=> i \in is
           /\ \A j \in Jobs : Enhanced(j) \in KeysOf(is) <=> \E k \in is : result[k] = j
<1>1. \A k \in is : result[k] # NoJob => result[k] \in Jobs
  BY DEF TypeOK
<1> QED BY <1>1, KeyNames, StoreAssumption DEF KeysOf

(* A stored image has its files when its original, and the output its row  *)
(* points to, are in the storage.                                          *)
LEMMA FilesOfRow ==
    ASSUME TypeOK, NEW i \in Images
    PROVE  KeysOf({i}) \subseteq files
                <=> Original(i) \in files /\ (result[i] # NoJob => Enhanced(result[i]) \in files)
BY DEF KeysOf

LEMMA JobFields ==
    ASSUME TypeOK, NEW j \in Jobs
    PROVE  /\ job[j].image \in Images
           /\ \A s \in {"none", "queued", "running", "completed", "failed", "deleted"} :
                 [job EXCEPT ![j].status = s] \in [Jobs -> Job]
BY DEF TypeOK, Job

-----------------------------------------------------------------------------
LEMMA InitStore == Init => StoreInv
<1> SUFFICES ASSUME Init PROVE StoreInv
  OBVIOUS
<1>1. job \in [Jobs -> Job] /\ \A j \in Jobs : job[j].status = "none"
  BY DEF Init, Job
<1>2. Idle \in Request
  BY DEF Idle, Request
<1>4. TypeOK
  <2>1. failures \in 0..MaxFailures
    BY StoreAssumption DEF Init
  <2>2. /\ image \in [Images -> {"none", "stored", "deleted"}]
        /\ upload \in [Images -> {"idle", "put", "over"}]
        /\ result \in [Images -> Jobs \cup {NoJob}]
        /\ request \in [Requests -> Request]
    BY <1>2 DEF Init
  <2> QED BY <1>1, <2>1, <2>2 DEF Init, TypeOK
<1>5. RowsHaveFiles /\ WrittenIsThere /\ ResultIsOwn /\ JobsHaveImages
  BY <1>1 DEF Init, RowsHaveFiles, WrittenIsThere, ResultIsOwn, JobsHaveImages, HasRow
<1>3. RemovesTheDead
  BY DEF Init, RemovesTheDead, Idle
<1> QED BY <1>3, <1>4, <1>5 DEF StoreInv

(* A worker that moves on without writing anything. *)
LEMMA WorkerMoves ==
    ASSUME StoreInv, UNCHANGED <<rows, files, upload, request>>,
           failures' \in 0..MaxFailures, UNCHANGED ghosts,
           NEW j \in Jobs, worker[j] # "over", job[j].status # "none",
           NEW s \in {"loaded", "starting", "enhancing", "over"},
           worker' = [worker EXCEPT ![j] = s]
    PROVE  StoreInv'
<1>1. TypeOK'
  BY DEF StoreInv, TypeOK, rows, ghosts
<1>2. \A k \in Jobs : worker'[k] = IF k = j THEN s ELSE worker[k]
  BY DEF StoreInv, TypeOK
<1>3. RowsHaveFiles'
  BY DEF StoreInv, RowsHaveFiles, KeysOf, rows
<1>4. WrittenIsThere'
  BY <1>2 DEF StoreInv, WrittenIsThere, rows
<1>5. ResultIsOwn'
  BY <1>2 DEF StoreInv, TypeOK, ResultIsOwn, rows
<1>6. RemovesTheDead'
  BY <1>2 DEF StoreInv, RemovesTheDead, rows
<1>7. JobsHaveImages'
  BY <1>2 DEF StoreInv, JobsHaveImages, HasRow, rows
<1> QED BY <1>1, <1>3, <1>4, <1>5, <1>6, <1>7 DEF StoreInv

(* A deletion that moves on, its findings as RemovesTheDead asks. *)
LEMMA RequestMoves ==
    ASSUME StoreInv, UNCHANGED <<rows, files, upload, worker, failures, erased>>,
           owed' \subseteq Keys,
           NEW r \in Requests, NEW q \in Request, request' = [request EXCEPT ![r] = q],
           \A i \in q.of : image[i] # "none" /\ (q.stage = "removing" => image[i] = "deleted"),
           \A i \in Images : Original(i) \in q.keys => i \in q.of,
           \A j \in Jobs : Enhanced(j) \in q.keys => job[j].image \in q.of /\ worker[j] = "over"
    PROVE  StoreInv'
<1>1. TypeOK'
  BY DEF StoreInv, TypeOK, rows
<1>2. \A p \in Requests : request'[p] = IF p = r THEN q ELSE request[p]
  BY DEF StoreInv, TypeOK
<1>3. RowsHaveFiles' /\ WrittenIsThere' /\ ResultIsOwn' /\ JobsHaveImages'
  BY DEF StoreInv, RowsHaveFiles, KeysOf, WrittenIsThere, ResultIsOwn, JobsHaveImages, HasRow, rows
<1>4. RemovesTheDead'
  BY <1>2 DEF StoreInv, RemovesTheDead, rows
<1> QED BY <1>1, <1>3, <1>4 DEF StoreInv

(* A request keeps what it has found when only its stage, or the jobs and  *)
(* keys it will still remove, change.                                      *)
LEMMA RequestFields ==
    ASSUME TypeOK, NEW r \in Requests
    PROVE  /\ Idle \in Request
           /\ request[r].of \subseteq Images
           /\ \A s \in {"idle", "found", "checked", "gathered", "removing"},
                 as \in SUBSET Jobs, js \in SUBSET Jobs :
                 [request[r] EXCEPT !.stage = s, !.asked = as, !.jobs = js] \in Request
BY DEF TypeOK, Request, Idle

-----------------------------------------------------------------------------
(* Uploads *)

LEMMA PutFileStep ==
    ASSUME StoreInv, NEW i \in Images, PutFile(i)
    PROVE  StoreInv'
<1> USE DEF StoreInv
<1>1. TypeOK'
  BY KeyNames DEF TypeOK, PutFile, Put, rows, ghosts
<1>2. \A k \in Images : upload'[k] = IF k = i THEN "put" ELSE upload[k]
  BY DEF TypeOK, PutFile
<1>3. RowsHaveFiles'
  BY DEF RowsHaveFiles, KeysOf, PutFile, Put, rows
<1>4. WrittenIsThere'
  BY <1>2 DEF WrittenIsThere, PutFile, Put, rows
<1>5. ResultIsOwn' /\ RemovesTheDead' /\ JobsHaveImages'
  BY DEF ResultIsOwn, RemovesTheDead, JobsHaveImages, HasRow, PutFile, rows
<1> QED BY <1>1, <1>3, <1>4, <1>5

(* The row comes after its file, and has no output yet that is not there.  *)
LEMMA InsertImageStep ==
    ASSUME StoreInv, NEW i \in Images, InsertImage(i)
    PROVE  StoreInv'
<1> USE DEF StoreInv
<1>1. TypeOK'
  BY DEF TypeOK, InsertImage, ghosts
<1>2. /\ image[i] = "none" /\ Original(i) \in files
      /\ \A k \in Images : image'[k] = IF k = i THEN "stored" ELSE image[k]
      /\ \A k \in Images : upload'[k] = IF k = i THEN "over" ELSE upload[k]
  BY DEF TypeOK, WrittenIsThere, InsertImage
<1>3. result[i] = NoJob
  BY <1>2 DEF ResultIsOwn
<1>4. RowsHaveFiles'
  BY <1>2, <1>3 DEF RowsHaveFiles, KeysOf, InsertImage
<1>5. WrittenIsThere'
  BY <1>2 DEF WrittenIsThere, InsertImage
<1>6. ResultIsOwn' /\ JobsHaveImages'
  BY <1>2 DEF ResultIsOwn, JobsHaveImages, HasRow, InsertImage
<1>7. RemovesTheDead'
  BY <1>2 DEF RemovesTheDead, InsertImage
<1> QED BY <1>1, <1>4, <1>5, <1>6, <1>7

LEMMA LoseUploadStep ==
    ASSUME StoreInv, NEW i \in Images, LoseUpload(i)
    PROVE  StoreInv'
<1> USE DEF StoreInv
<1>1. TypeOK'
  BY StoreAssumption DEF TypeOK, LoseUpload, rows, ghosts
<1>2. \A k \in Images : upload'[k] = IF k = i THEN "over" ELSE upload[k]
  BY DEF TypeOK, LoseUpload
<1>3. RowsHaveFiles' /\ ResultIsOwn' /\ RemovesTheDead' /\ JobsHaveImages'
  BY DEF RowsHaveFiles, KeysOf, ResultIsOwn, RemovesTheDead, JobsHaveImages, HasRow,
         LoseUpload, rows
<1>4. WrittenIsThere'
  BY <1>2 DEF WrittenIsThere, LoseUpload, rows
<1> QED BY <1>1, <1>3, <1>4

-----------------------------------------------------------------------------
(* Jobs *)

(* A job's row that changes and stays a row, of a worker that may end. *)
LEMMA RowMoves ==
    ASSUME StoreInv, UNCHANGED <<image, result, deleted, files, upload, request, failures, ghosts>>,
           NEW j \in Jobs, image[job[j].image] = "stored",
           NEW s \in {"queued", "running", "completed", "failed"},
           job' = [job EXCEPT ![j].status = s],
           NEW w \in {"waiting", "running", "over"},
           worker' = [worker EXCEPT ![j] = w],
           worker[j] = "over" => w = "over"
    PROVE  StoreInv'
<1> USE DEF StoreInv
<1>1. TypeOK'
  BY JobFields DEF TypeOK, ghosts
<1>2. \A k \in Jobs :
        /\ job'[k].image = job[k].image
        /\ job'[k].status = IF k = j THEN s ELSE job[k].status
        /\ worker'[k] = IF k = j THEN w ELSE worker[k]
  BY DEF TypeOK, Job
<1>3. RowsHaveFiles'
  BY DEF RowsHaveFiles, KeysOf
<1>4. WrittenIsThere'
  BY <1>2 DEF WrittenIsThere
<1>5. ResultIsOwn'
  BY <1>2 DEF TypeOK, ResultIsOwn
<1>6. RemovesTheDead'
  BY <1>2 DEF RemovesTheDead
<1>7. JobsHaveImages'
  BY <1>2 DEF JobsHaveImages, HasRow
<1> QED BY <1>1, <1>3, <1>4, <1>5, <1>6, <1>7

LEMMA CreateJobStep ==
    ASSUME StoreInv, NEW j \in Jobs, CreateJob(j)
    PROVE  StoreInv'
<1>1. worker[j] = "waiting" /\ worker' = [worker EXCEPT ![j] = "waiting"]
  BY DEF StoreInv, TypeOK, JobsHaveImages, CreateJob, threads
<1> QED BY <1>1, RowMoves DEF CreateJob, Stored, threads

(* A job that is started, or failed, and whose row may have gone.          *)
LEMMA StartOrFailStep ==
    ASSUME StoreInv, NEW j \in Jobs, Start(j) \/ FailJob(j)
    PROVE  StoreInv'
<1>1. worker[j] # "over" /\ job[j].status # "none"
  BY DEF StoreInv, JobsHaveImages, Start, FailJob
<1>2. CASE HasRow(j)
  <2>1. image[job[j].image] = "stored"
    BY <1>2 DEF StoreInv, JobsHaveImages
  <2> QED BY <1>1, <1>2, <2>1, RowMoves DEF Start, FailJob
<1>3. CASE ~HasRow(j)
  <2>1. job' = job
    BY <1>3 DEF StoreInv, TypeOK, Job, Start, FailJob
  <2>2. worker' = [worker EXCEPT ![j] = "over"]
    BY <1>3 DEF Start, FailJob
  <2>3. /\ UNCHANGED <<rows, files, upload, request, ghosts>>
        /\ failures' \in 0..MaxFailures
    BY <2>1 DEF StoreInv, TypeOK, Start, FailJob, rows, ghosts
  <2> QED BY <1>1, <2>2, <2>3, WorkerMoves
<1> QED BY <1>2, <1>3

LEMMA WorkerStep ==
    ASSUME StoreInv, NEW j \in Jobs, LoadJob(j) \/ LoadImage(j) \/ ReadOriginal(j) \/ LoseOutcome(j)
    PROVE  StoreInv'
<1>1. worker[j] # "over" /\ job[j].status # "none"
  BY DEF StoreInv, JobsHaveImages, LoadJob, LoadImage, ReadOriginal, LoseOutcome
<1>2. \E s \in {"loaded", "starting", "enhancing", "over"} : worker' = [worker EXCEPT ![j] = s]
  BY DEF LoadJob, LoadImage, ReadOriginal, LoseOutcome
<1>3. failures' \in 0..MaxFailures
  BY StoreAssumption DEF StoreInv, TypeOK, LoadJob, LoadImage, ReadOriginal, LoseOutcome
<1>4. UNCHANGED <<rows, files, upload, request, ghosts>>
  BY DEF LoadJob, LoadImage, ReadOriginal, LoseOutcome, ghosts
<1> QED BY <1>1, <1>2, <1>3, <1>4, WorkerMoves

LEMMA ExportStep ==
    ASSUME StoreInv, NEW j \in Jobs, Export(j)
    PROVE  StoreInv'
<1> USE DEF StoreInv
<1>1. TypeOK'
  BY KeyNames DEF TypeOK, Export, Put, rows, ghosts
<1>2. \A k \in Jobs : worker'[k] = IF k = j THEN "exported" ELSE worker[k]
  BY DEF TypeOK, Export
<1>3. worker[j] = "enhancing" /\ files \subseteq files' /\ Enhanced(j) \in files'
  BY DEF Export, Put
<1>4. RowsHaveFiles'
  BY <1>3 DEF RowsHaveFiles, KeysOf, Export, Put, rows
<1>5. WrittenIsThere'
  BY <1>2, <1>3 DEF WrittenIsThere, Export, Put, rows
<1>6. ResultIsOwn'
  BY <1>2, <1>3 DEF TypeOK, ResultIsOwn, Export, rows
<1>7. RemovesTheDead'
  BY <1>2, <1>3 DEF RemovesTheDead, Export, rows
<1>8. JobsHaveImages'
  BY <1>2, <1>3 DEF JobsHaveImages, HasRow, Export, rows
<1> QED BY <1>1, <1>4, <1>5, <1>6, <1>7, <1>8

(* The row points to what the worker has written. *)
LEMMA CompleteStep ==
    ASSUME StoreInv, NEW j \in Jobs, Complete(j)
    PROVE  StoreInv'
<1> USE DEF StoreInv
<1> DEFINE i == job[j].image
<1>1. i \in Images /\ image[i] = "stored" /\ worker[j] = "exported" /\ Enhanced(j) \in files
  BY JobFields DEF Complete, JobsHaveImages, WrittenIsThere
<1>2. TypeOK'
  BY <1>1, JobFields DEF TypeOK, Complete, ghosts
<1>3. \A k \in Jobs :
        /\ job'[k].image = job[k].image
        /\ job'[k].status = IF k = j THEN "completed" ELSE job[k].status
        /\ worker'[k] = IF k = j THEN "over" ELSE worker[k]
  BY DEF TypeOK, Job, Complete
<1>4. \A k \in Images : result'[k] = IF k = i THEN j ELSE result[k]
  BY DEF TypeOK, Complete
<1> HIDE DEF i
<1>5. RowsHaveFiles'
  BY <1>1, <1>4 DEF RowsHaveFiles, KeysOf, Complete
<1>6. WrittenIsThere'
  BY <1>3 DEF WrittenIsThere, Complete
<1>7. ResultIsOwn'
  BY <1>1, <1>3, <1>4 DEF TypeOK, ResultIsOwn, Complete, i
<1>8. RemovesTheDead'
  BY <1>3 DEF RemovesTheDead, Complete
<1>9. JobsHaveImages'
  BY <1>1, <1>3 DEF JobsHaveImages, HasRow, Complete, i
<1> QED BY <1>2, <1>5, <1>6, <1>7, <1>8, <1>9

-----------------------------------------------------------------------------
(* Deletions *)

(* What is stored was never nothing, and an output its row points to is of *)
(* a job of that image, whose worker is over.                              *)
LEMMA FoundIsFound ==
    ASSUME StoreInv, NEW is \in SUBSET Stored
    PROVE  /\ is \in SUBSET Images /\ KeysOf(is) \subseteq Keys
           /\ \A i \in is : image[i] # "none"
           /\ \A i \in Images : Original(i) \in KeysOf(is) => i \in is
           /\ \A j \in Jobs : Enhanced(j) \in KeysOf(is) =>
                  job[j].image \in is /\ worker[j] = "over"
<1>1. is \in SUBSET Images /\ \A i \in is : image[i] # "none"
  BY DEF Stored
<1>2. \A j \in Jobs, k \in is : result[k] = j => job[j].image = k /\ worker[j] = "over"
  BY <1>1, StoreAssumption DEF StoreInv, ResultIsOwn
<1> QED BY <1>1, <1>2, KeysOfImages DEF StoreInv

LEMMA FindStep ==
    ASSUME StoreInv, NEW r \in Requests, (\E i \in Images : FindImage(r, i)) \/ FindAll(r)
    PROVE  StoreInv'
<1>1. PICK is \in SUBSET Stored, st \in {"found", "checked"}, w \in BOOLEAN :
        request' = [request EXCEPT ![r] = Found(st, is, w)]
  BY DEF FindImage, FindAll
<1> DEFINE q == Found(st, is, w)
<1>2. q.of = is /\ q.keys = KeysOf(is) /\ q.stage # "removing"
  BY DEF Found, Idle
<1>3. q \in Request
  BY FoundIsFound DEF Found, Request, Idle
<1>4. owed' \subseteq Keys
  <2>1. CASE owed' = owed
    BY <2>1 DEF StoreInv, TypeOK
  <2>2. CASE FindAll(r)
    <3>1. \A i \in Stored : Original(i) \in Keys
      BY KeyNames DEF Stored
    <3> QED BY <2>2, <3>1, KeyNames DEF FindAll
  <2> QED BY <2>1, <2>2 DEF FindImage, ghosts
<1>5. UNCHANGED <<rows, files, upload, worker, failures, erased>>
  BY DEF FindImage, FindAll, ghosts
<1>6. request' = [request EXCEPT ![r] = q]
  BY <1>1
<1>7. /\ \A i \in is : image[i] # "none"
      /\ \A i \in Images : Original(i) \in KeysOf(is) => i \in is
      /\ \A j \in Jobs : Enhanced(j) \in KeysOf(is) => job[j].image \in is /\ worker[j] = "over"
  BY FoundIsFound
<1> HIDE DEF q
<1> QED BY <1>2, <1>3, <1>4, <1>5, <1>6, <1>7, RequestMoves

(* A deletion that finds jobs, moves on, or ends. *)
LEMMA MoveStep ==
    ASSUME StoreInv, NEW r \in Requests, CheckActive(r) \/ Gather(r) \/ EndRequest(r)
    PROVE  StoreInv'
<1>1. CASE EndRequest(r)
  <2>1. Idle.of = {} /\ Idle.keys = {}
    BY DEF Idle
  <2> QED BY <1>1, <2>1, RequestFields, RequestMoves DEF EndRequest, StoreInv, TypeOK, ghosts
<1>2. CASE CheckActive(r) \/ Gather(r)
  <2>1. PICK st \in {"checked", "gathered"}, as \in SUBSET Jobs, js \in SUBSET Jobs :
          request' = [request EXCEPT ![r] =
              [request[r] EXCEPT !.stage = st, !.asked = as, !.jobs = js]]
    <3>1. JobsOf(Doomed(r)) \in SUBSET Jobs /\ JobsOf(request[r].of) \in SUBSET Jobs
      BY DEF JobsOf
    <3>2. request[r] \in Request /\ request \in [Requests -> Request]
      BY DEF StoreInv, TypeOK
    <3>3. request[r].asked \in SUBSET Jobs /\ request[r].jobs \in SUBSET Jobs
      BY <3>2 DEF Request
    <3>4. CASE CheckActive(r)
      <4>1. [request[r] EXCEPT !.stage = "checked", !.asked = JobsOf(request[r].of)]
              = [request[r] EXCEPT !.stage = "checked", !.asked = JobsOf(request[r].of),
                                   !.jobs = request[r].jobs]
        BY <3>2 DEF Request
      <4>2. request' = [request EXCEPT ![r] =
              [request[r] EXCEPT !.stage = "checked", !.asked = JobsOf(request[r].of)]]
        BY <3>2, <3>4 DEF CheckActive
      <4> QED BY <3>1, <3>3, <4>1, <4>2
    <3>5. CASE Gather(r)
      <4>1. [request[r] EXCEPT !.stage = "gathered", !.jobs = JobsOf(Doomed(r))]
              = [request[r] EXCEPT !.stage = "gathered", !.asked = request[r].asked,
                                   !.jobs = JobsOf(Doomed(r))]
        BY <3>2 DEF Request
      <4>2. request' = [request EXCEPT ![r] =
              [request[r] EXCEPT !.stage = "gathered", !.jobs = JobsOf(Doomed(r))]]
        BY <3>2, <3>5 DEF Gather
      <4> QED BY <3>1, <3>3, <4>1, <4>2
    <3> QED BY <1>2, <3>4, <3>5
  <2> DEFINE q == [request[r] EXCEPT !.stage = st, !.asked = as, !.jobs = js]
  <2>2. q \in Request
    BY RequestFields DEF StoreInv
  <2>3. q.of = request[r].of /\ q.keys = request[r].keys /\ q.stage # "removing"
    BY DEF StoreInv, TypeOK, Request
  <2>4. request' = [request EXCEPT ![r] = q]
    BY <2>1
  <2>5. /\ owed' \subseteq Keys
        /\ UNCHANGED <<rows, files, upload, worker, failures, erased>>
    BY <1>2 DEF CheckActive, Gather, StoreInv, TypeOK, ghosts
  <2>6. /\ \A i \in request[r].of : image[i] # "none"
        /\ \A i \in Images : Original(i) \in request[r].keys => i \in request[r].of
        /\ \A j \in Jobs : Enhanced(j) \in request[r].keys =>
               job[j].image \in request[r].of /\ worker[j] = "over"
    BY DEF StoreInv, RemovesTheDead
  <2> HIDE DEF q
  <2> QED BY <2>2, <2>3, <2>4, <2>5, <2>6, RequestMoves
<1> QED BY <1>1, <1>2

(* The images a deletion has found are gone with their rows, and no job is *)
(* left without its image.                                                 *)
LEMMA RemoveRowsStep ==
    ASSUME StoreInv, NEW r \in Requests, RemoveRows(r)
    PROVE  StoreInv'
<1> USE DEF StoreInv
<1>1. \A i \in Images : image'[i] = IF i \in Doomed(r) THEN "deleted" ELSE image[i]
  BY DEF RemoveRows
<1>2. \A j \in Jobs :
        /\ job'[j].image = job[j].image
        /\ job'[j].status = IF j \in request[r].jobs /\ HasRow(j) THEN "deleted"
                            ELSE job[j].status
  BY DEF TypeOK, Job, RemoveRows, WithoutJobs
<1>3. \A p \in Requests :
        /\ request'[p].of = request[p].of /\ request'[p].keys = request[p].keys
        /\ p # r => request'[p] = request[p]
  BY DEF TypeOK, Request, RemoveRows
<1>4. \A i \in request[r].of : i \in Images /\ (image[i] = "deleted" \/ i \in Doomed(r))
  BY RequestFields DEF TypeOK, RemovesTheDead, Doomed, Stored
<1>5. TypeOK'
  <2>1. job' \in [Jobs -> Job]
    BY DEF TypeOK, Job, RemoveRows, WithoutJobs
  <2>2. request' \in [Requests -> Request]
    BY DEF TypeOK, Request, RemoveRows
  <2>3. erased' \subseteq Jobs /\ deleted' \in BOOLEAN
    BY DEF TypeOK, Request, RemoveRows
  <2>4. image' \in [Images -> {"none", "stored", "deleted"}]
    BY DEF TypeOK, RemoveRows
  <2> QED BY <2>1, <2>2, <2>3, <2>4 DEF TypeOK, RemoveRows
<1>6. RowsHaveFiles'
  BY <1>1 DEF RowsHaveFiles, KeysOf, RemoveRows
<1>7. WrittenIsThere'
  <2>1. \A i \in Images : image[i] = "none" => i \notin Doomed(r)
    BY DEF Doomed, Stored, RemovesTheDead
  <2> QED BY <1>1, <2>1 DEF WrittenIsThere, RemoveRows
<1>8. ResultIsOwn'
  BY <1>1, <1>2 DEF TypeOK, ResultIsOwn, RemoveRows
<1>9. RemovesTheDead'
  <2> SUFFICES ASSUME NEW p \in Requests
               PROVE  /\ \A i \in request'[p].of :
                             /\ image'[i] # "none"
                             /\ request'[p].stage = "removing" => image'[i] = "deleted"
                      /\ \A i \in Images :
                             Original(i) \in request'[p].keys => i \in request'[p].of
                      /\ \A j \in Jobs : Enhanced(j) \in request'[p].keys =>
                             job'[j].image \in request'[p].of /\ worker'[j] = "over"
    BY DEF RemovesTheDead
  <2>1. request[p].of \subseteq Images
    BY RequestFields
  <2>2. \A i \in request[p].of :
          /\ image[i] # "none"
          /\ request[p].stage = "removing" => image[i] = "deleted"
    BY DEF RemovesTheDead
  <2>3. \A i \in request'[p].of :
          /\ image'[i] # "none"
          /\ request'[p].stage = "removing" => image'[i] = "deleted"
    <3>1. CASE p = r
      BY <1>1, <1>3, <1>4, <2>1, <2>2, <3>1
    <3>2. CASE p # r
      BY <1>1, <1>3, <2>1, <2>2, <3>2
    <3> QED BY <3>1, <3>2
  <2>4. worker' = worker
    BY DEF RemoveRows
  <2> QED BY <1>2, <1>3, <2>3, <2>4 DEF RemovesTheDead
<1>10. JobsHaveImages'
  <2> SUFFICES ASSUME NEW j \in Jobs
               PROVE  /\ HasRow(j)' => image'[job'[j].image] = "stored"
                      /\ job'[j].status = "none" => worker'[j] = "waiting"
    BY DEF JobsHaveImages
  <2>1. HasRow(j)' => HasRow(j) /\ j \notin request[r].jobs
    BY <1>2 DEF HasRow
  <2>2. HasRow(j)' => job[j].image \in Images \ Doomed(r)
    BY <2>1, JobFields DEF RemoveRows, JobsOf
  <2> QED BY <1>1, <1>2, <2>1, <2>2 DEF JobsHaveImages, RemoveRows
<1> QED BY <1>5, <1>6, <1>7, <1>8, <1>9, <1>10

(* The file that goes is of an image that is gone, and of no worker.       *)
LEMMA RemoveFileStep ==
    ASSUME StoreInv, NEW r \in Requests, NEW k \in Keys, RemoveFile(r, k)
    PROVE  StoreInv'
<1> USE DEF StoreInv
<1>1. \A p \in Requests :
        /\ request'[p].of = request[p].of /\ request'[p].stage = request[p].stage
        /\ request'[p].keys \subseteq request[p].keys
  BY DEF TypeOK, Request, RemoveFile
<1>2. TypeOK'
  <2>1. request' \in [Requests -> Request]
    BY DEF TypeOK, Request, RemoveFile, Drop
  <2>2. files' \subseteq Keys /\ failures' \in 0..MaxFailures
    BY StoreAssumption DEF TypeOK, RemoveFile, Drop
  <2> QED BY <2>1, <2>2 DEF TypeOK, RemoveFile, Drop, rows, ghosts
<1>3. \A i \in Images : Original(i) \in files /\ Original(i) \notin files' => image[i] = "deleted"
  BY DEF RemoveFile, Drop, RemovesTheDead
<1>4. \A j \in Jobs : Enhanced(j) \in files /\ Enhanced(j) \notin files' =>
          image[job[j].image] = "deleted" /\ worker[j] = "over"
  BY DEF RemoveFile, Drop, RemovesTheDead
<1>5. RowsHaveFiles'
  <2> SUFFICES ASSUME NEW i \in Images, image[i] = "stored"
               PROVE  /\ Original(i) \in files'
                      /\ result[i] # NoJob => Enhanced(result[i]) \in files'
    BY DEF RowsHaveFiles, KeysOf, RemoveFile, rows
  <2>1. Original(i) \in files /\ (result[i] # NoJob => Enhanced(result[i]) \in files)
    BY DEF RowsHaveFiles, KeysOf
  <2>2. result[i] # NoJob => result[i] \in Jobs /\ job[result[i]].image = i
    BY DEF TypeOK, ResultIsOwn
  <2> QED BY <1>3, <1>4, <2>1, <2>2
<1>6. WrittenIsThere'
  BY <1>3, <1>4 DEF WrittenIsThere, RemoveFile, rows
<1>7. ResultIsOwn' /\ JobsHaveImages'
  BY DEF ResultIsOwn, JobsHaveImages, HasRow, RemoveFile, rows
<1>8. RemovesTheDead'
  BY <1>1 DEF RemovesTheDead, RemoveFile, rows
<1> QED BY <1>2, <1>5, <1>6, <1>7, <1>8

LEMMA RestartStep ==
    ASSUME StoreInv, Restart
    PROVE  StoreInv'
<1> USE DEF StoreInv
<1>1. /\ \A j \in Jobs : job'[j].image = job[j].image
      /\ \A j \in Jobs : job'[j].status = IF Active(j) THEN "failed" ELSE job[j].status
  BY DEF TypeOK, Job, Restart
<1>2. TypeOK'
  <2>1. job' \in [Jobs -> Job]
    BY DEF TypeOK, Job, Restart
  <2>2. Idle \in Request
    BY DEF Idle, Request
  <2>3. request' \in [Requests -> Request]
    BY <2>2 DEF Restart
  <2>4. failures' \in 0..MaxFailures
    BY StoreAssumption DEF TypeOK, Restart
  <2>5. /\ upload' \in [Images -> {"idle", "put", "over"}]
        /\ worker' \in [Jobs -> {"waiting", "loaded", "starting", "running", "enhancing",
                                 "exported", "over"}]
    BY DEF TypeOK, Restart
  <2> QED BY <2>1, <2>3, <2>4, <2>5 DEF TypeOK, Restart, ghosts
<1>3. RowsHaveFiles' /\ WrittenIsThere'
  BY <1>1 DEF TypeOK, RowsHaveFiles, KeysOf, WrittenIsThere, Restart
<1>4. ResultIsOwn'
  BY <1>1 DEF TypeOK, ResultIsOwn, JobsHaveImages, Restart
<1>5. RemovesTheDead'
  BY DEF RemovesTheDead, Idle, Restart
<1>6. JobsHaveImages'
  BY <1>1 DEF JobsHaveImages, HasRow, Active, Restart
<1> QED BY <1>2, <1>3, <1>4, <1>5, <1>6

-----------------------------------------------------------------------------
LEMMA StoreStep == StoreInv /\ [Change]_store => StoreInv'
<1> SUFFICES ASSUME StoreInv, [Change]_store PROVE StoreInv'
  OBVIOUS
<1>1. CASE UNCHANGED store
  BY <1>1 DEF store, rows, threads, ghosts, StoreInv, TypeOK, RowsHaveFiles, KeysOf, WrittenIsThere,
              ResultIsOwn, RemovesTheDead, JobsHaveImages, HasRow
<1>2. ASSUME NEW i \in Images, PutFile(i) \/ InsertImage(i) \/ LoseUpload(i) PROVE StoreInv'
  BY <1>2, PutFileStep, InsertImageStep, LoseUploadStep
<1>3. ASSUME NEW j \in Jobs, CreateJob(j) \/ Start(j) \/ FailJob(j) PROVE StoreInv'
  BY <1>3, CreateJobStep, StartOrFailStep
<1>4. ASSUME NEW j \in Jobs, LoadJob(j) \/ LoadImage(j) \/ ReadOriginal(j) \/ LoseOutcome(j)
      PROVE  StoreInv'
  BY <1>4, WorkerStep
<1>5. ASSUME NEW j \in Jobs, Export(j) \/ Complete(j) PROVE StoreInv'
  BY <1>5, ExportStep, CompleteStep
<1>6. ASSUME NEW r \in Requests, (\E i \in Images : FindImage(r, i)) \/ FindAll(r) PROVE StoreInv'
  BY <1>6, FindStep
<1>7. ASSUME NEW r \in Requests, CheckActive(r) \/ Gather(r) \/ EndRequest(r) PROVE StoreInv'
  BY <1>7, MoveStep
<1>8. ASSUME NEW r \in Requests, RemoveRows(r) \/ \E k \in Keys : RemoveFile(r, k) PROVE StoreInv'
  BY <1>8, RemoveRowsStep, RemoveFileStep
<1>9. CASE Restart
  BY <1>9, RestartStep
<1> QED BY <1>1, <1>2, <1>3, <1>4, <1>5, <1>6, <1>7, <1>8, <1>9 DEF Change, Write

-----------------------------------------------------------------------------
(* What deletions have asked about *)

(* A step after which no job has left its worker's end, no deletion has    *)
(* asked anything, and nothing was removed, keeps what was asked over.     *)
LEMMA AskedKept ==
    ASSUME IInv, UNCHANGED erased,
           \A j \in Jobs : worker[j] = "over" => worker'[j] = "over",
           \A j \in Jobs : HasRow(j)' /\ ~Active(j)' => worker'[j] = "over",
           \A j \in Jobs : job[j].status # "none" => job'[j].status # "none",
           \A j \in Jobs : worker[j] = "over" /\ Active(j)' => Active(j),
           \A r \in Requests : request'[r].asked \subseteq request[r].asked
    PROVE  AskedAreOver'
<1>1. \A r \in Requests : request[r].asked \subseteq Jobs
  BY DEF IInv, StoreInv, TypeOK, Request
<1>2. ActiveJobsKept'
  BY DEF IInv, AskedAreOver, ActiveJobsKept
<1>3. \A r \in Requests : \A j \in request'[r].asked :
          worker'[j] = "over" /\ ~Active(j)' /\ job'[j].status # "none"
  <2> SUFFICES ASSUME NEW r \in Requests, NEW j \in request'[r].asked
               PROVE  worker'[j] = "over" /\ ~Active(j)' /\ job'[j].status # "none"
    OBVIOUS
  <2>1. j \in request[r].asked /\ j \in Jobs
    BY <1>1
  <2> QED BY <2>1 DEF IInv, AskedAreOver
<1> QED BY <1>2, <1>3 DEF AskedAreOver

LEMMA JobAsked ==
    ASSUME IInv, NEW j \in Jobs,
           \/ CreateJob(j) \/ LoadJob(j) \/ LoadImage(j) \/ Start(j) \/ ReadOriginal(j)
           \/ Export(j) \/ Complete(j) \/ FailJob(j) \/ LoseOutcome(j)
    PROVE  AskedAreOver'
<1> DEFINE Moves == CreateJob(j) \/ LoadJob(j) \/ LoadImage(j) \/ Start(j) \/ ReadOriginal(j)
                    \/ Export(j) \/ Complete(j) \/ FailJob(j) \/ LoseOutcome(j)
<1>1. UNCHANGED <<request, erased>>
  BY DEF CreateJob, LoadJob, LoadImage, Start, ReadOriginal, Export, Complete, FailJob, LoseOutcome,
         ghosts, threads
<1>2. \A k \in Jobs \ {j} : worker'[k] = worker[k] /\ job'[k] = job[k]
  BY DEF IInv, StoreInv, TypeOK, CreateJob, LoadJob, LoadImage, Start, ReadOriginal, Export, Complete,
         FailJob, LoseOutcome, threads, rows
<1>3. worker[j] # "over"
  BY DEF IInv, StoreInv, JobsHaveImages, CreateJob, LoadJob, LoadImage, Start, ReadOriginal, Export,
         Complete, FailJob, LoseOutcome
<1>4. HasRow(j) /\ job[j].status # "none" => Active(j)
  BY <1>3 DEF IInv, AskedAreOver
<1>5. job[j].status # "none" => job'[j].status # "none"
  BY DEF IInv, StoreInv, TypeOK, Job, CreateJob, LoadJob, LoadImage, Start, ReadOriginal, Export,
         Complete, FailJob, LoseOutcome, rows
<1>6. HasRow(j)' /\ ~Active(j)' => worker'[j] = "over"
  <2>1. CASE CreateJob(j) \/ Start(j) \/ Complete(j) \/ FailJob(j)
    BY <1>4, <2>1 DEF IInv, StoreInv, TypeOK, Job, HasRow, Active, CreateJob, Start, Complete, FailJob,
                      threads
  <2>2. CASE LoadJob(j) \/ LoadImage(j) \/ ReadOriginal(j) \/ Export(j) \/ LoseOutcome(j)
    BY <1>4, <2>2 DEF HasRow, Active, LoadJob, LoadImage, ReadOriginal, Export, LoseOutcome, rows
  <2> QED BY <2>1, <2>2
<1>7. \A k \in Jobs : HasRow(k)' /\ ~Active(k)' => worker'[k] = "over"
  BY <1>2, <1>6 DEF IInv, AskedAreOver, HasRow, Active
<1>8. \A k \in Jobs : worker[k] = "over" /\ Active(k)' => Active(k)
  BY <1>2, <1>3 DEF Active
<1> QED BY <1>1, <1>2, <1>3, <1>5, <1>7, <1>8, AskedKept

(* Asking finds only jobs that are settled. *)
LEMMA CheckActiveAsked ==
    ASSUME IInv, NEW r \in Requests, CheckActive(r)
    PROVE  AskedAreOver'
<1>1. UNCHANGED <<worker, job, erased>>
  BY DEF CheckActive, rows, ghosts
<1>2. \A q \in Requests : request'[q].asked = IF q = r THEN JobsOf(request[r].of) ELSE request[q].asked
  BY DEF IInv, StoreInv, TypeOK, Request, CheckActive
<1>3. \A j \in JobsOf(request[r].of) : worker[j] = "over" /\ ~Active(j) /\ job[j].status # "none"
  BY DEF IInv, AskedAreOver, CheckActive, JobsOf, HasRow
<1> QED BY <1>1, <1>2, <1>3 DEF IInv, AskedAreOver, ActiveJobsKept, HasRow, Active

(* The jobs that go are jobs that no worker will touch, or that came after *)
(* the deletion had asked.                                                 *)
LEMMA RemoveRowsAsked ==
    ASSUME IInv, NEW r \in Requests, RemoveRows(r)
    PROVE  AskedAreOver'
<1>1. request[r].asked \cap {j \in request[r].jobs : Active(j)} = {}
  BY DEF IInv, AskedAreOver
<1>2. UNCHANGED <<worker, erased>>
  BY <1>1 DEF RemoveRows
<1>3. \A j \in Jobs :
        job'[j].status = IF j \in request[r].jobs /\ HasRow(j) THEN "deleted" ELSE job[j].status
  BY DEF IInv, StoreInv, TypeOK, Job, RemoveRows, WithoutJobs
<1>4. \A q \in Requests : request'[q].asked = request[q].asked
  BY DEF IInv, StoreInv, TypeOK, Request, RemoveRows
<1>5. \A j \in Jobs : HasRow(j)' /\ ~Active(j)' => HasRow(j) /\ ~Active(j)
  BY <1>3 DEF HasRow, Active
<1>6. \A j \in Jobs : HasRow(j)' /\ ~Active(j)' => worker'[j] = "over"
  BY <1>2, <1>5 DEF IInv, AskedAreOver
<1>7. \A j \in Jobs : Active(j)' => Active(j)
  BY <1>3 DEF Active
<1>8. \A j \in Jobs : job[j].status # "none" => job'[j].status # "none"
  BY <1>3
<1> QED BY <1>2, <1>4, <1>6, <1>7, <1>8, AskedKept

LEMMA RestartAsked ==
    ASSUME IInv, Restart
    PROVE  AskedAreOver'
<1>1. \A j \in Jobs :
        /\ job'[j].status = IF Active(j) THEN "failed" ELSE job[j].status
        /\ worker'[j] = IF job[j].status = "none" THEN "waiting" ELSE "over"
  BY DEF IInv, StoreInv, TypeOK, Job, Restart
<1>2. \A j \in Jobs : HasRow(j)' => worker'[j] = "over"
  BY <1>1 DEF HasRow, Active
<1>3. \A q \in Requests : request'[q].asked = {}
  BY DEF Restart, Idle
<1>4. erased' = {}
  BY DEF IInv, AskedAreOver, ActiveJobsKept, Restart, ghosts
<1> QED BY <1>2, <1>3, <1>4 DEF AskedAreOver, ActiveJobsKept

LEMMA AskedStep == IInv /\ [Change]_store => AskedAreOver'
<1> SUFFICES ASSUME IInv, [Change]_store PROVE AskedAreOver'
  OBVIOUS
<1>1. CASE UNCHANGED store
  BY <1>1 DEF store, rows, threads, ghosts, IInv, AskedAreOver, ActiveJobsKept, HasRow, Active
<1>2. ASSUME NEW i \in Images, PutFile(i) \/ InsertImage(i) \/ LoseUpload(i) PROVE AskedAreOver'
  BY <1>2 DEF IInv, AskedAreOver, ActiveJobsKept, HasRow, Active, PutFile, InsertImage, LoseUpload,
              rows, ghosts
<1>3. ASSUME NEW j \in Jobs,
             \/ CreateJob(j) \/ LoadJob(j) \/ LoadImage(j) \/ Start(j) \/ ReadOriginal(j)
             \/ Export(j) \/ Complete(j) \/ FailJob(j) \/ LoseOutcome(j)
      PROVE  AskedAreOver'
  BY <1>3, JobAsked
<1>4. ASSUME NEW r \in Requests,
             \/ \E i \in Images : FindImage(r, i)
             \/ FindAll(r) \/ Gather(r) \/ EndRequest(r)
             \/ \E k \in Keys : RemoveFile(r, k)
      PROVE  AskedAreOver'
  <2>1. UNCHANGED <<worker, job, erased>>
    BY <1>4 DEF FindImage, FindAll, Gather, EndRequest, RemoveFile, rows, ghosts
  <2>2. \A q \in Requests : request'[q].asked \subseteq request[q].asked
    <3>1. request \in [Requests -> Request]
      BY DEF IInv, StoreInv, TypeOK
    <3>2. \A st \in {"found", "checked"}, is \in SUBSET Images, w \in BOOLEAN :
              Found(st, is, w).asked = {}
      BY DEF Found, Idle
    <3>3. Stored \in SUBSET Images /\ \A i \in Images : {i} \in SUBSET Images
      BY DEF Stored
    <3>4. CASE (\E i \in Images : FindImage(r, i)) \/ FindAll(r) \/ EndRequest(r)
      <4>1. CASE EndRequest(r)
        BY <3>1, <4>1 DEF EndRequest, Idle
      <4>2. CASE (\E i \in Images : FindImage(r, i)) \/ FindAll(r)
        <5>1. PICK st \in {"found", "checked"}, is \in SUBSET Images, w \in BOOLEAN :
                request' = [request EXCEPT ![r] = Found(st, is, w)]
          BY <3>3, <4>2 DEF FindImage, FindAll
        <5>2. \A q \in Requests : request'[q] = IF q = r THEN Found(st, is, w) ELSE request[q]
          BY <3>1, <5>1
        <5> QED BY <3>2, <5>2
      <4> QED BY <3>4, <4>1, <4>2
    <3>5. CASE Gather(r)
      BY <3>1, <3>5 DEF Gather, Request
    <3>6. CASE \E k \in Keys : RemoveFile(r, k)
      BY <3>1, <3>6 DEF RemoveFile, Request
    <3> QED BY <1>4, <3>4, <3>5, <3>6
  <2> QED BY <2>1, <2>2, AskedKept DEF IInv, AskedAreOver, HasRow, Active
<1>5. ASSUME NEW r \in Requests, CheckActive(r) \/ RemoveRows(r) PROVE AskedAreOver'
  BY <1>5, CheckActiveAsked, RemoveRowsAsked
<1>6. CASE Restart
  BY <1>6, RestartAsked
<1> QED BY <1>1, <1>2, <1>3, <1>4, <1>5, <1>6 DEF Change, Write

-----------------------------------------------------------------------------
(* Downloads *)

(* An image that is deleted stays so, and a job its own image's.           *)
LEMMA GoneStays ==
    ASSUME IInv, [Change]_store
    PROVE  /\ \A i \in Images : image[i] = "deleted" => image'[i] = "deleted"
           /\ \A i \in Images : image[i] # "none" => image'[i] # "none"
           /\ \A j \in Jobs : job[j].status = "deleted" => job'[j].status = "deleted"
           /\ \A j \in Jobs : job'[j].image = job[j].image
<1> DEFINE Final ==
        /\ \A i \in Images : image[i] = "deleted" => image'[i] = "deleted"
        /\ \A i \in Images : image[i] # "none" => image'[i] # "none"
        /\ \A j \in Jobs : job[j].status = "deleted" => job'[j].status = "deleted"
        /\ \A j \in Jobs : job'[j].image = job[j].image
<1>1. ASSUME NEW i \in Images, PutFile(i) \/ InsertImage(i) \/ LoseUpload(i) PROVE Final
  BY <1>1 DEF IInv, StoreInv, TypeOK, WrittenIsThere, PutFile, InsertImage, LoseUpload, rows
<1>2. ASSUME NEW j \in Jobs, CreateJob(j) \/ Start(j) \/ FailJob(j) \/ Complete(j) PROVE Final
  BY <1>2 DEF IInv, StoreInv, TypeOK, Job, HasRow, CreateJob, Start, FailJob, Complete, threads
<1>3. ASSUME NEW j \in Jobs,
             LoadJob(j) \/ LoadImage(j) \/ ReadOriginal(j) \/ Export(j) \/ LoseOutcome(j)
      PROVE  Final
  BY <1>3 DEF LoadJob, LoadImage, ReadOriginal, Export, LoseOutcome, rows
<1>4. ASSUME NEW r \in Requests,
             \/ \E i \in Images : FindImage(r, i)
             \/ CheckActive(r) \/ FindAll(r) \/ Gather(r) \/ EndRequest(r)
             \/ \E k \in Keys : RemoveFile(r, k)
      PROVE  Final
  BY <1>4 DEF FindImage, CheckActive, FindAll, Gather, EndRequest, RemoveFile, rows
<1>5. ASSUME NEW r \in Requests, RemoveRows(r) PROVE Final
  BY <1>5 DEF IInv, StoreInv, TypeOK, Job, HasRow, RemoveRows, WithoutJobs
<1>6. CASE Restart
  BY <1>6 DEF IInv, StoreInv, TypeOK, Job, Active, Restart
<1>7. CASE UNCHANGED store
  BY <1>7 DEF store, rows
<1> QED BY <1>1, <1>2, <1>3, <1>4, <1>5, <1>6, <1>7 DEF Change, Write

(* A file goes only from an image that is deleted. *)
LEMMA FilesStay ==
    ASSUME IInv, [Change]_store
    PROVE  /\ \A i \in Images : Original(i) \in files =>
                  Original(i) \in files' \/ image'[i] = "deleted"
           /\ \A j \in Jobs : Enhanced(j) \in files =>
                  Enhanced(j) \in files' \/ image'[job[j].image] = "deleted"
<1>1. CASE files \subseteq files'
  BY <1>1
<1>2. ASSUME NEW r \in Requests, NEW k \in Keys, RemoveFile(r, k)
      PROVE  /\ \A i \in Images : Original(i) \in files =>
                    Original(i) \in files' \/ image'[i] = "deleted"
             /\ \A j \in Jobs : Enhanced(j) \in files =>
                    Enhanced(j) \in files' \/ image'[job[j].image] = "deleted"
  <2>1. files' \in {files, files \ {k}} /\ image' = image
    BY <1>2 DEF RemoveFile, Drop, rows
  <2>2. \A i \in Images : Original(i) = k => image[i] = "deleted"
    BY <1>2 DEF RemoveFile, IInv, StoreInv, RemovesTheDead
  <2>3. \A j \in Jobs : Enhanced(j) = k => image[job[j].image] = "deleted"
    BY <1>2 DEF RemoveFile, IInv, StoreInv, RemovesTheDead
  <2> QED BY <2>1, <2>2, <2>3
<1>3. ASSUME NEW i \in Images, PutFile(i) \/ InsertImage(i) \/ LoseUpload(i)
      PROVE  files \subseteq files'
  BY <1>3 DEF PutFile, InsertImage, LoseUpload, Put
<1>4. ASSUME NEW j \in Jobs,
             \/ CreateJob(j) \/ LoadJob(j) \/ LoadImage(j) \/ Start(j) \/ ReadOriginal(j)
             \/ Export(j) \/ Complete(j) \/ FailJob(j) \/ LoseOutcome(j)
      PROVE  files \subseteq files'
  BY <1>4 DEF CreateJob, LoadJob, LoadImage, Start, ReadOriginal, Export, Complete, FailJob,
              LoseOutcome, Put
<1>5. ASSUME NEW r \in Requests,
             \/ \E i \in Images : FindImage(r, i)
             \/ CheckActive(r) \/ FindAll(r) \/ Gather(r) \/ EndRequest(r) \/ RemoveRows(r)
      PROVE  files \subseteq files'
  BY <1>5 DEF FindImage, CheckActive, FindAll, Gather, EndRequest, RemoveRows
<1>6. Restart \/ UNCHANGED store => files \subseteq files'
  BY DEF Restart, store
<1> QED BY <1>1, <1>2, <1>3, <1>4, <1>5, <1>6 DEF Change, Write

(* What a download has read stays true under whatever others do. *)
LEMMA OthersStep ==
    ASSUME IInv, [Change]_store, download' \in {download, [d \in Downloads |-> Closed]}
    PROVE  DownloadsHaveFiles'
<1>1. Closed \in Download /\ Closed.stage # "missing" /\ Closed.of = {} /\ Closed.key = {}
  BY DEF Closed, Download
<1>2. CASE download' = [d \in Downloads |-> Closed]
  BY <1>1, <1>2 DEF DownloadsHaveFiles, MissingForCause
<1>3. CASE download' = download
  <2>1. \A d \in Downloads : download[d].of \subseteq Images
    BY DEF IInv, DownloadsHaveFiles, Download
  <2>2. MissingForCause'
    BY <1>3, <2>1, GoneStays DEF IInv, DownloadsHaveFiles, MissingForCause
  <2>3. ASSUME NEW d \in Downloads, NEW i \in download[d].of
        PROVE  /\ image'[i] # "none"
               /\ Original(i) \in download[d].key => Original(i) \in files' \/ image'[i] = "deleted"
               /\ \A k \in Images : Original(k) \in download[d].key => k = i
               /\ \A j \in Jobs : Enhanced(j) \in download[d].key =>
                     job'[j].image = i /\ (Enhanced(j) \in files' \/ image'[i] = "deleted")
    BY <2>1, <2>3, GoneStays, FilesStay DEF IInv, DownloadsHaveFiles
  <2> QED BY <1>3, <2>2, <2>3 DEF IInv, DownloadsHaveFiles
<1> QED BY <1>2, <1>3

(* A download that is closed, or whose stage alone changes. *)
LEMMA DownloadMoves ==
    ASSUME IInv, UNCHANGED store, NEW d \in Downloads, NEW s \in Download,
           download' = [download EXCEPT ![d] = s],
           \A i \in s.of : /\ image[i] # "none"
                           /\ Original(i) \in s.key => Original(i) \in files \/ image[i] = "deleted"
                           /\ \A k \in Images : Original(k) \in s.key => k = i
                           /\ \A j \in Jobs : Enhanced(j) \in s.key =>
                                 job[j].image = i /\ (Enhanced(j) \in files \/ image[i] = "deleted")
                           /\ s.stage = "missing" => image[i] = "deleted"
    PROVE  DownloadsHaveFiles'
<1>1. download \in [Downloads -> Download]
  BY DEF IInv, DownloadsHaveFiles
<1>2. \A e \in Downloads : download'[e] = IF e = d THEN s ELSE download[e]
  BY <1>1
<1>3. download' \in [Downloads -> Download]
  BY <1>1
<1>4. image' = image /\ job' = job /\ files' = files
  BY DEF store, rows
<1>5. MissingForCause'
  BY <1>2, <1>4 DEF IInv, DownloadsHaveFiles, MissingForCause
<1> QED BY <1>2, <1>3, <1>4, <1>5 DEF IInv, DownloadsHaveFiles

(* A row that is there points at files that are there. *)
LEMMA ReadRowStep ==
    ASSUME IInv, NEW d \in Downloads, NEW i \in Images, ReadRow(d, i)
    PROVE  DownloadsHaveFiles'
<1>1. PICK k \in KeysOf({i}) :
        download' = [download EXCEPT ![d] = [stage |-> "read", of |-> {i}, key |-> {k}]]
  BY DEF ReadRow
<1> DEFINE s == [stage |-> "read", of |-> {i}, key |-> {k}]
<1>2. UNCHANGED store /\ image[i] = "stored"
  BY DEF ReadRow, Stored
<1>3. TypeOK /\ {i} \in SUBSET Images /\ {i} \in SUBSET Stored
  BY <1>2 DEF IInv, StoreInv, Stored
<1>4. k \in Keys /\ k \in files
  BY <1>2, <1>3, KeysOfImages DEF IInv, StoreInv, RowsHaveFiles
<1>5. s \in Download
  BY <1>4 DEF Download
<1>6. /\ \A n \in Images : Original(n) = k => n = i
      /\ \A j \in Jobs : Enhanced(j) = k => job[j].image = i
  BY <1>3, FoundIsFound DEF IInv
<1>7. s.of = {i} /\ s.key = {k} /\ s.stage = "read"
  OBVIOUS
<1>8. download' = [download EXCEPT ![d] = s]
  BY <1>1
<1> HIDE DEF s
<1> QED BY <1>2, <1>4, <1>5, <1>6, <1>7, <1>8, DownloadMoves

LEMMA EndDownloadStep ==
    ASSUME IInv, NEW d \in Downloads, EndDownload(d)
    PROVE  DownloadsHaveFiles'
<1>1. Closed \in Download /\ Closed.of = {}
  BY DEF Closed, Download
<1> QED BY <1>1, DownloadMoves DEF EndDownload

(* A file that was there when its row was read and is not there now was    *)
(* removed with its image.                                                 *)
LEMMA ServeStep ==
    ASSUME IInv, NEW d \in Downloads, Serve(d)
    PROVE  DownloadsHaveFiles'
<1>1. Closed \in Download /\ Closed.of = {}
  BY DEF Closed, Download
<1>2. CASE download' = [download EXCEPT ![d] = Closed]
  BY <1>1, <1>2, DownloadMoves DEF Serve
<1>3. CASE /\ download' = [download EXCEPT ![d] = [download[d] EXCEPT !.stage = "missing"]]
           /\ \E k \in download[d].key : k \notin files
  <2> DEFINE s == [download[d] EXCEPT !.stage = "missing"]
  <2>1. download[d] \in Download
    BY DEF IInv, DownloadsHaveFiles
  <2>2. /\ s \in Download /\ s.stage = "missing"
        /\ s.of = download[d].of /\ s.key = download[d].key
    BY <2>1 DEF Download
  <2>3. PICK k \in download[d].key : k \notin files
    BY <1>3
  <2>4. (\E n \in Images : k = Original(n)) \/ (\E j \in Jobs : k = Enhanced(j))
    BY <2>1, <2>3 DEF Download, Keys, Original, Enhanced
  <2>5. \A i \in download[d].of : image[i] = "deleted"
    BY <2>3, <2>4 DEF IInv, DownloadsHaveFiles
  <2>6. UNCHANGED store /\ download' = [download EXCEPT ![d] = s]
    BY <1>3 DEF Serve
  <2>7. \A i \in s.of :
          /\ image[i] # "none"
          /\ Original(i) \in s.key => Original(i) \in files \/ image[i] = "deleted"
          /\ \A n \in Images : Original(n) \in s.key => n = i
          /\ \A j \in Jobs : Enhanced(j) \in s.key =>
                job[j].image = i /\ (Enhanced(j) \in files \/ image[i] = "deleted")
          /\ s.stage = "missing" => image[i] = "deleted"
    BY <2>2, <2>5 DEF IInv, DownloadsHaveFiles
  <2> HIDE DEF s
  <2> QED BY <2>2, <2>6, <2>7, DownloadMoves
<1> QED BY <1>2, <1>3 DEF Serve, Opens

(* What others do is a change of the store, and a download's step none.    *)
LEMMA StepIsChange ==
    ASSUME [Next]_vars
    PROVE  /\ [Change]_store
           /\ \/ download' \in {download, [d \in Downloads |-> Closed]}
              \/ \E d \in Downloads :
                    (\E i \in Images : ReadRow(d, i)) \/ Serve(d) \/ EndDownload(d)
BY DEF Next, Change, vars, Restart, ReadRow, Serve, EndDownload

-----------------------------------------------------------------------------
LEMMA InitIInv == Init => IInv
<1> SUFFICES ASSUME Init PROVE IInv
  OBVIOUS
<1>1. AskedAreOver
  BY DEF Init, AskedAreOver, ActiveJobsKept, HasRow, Idle
<1>2. DownloadsHaveFiles
  BY DEF Init, DownloadsHaveFiles, MissingForCause, Closed, Download
<1> QED BY <1>1, <1>2, InitStore DEF IInv

LEMMA StepPreserves == IInv /\ [Next]_vars => IInv'
<1> SUFFICES ASSUME IInv, [Next]_vars PROVE IInv'
  OBVIOUS
<1>1. StoreInv' /\ AskedAreOver'
  BY StepIsChange, StoreStep, AskedStep DEF IInv
<1>2. DownloadsHaveFiles'
  BY StepIsChange, OthersStep, ReadRowStep, ServeStep, EndDownloadStep
<1> QED BY <1>1, <1>2 DEF IInv

-----------------------------------------------------------------------------
(* The invariant holds of every reachable state, for any number of images, *)
(* jobs, deletions and downloads.                                          *)
THEOREM Inductive == Spec => []IInv
<1> QED BY InitIInv, StepPreserves, PTL DEF Spec

(* No row ever points at a file that is not there, whatever overlaps,      *)
(* fails or restarts.                                                      *)
THEOREM RowsAlwaysHaveFiles == Spec => []RowsHaveFiles
<1>1. IInv => RowsHaveFiles
  BY DEF IInv, StoreInv
<1> QED BY <1>1, Inductive, PTL

(* A download that meets no file was overtaken by a deletion of its image. *)
THEOREM MissingIsDeleted == Spec => []MissingForCause
<1>1. IInv => MissingForCause
  BY DEF IInv, DownloadsHaveFiles
<1> QED BY <1>1, Inductive, PTL

(* A job removed with its image while it was active was created after the  *)
(* deletion had asked for active ones.                                     *)
THEOREM ActiveJobsAreKept == Spec => []ActiveJobsKept
<1>1. IInv => ActiveJobsKept
  BY DEF IInv, AskedAreOver
<1> QED BY <1>1, Inductive, PTL

(* A worker that finishes late, or a restart, brings nothing back.         *)
THEOREM DeletionIsFinal == Spec => DeletedForGood
<1> DEFINE Final == /\ \A i \in Images : image[i] = "deleted" => image'[i] = "deleted"
                    /\ \A j \in Jobs : job[j].status = "deleted" => job'[j].status = "deleted"
<1>1. IInv /\ [Next]_vars => Final
  BY StepIsChange, GoneStays
<1> QED BY <1>1, Inductive, PTL DEF Spec, DeletedForGood

=============================================================================
