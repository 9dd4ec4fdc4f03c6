------------------------------- MODULE Uploads -------------------------------
(* Direct uploads: presign, PUT, finalize, and the job that validates an      *)
(* image, publishes it and records the verdict (images/routes.js,             *)
(* services/uploadService.js, services/imageProcessingService.js, worker.js,  *)
(* storage and queue).  The row in `uploads` and the two objects in storage   *)
(* are written by different steps of different processes; this module is      *)
(* about how far they may drift apart.                                        *)
(*                                                                            *)
(* Only the owner's requests get past requireOwnedUpload, so only those are   *)
(* actions.  sweepAbandoned is not an action: nothing calls it.  A thumbnail  *)
(* is data no property looks at, except that making one may fail.             *)
EXTENDS Naturals, FiniteSets

CONSTANTS Keys,      \* presigned uploads
          MaxJobs,   \* bound: finalizations, each a queued job or a request
          MaxTries,  \* `attempts` of a queued job
          NoKey

ASSUME UploadsAssumption == MaxTries \in Nat \ {0} /\ MaxJobs \in Nat /\ NoKey \notin Keys

Jobs == 1..MaxJobs

VARIABLES driver,    \* where objects live: S3, or this server's disk
          row,       \* uploads.status, "none" before the presign
          age,       \* time since the presign: URL open, row open, row expired
          raw,       \* the quarantine object: absent, a photo, or something else
          public,    \* keys whose object stands under the public prefix
          puts,      \* how far a PUT to this server has come
          jobs,      \* finalizations under way
          odd        \* history: what went wrong with a key

uploadsVars == <<driver, row, age, raw, public, puts, jobs, odd>>

Bytes == {"photo", "junk"}
Open == {"pending", "uploaded"}
Verdicts == {"processed", "failed"}
(* What went wrong with a key: its job ran, or may run, more than once; bytes *)
(* were left in quarantine; a job was lost before it could record a verdict;  *)
(* the public object was stored and its attempt told otherwise.               *)
Mishaps == {"rerun", "left", "lost", "landed"}

NoJob == [key |-> NoKey, queued |-> FALSE, at |-> "idle", tries |-> 0, stalled |-> FALSE]
JobAt == {"idle", "waiting", "reading", "photo", "junk", "published", "cleaned", "rejecting", "failing", "over"}

UploadsInit ==
    /\ driver \in {"s3", "disk"}
    /\ row = [k \in Keys |-> "none"] /\ age = [k \in Keys |-> "fresh"]
    /\ raw = [k \in Keys |-> "none"] /\ public = {} /\ puts = [k \in Keys |-> "none"]
    /\ jobs = [j \in Jobs |-> NoJob] /\ odd = [k \in Keys |-> {}]

(* requireOwnedUpload: 410 for an expired pending row, 409 for a status the   *)
(* route does not take.                                                       *)
Admitted(k, statuses) == row[k] \in statuses /\ ~(age[k] = "expired" /\ row[k] = "pending")

Note(k, mishap) == odd' = [odd EXCEPT ![k] = @ \cup {mishap}]

(* POST /presign.                                                             *)
CreateUpload(k) ==
    /\ row[k] = "none" /\ row' = [row EXCEPT ![k] = "pending"]
    /\ UNCHANGED <<driver, age, raw, public, puts, jobs, odd>>

(* The presigned URL closes after five minutes, the row after an hour.        *)
Tick(k) ==
    /\ row[k] # "none" /\ age[k] # "expired"
    /\ age' = [age EXCEPT ![k] = IF @ = "fresh" THEN "old" ELSE "expired"]
    /\ UNCHANGED <<driver, row, raw, public, puts, jobs, odd>>

(* Bytes that land once a job has taken the key up may never be looked at.    *)
Landed(k, bytes) ==
    /\ raw' = [raw EXCEPT ![k] = bytes]
    /\ odd' = IF \E j \in Jobs : jobs[j].key = k
              THEN [odd EXCEPT ![k] = @ \cup {"left"}] ELSE odd

(* With S3 the browser PUTs past the server: while the URL is open anything   *)
(* may land, whatever the row says, and the row stays pending.                *)
PutS3(k, bytes) ==
    /\ driver = "s3" /\ row[k] # "none" /\ age[k] = "fresh" /\ Landed(k, bytes)
    /\ UNCHANGED <<driver, row, age, public, puts, jobs>>

(* PUT /direct/:key checks the row, writes the object and moves on a row that *)
(* is still pending, one await each; its process may die in between.          *)
DirectAt(k, from, to) == driver = "disk" /\ puts[k] = from /\ puts' = [puts EXCEPT ![k] = to]

PutAdmitted(k) ==
    /\ DirectAt(k, "none", "admitted") /\ Admitted(k, {"pending"})
    /\ UNCHANGED <<driver, row, age, raw, public, jobs, odd>>

PutWritten(k, bytes) ==
    /\ DirectAt(k, "admitted", "written") /\ Landed(k, bytes)
    /\ UNCHANGED <<driver, row, age, public, jobs>>

MarkUploaded(k) ==
    /\ DirectAt(k, "written", "none")
    /\ row' = [row EXCEPT ![k] = IF @ = "pending" THEN "uploaded" ELSE @]
    /\ UNCHANGED <<driver, age, raw, public, jobs, odd>>

PutDies(k) ==
    /\ puts[k] # "none" /\ puts' = [puts EXCEPT ![k] = "none"]
    /\ UNCHANGED <<driver, row, age, raw, public, jobs, odd>>

(* POST /finalize: the row is checked, then the job is queued, or, with no    *)
(* queue, run by the request itself.  Nothing records that it was.            *)
Finalize(j, k) ==
    /\ jobs[j] = NoJob /\ \A i \in 1..j - 1 : jobs[i] # NoJob
    /\ Admitted(k, Open)
    /\ \E queued \in BOOLEAN :
          jobs' = [jobs EXCEPT ![j] = [NoJob EXCEPT !.key = k, !.queued = queued,
                                        !.at = IF queued THEN "waiting" ELSE "reading"]]
    /\ odd' = IF \E i \in Jobs : jobs[i].key = k
              THEN [odd EXCEPT ![k] = @ \cup {"rerun"}] ELSE odd
    /\ UNCHANGED <<driver, row, age, raw, public, puts>>

To(j, at) == jobs' = [jobs EXCEPT ![j].at = at]

(* A job that is over is only looked at again when it can be handed out once  *)
(* more: its worker may die before it tells the queue.                        *)
Over(j) ==
    IF jobs[j].queued /\ ~jobs[j].stalled THEN To(j, "over")
    ELSE jobs' = [jobs EXCEPT ![j] = [NoJob EXCEPT !.key = jobs[j].key, !.at = "over"]]

(* A worker takes the job up.                                                 *)
Take(j) ==
    /\ jobs[j].at = "waiting" /\ To(j, "reading")
    /\ UNCHANGED <<driver, row, age, raw, public, puts, odd>>

(* Mutant: the last attempt is never recognised as the last. *)
StumbleOffByOne(j) ==
    IF ~jobs[j].queued \/ jobs[j].tries + 1 >= MaxTries THEN Over(j)
    ELSE jobs' = [jobs EXCEPT ![j].at = "waiting", ![j].tries = @ + 1]

(* Anything but a verdict on the image: the request just fails; a job is      *)
(* tried again, or, this being its last attempt, fails the row first.         *)
Stumble(j) ==
    IF ~jobs[j].queued THEN Over(j)
    ELSE IF jobs[j].tries + 1 >= MaxTries THEN To(j, "failing")
    ELSE jobs' = [jobs EXCEPT ![j].at = "waiting", ![j].tries = @ + 1]

(* readObject and sharp: what the bytes are decides the path.                 *)
ReadObject(j) ==
    /\ jobs[j].at = "reading" /\ raw[jobs[j].key] # "none" /\ To(j, raw[jobs[j].key])
    /\ UNCHANGED <<driver, row, age, raw, public, puts, odd>>

(* Storage does not answer, or has nothing under the key.  The public object  *)
(* may have been stored all the same.                                         *)
StorageFails(j) ==
    /\ jobs[j].at \in {"reading", "photo"} /\ Stumble(j)
    /\ \/ UNCHANGED <<public, odd>>
       \/ /\ jobs[j].at = "photo" /\ public' = public \cup {jobs[j].key}
          /\ Note(jobs[j].key, "landed")
    /\ UNCHANGED <<driver, row, age, raw, puts>>

(* Mutant: a thumbnail that cannot be made fails the whole attempt. *)
WriteObjectThumbThrows(j) ==
    /\ jobs[j].at = "photo" /\ public' = public \cup {jobs[j].key}
    /\ To(j, "published") \/ Stumble(j)
    /\ UNCHANGED <<driver, row, age, raw, puts, odd>>

(* The public object and its thumbnail; a thumbnail that fails is logged.     *)
WriteObject(j) ==
    /\ jobs[j].at = "photo" /\ public' = public \cup {jobs[j].key} /\ To(j, "published")
    /\ UNCHANGED <<driver, row, age, raw, puts, odd>>

(* deleteObject never throws: the quarantine copy goes, or stays for good.    *)
DeleteObject(j) ==
    /\ \/ raw' = [raw EXCEPT ![jobs[j].key] = "none"] /\ UNCHANGED odd
       \/ raw[jobs[j].key] # "none" /\ Note(jobs[j].key, "left") /\ UNCHANGED raw
    /\ UNCHANGED <<driver, row, age, public, puts>>
Clean(j) == jobs[j].at = "published" /\ To(j, "cleaned") /\ DeleteObject(j)
(* Mutant: a rejected image is not removed from quarantine. *)
RejectKeeps(j) ==
    /\ jobs[j].at = "junk" /\ To(j, "rejecting")
    /\ UNCHANGED <<driver, row, age, raw, public, puts, odd>>
Reject(j) == jobs[j].at = "junk" /\ To(j, "rejecting") /\ DeleteObject(j)

Verdict(k, verdict) == row' = [row EXCEPT ![k] = verdict]

(* markProcessed and markFailed look at no status.                            *)
MarkProcessed(j) ==
    /\ jobs[j].at = "cleaned" /\ Verdict(jobs[j].key, "processed") /\ Over(j)
    /\ UNCHANGED <<driver, age, raw, public, puts, odd>>

MarkFailed(j) ==
    /\ jobs[j].at \in {"rejecting", "failing"} /\ Verdict(jobs[j].key, "failed") /\ Over(j)
    /\ IF jobs[j].at = "failing" THEN Note(jobs[j].key, "left") ELSE UNCHANGED odd
    /\ UNCHANGED <<driver, age, raw, public, puts>>

(* The database refuses the verdict: markProcessed inside the try is one more *)
(* failed attempt; markFailed is inside the catch, and its error replaces the *)
(* one being handled: a rejected image is tried again, a last try is lost.    *)
RecordFails(j) ==
    /\ jobs[j].at \in {"cleaned", "rejecting", "failing"}
    /\ IF jobs[j].at = "cleaned" THEN Stumble(j) /\ Note(jobs[j].key, "rerun")
       ELSE IF jobs[j].queued /\ jobs[j].tries + 1 < MaxTries
       THEN Stumble(j) /\ Note(jobs[j].key, "rerun")
       ELSE Over(j) /\ Note(jobs[j].key, "lost")
    /\ UNCHANGED <<driver, row, age, raw, public, puts>>

(* The process dies.  A request is gone; a job the worker held is handed out  *)
(* once more, and is dropped, with no handler run, when that happens twice.   *)
ProcessDies(j) ==
    /\ jobs[j].at \notin {"idle", "waiting"} /\ (jobs[j].at = "over" => jobs[j].queued)
    /\ IF jobs[j].queued /\ ~jobs[j].stalled
       THEN /\ jobs' = [jobs EXCEPT ![j].at = "waiting", ![j].stalled = TRUE]
            /\ Note(jobs[j].key, "rerun")
       ELSE /\ jobs[j].at # "over" /\ Over(j) /\ Note(jobs[j].key, "lost")
    /\ UNCHANGED <<driver, row, age, raw, public, puts>>

JobStep(j) ==
    \/ Take(j) \/ ReadObject(j) \/ WriteObject(j) \/ Clean(j) \/ Reject(j)
    \/ MarkProcessed(j) \/ MarkFailed(j) \/ StorageFails(j)

UploadsNext ==
    \/ \E k \in Keys :
          \/ CreateUpload(k) \/ Tick(k) \/ PutAdmitted(k) \/ MarkUploaded(k) \/ PutDies(k)
          \/ \E bytes \in Bytes : PutS3(k, bytes) \/ PutWritten(k, bytes)
          \/ \E j \in Jobs : Finalize(j, k)
    \/ \E j \in Jobs : JobStep(j) \/ RecordFails(j) \/ ProcessDies(j)

(* The queue hands a waiting job out and a worker that lives goes on with it. *)
UploadsFairness == \A j \in Jobs : WF_uploadsVars(JobStep(j))

UploadsSpec == UploadsInit /\ [][UploadsNext]_uploadsVars /\ UploadsFairness

-----------------------------------------------------------------------------
Running(k) == \E j \in Jobs : jobs[j].key = k /\ jobs[j].at # "over"

TypeOK ==
    /\ driver \in {"s3", "disk"}
    /\ row \in [Keys -> {"none"} \cup Open \cup Verdicts]
    /\ age \in [Keys -> {"fresh", "old", "expired"}]
    /\ raw \in [Keys -> {"none"} \cup Bytes] /\ public \subseteq Keys /\ puts \in [Keys -> {"none", "admitted", "written"}]
    /\ jobs \in [Jobs -> [key : Keys \cup {NoKey}, queued : BOOLEAN, at : JobAt,
                          tries : 0..MaxTries, stalled : BOOLEAN]]
    /\ odd \in [Keys -> SUBSET Mishaps]

(* The row and the public image agree: "processed" has one, whatever wrote    *)
(* that verdict, and "failed" has none, unless the upload was finalized       *)
(* twice, the job was handed out twice, or a verdict was refused by the       *)
(* database: a run that follows another finds quarantine empty; or storage    *)
(* took the image without saying so, and no later attempt reached it.         *)
VerdictIsTrue ==
    \A k \in Keys :
        /\ row[k] = "processed" => k \in public
        /\ row[k] = "failed" /\ k \in public => {"rerun", "landed"} \cap odd[k] # {}

(* The quarantine copy, which still holds the GPS position of someone's home, *)
(* is not left behind once the verdict is in and nobody works on the key,     *)
(* except by a deletion that failed, bytes that landed after the job had      *)
(* started, or storage that failed every attempt.                             *)
RawIsGone ==
    \A k \in Keys : row[k] \in Verdicts /\ ~Running(k) /\ raw[k] # "none" =>
        "left" \in odd[k]

(* An upload handed to the queue gets its verdict, whatever storage does,     *)
(* unless the job itself is lost with a process that died twice or with a     *)
(* database that refused to record its failure.                               *)
FinalizeSettles ==
    \A k \in Keys : (\E j \in Jobs : jobs[j].key = k /\ jobs[j].at = "waiting") ~>
        (row[k] \in Verdicts \/ "lost" \in odd[k])
=============================================================================
