------------------------------ MODULE ScanJobs ------------------------------
(***************************************************************************)
(* The scan job queue of one store: the documents and files of             *)
(* lib/scan/jobs.ts, the handlers of /api/vision/jobs that submit, look up *)
(* and acknowledge a job, and the in-process worker of lib/scan/worker.ts. *)
(*                                                                         *)
(* A photo is known by the hash of its bytes, so a member of Photo stands  *)
(* for a hash and for the directory of that name.  The handlers and the    *)
(* runs take one step per write: the process may die between any two of    *)
(* them, and everything that is not a document or a file dies with it.     *)
(***************************************************************************)
EXTENDS Naturals, FiniteSets

CONSTANTS
  Photo,             \* hashes
  JobId,             \* ids of documents; an id nothing refers to is fresh
  SCAN_JOBS_MAX_QUEUED, PHOTO_CONCURRENCY, MAX_JOB_ATTEMPTS,
  MaxFaults          \* bound: the failures a behaviour may have

ASSUME ScanAssumption ==
  /\ JobId \subseteq Nat \ {0}
  /\ SCAN_JOBS_MAX_QUEUED \in Nat \ {0}
  /\ PHOTO_CONCURRENCY \in Nat \ {0}
  /\ MAX_JOB_ATTEMPTS \in Nat \ {0}
  /\ MaxFaults \in Nat

VARIABLES
  doc,      \* scan_jobs: the document of each hash, NoDoc when there is none
  disk,     \* the files in each hash's directory
  posts,    \* POST handlers in flight and answers the phone has not read
  acks,     \* DELETE handlers in flight
  runs,     \* runJob calls in flight
  victims,  \* directories sweepOrphans has found without a document
  proc,     \* the store's Node process
  gate,     \* what authorizeStoreRequest and tick learn from the platform
  faults    \* failures so far

jobsVars == <<doc, disk, posts, acks, runs, victims, proc, gate, faults>>

NoJob == 0
NoDoc == [id |-> NoJob, status |-> "none", attempts |-> 0, stale |-> FALSE]
HasDoc(p) == doc[p] # NoDoc
Running == {"sent", "counted", "written"}             \* steps of a POST
Answers == {"taken", "full", "preparing", "too_large", "error", "lost"}

Doc == [id : JobId, status : {"queued", "running", "done", "failed"},
        attempts : Nat, stale : BOOLEAN]
Post == [photo : Photo, step : Running \cup Answers, id : JobId \cup {NoJob},
         heard : BOOLEAN]
Ack == [photo : Photo, id : JobId, emptied : BOOLEAN]
Run == [photo : Photo, id : JobId, step : {"read", "scan", "stored"}]

JobsTypeOK ==
  /\ doc \in [Photo -> Doc \cup {NoDoc}]
  /\ disk \in [Photo -> SUBSET {"photo", "result", "blank"}]
  /\ posts \subseteq Post
  /\ acks \subseteq Ack
  /\ runs \subseteq Run
  /\ victims \subseteq Photo
  /\ proc \in {"down", "boot", "up"}
  /\ gate \in {"open", "preparing"}
  /\ faults \in 0 .. MaxFaults

JobsInit ==
  /\ doc = [p \in Photo |-> NoDoc]
  /\ disk = [p \in Photo |-> {}]
  /\ posts = {} /\ acks = {} /\ runs = {} /\ victims = {}
  /\ proc = "up" /\ gate = "open" /\ faults = 0

Fault == faults < MaxFaults /\ faults' = faults + 1
Serving == proc # "down"
ById(p, id) == doc[p].id = id
Active == {p \in Photo : doc[p].status \in {"queued", "running"}}
JobRefs == {doc[p].id : p \in Photo} \cup {r.id : r \in runs}
             \cup {a.id : a \in acks} \cup {r.id : r \in posts}

----------------------------------------------------------------------------
(* Documents: the updates of jobs.ts, each atomic on one document.         *)

EndJob(p, id, status) ==
  IF ById(p, id)
  THEN doc' = [doc EXCEPT ![p] = [@ EXCEPT !.status = status, !.stale = FALSE]]
  ELSE UNCHANGED doc

FailJob(p, id) == EndJob(p, id, "failed")
CompleteJob(p, id) == EndJob(p, id, "done")

NewDoc(id) == [id |-> id, status |-> "queued", attempts |-> 0, stale |-> FALSE]

\* Mutant: a job that is not finished is queued again by a submission.
ResubmittedOpen(d) ==
  IF d.status # "done" THEN [d EXCEPT !.status = "queued", !.attempts = 0] ELSE d

\* Mutant: a finished job is queued again like a failed one.
ResubmittedDone(d) ==
  IF d.status \in {"failed", "done"}
  THEN [d EXCEPT !.status = "queued", !.attempts = 0] ELSE d

\* What a submission of p leaves: the document there is, a failed one queued
\* again from zero attempts, or a new one under a fresh id.
Resubmitted(d) ==
  IF d.status = "failed"
  THEN [d EXCEPT !.status = "queued", !.attempts = 0, !.stale = FALSE]
  ELSE d

CreateOrGetJob(p, id) ==
  /\ IF HasDoc(p) THEN id = doc[p].id ELSE id \in JobId \ JobRefs
  /\ doc' = [doc EXCEPT ![p] = IF HasDoc(p) THEN Resubmitted(@) ELSE NewDoc(id)]

----------------------------------------------------------------------------
(* POST /api/vision/jobs                                                   *)

\* A submission leaves the phone; without a server its fetch fails.
PostSend(p) ==
  posts' = posts \cup {[photo |-> p, step |-> IF Serving THEN "sent" ELSE "lost",
                        id |-> NoJob, heard |-> TRUE]}

\* A handler whose phone has hung up answers nobody.
Reply(r, answer, id) ==
  posts' = (posts \ {r}) \cup
             IF r.heard THEN {[r EXCEPT !.step = answer, !.id = id]} ELSE {}
HungUp == {[r EXCEPT !.heard = FALSE] : r \in {q \in posts : q.step \in Running}}
Advance(r, step) == posts' = (posts \ {r}) \cup {[r EXCEPT !.step = step]}

PostRefused(r) ==
  /\ r.step = "sent" /\ gate = "preparing"
  /\ Reply(r, "preparing", NoJob)
  /\ UNCHANGED <<doc, disk, acks, runs, victims, proc, gate, faults>>

PostFull(r) ==
  /\ r.step = "sent" /\ gate = "open"
  /\ Cardinality(Active) >= SCAN_JOBS_MAX_QUEUED
  /\ Reply(r, "full", NoJob)
  /\ UNCHANGED <<doc, disk, acks, runs, victims, proc, gate, faults>>

PostCounted(r) ==
  /\ r.step = "sent" /\ gate = "open"
  /\ Cardinality(Active) < SCAN_JOBS_MAX_QUEUED
  /\ Advance(r, "counted")
  /\ UNCHANGED <<doc, disk, acks, runs, victims, proc, gate, faults>>

PostWritten(r) ==
  /\ r.step = "counted"
  /\ disk' = [disk EXCEPT ![r.photo] = @ \cup {"photo"}]
  /\ Advance(r, "written")
  /\ UNCHANGED <<doc, acks, runs, victims, proc, gate, faults>>

PostCreated(r, id) ==
  /\ r.step = "written"
  /\ CreateOrGetJob(r.photo, id)
  /\ Reply(r, "taken", id)
  /\ UNCHANGED <<disk, acks, runs, victims, proc, gate, faults>>

\* The photo is over MAX_IMAGE_BYTES.
PostTooLarge(r) ==
  /\ r.step = "sent" /\ gate = "open"
  /\ Fault
  /\ Reply(r, "too_large", NoJob)
  /\ UNCHANGED <<doc, disk, acks, runs, victims, proc, gate>>

\* A disk or database error: the handler answers 500 from wherever it is.
PostBroken(r) ==
  /\ r.step \in Running
  /\ Fault
  /\ Reply(r, "error", NoJob)
  /\ UNCHANGED <<doc, disk, acks, runs, victims, proc, gate>>

\* The connection drops: the phone sees a failed fetch, the handler goes on.
PostDropped(r) ==
  /\ r.step \in Running /\ r.heard
  /\ Fault
  /\ posts' = (posts \ {r}) \cup {[r EXCEPT !.heard = FALSE],
                                  [r EXCEPT !.step = "lost"]}
  /\ UNCHANGED <<doc, disk, acks, runs, victims, proc, gate>>

PostStep(r) ==
  \/ PostRefused(r) \/ PostFull(r) \/ PostCounted(r) \/ PostWritten(r)
  \/ \E id \in JobId : PostCreated(r, id)

----------------------------------------------------------------------------
(* GET and DELETE /api/vision/jobs/[id]                                    *)

\* What a lookup of job id answers; a job that is done without its result is
\* failed on the spot, so that the phone submits the photo again.
LookupAnswer(p, id) ==
  CASE ~Serving \/ gate = "preparing" -> "lost"
    [] Serving /\ gate = "open" /\ ~ById(p, id) -> "gone"
    [] OTHER -> IF doc[p].status # "done" THEN doc[p].status
                ELSE IF "result" \in disk[p] THEN "result"
                ELSE IF "blank" \in disk[p] THEN "blank" ELSE "failed"

LookupWrites(p, id) ==
  IF LookupAnswer(p, id) = "failed" THEN FailJob(p, id) ELSE UNCHANGED doc

AckSend(p, id) ==
  acks' = IF Serving THEN acks \cup {[photo |-> p, id |-> id, emptied |-> FALSE]}
          ELSE acks

\* An acknowledgement of a job that is gone, or of a store that is not open,
\* changes nothing.
AckIgnored(a) ==
  /\ ~a.emptied
  /\ ~ById(a.photo, a.id) \/ gate = "preparing"
  /\ acks' = acks \ {a}
  /\ UNCHANGED <<doc, disk, posts, runs, victims, proc, gate, faults>>

AckEmptied(a) ==
  /\ ~a.emptied /\ ById(a.photo, a.id) /\ gate = "open"
  /\ disk' = [disk EXCEPT ![a.photo] = {}]
  /\ acks' = (acks \ {a}) \cup {[a EXCEPT !.emptied = TRUE]}
  /\ UNCHANGED <<doc, posts, runs, victims, proc, gate, faults>>

AckDeleted(a) ==
  /\ a.emptied
  /\ doc' = IF ById(a.photo, a.id) THEN [doc EXCEPT ![a.photo] = NoDoc] ELSE doc
  /\ acks' = acks \ {a}
  /\ UNCHANGED <<disk, posts, runs, victims, proc, gate, faults>>

AckStep(a) == AckIgnored(a) \/ AckEmptied(a) \/ AckDeleted(a)

----------------------------------------------------------------------------
(* The worker: tick claims, runJob processes.                              *)

Claimed(d) ==
  [d EXCEPT !.status = "running", !.attempts = d.attempts + 1, !.stale = FALSE]

\* The code takes the oldest queued job; here any of them.
Claim(p) ==
  /\ proc = "up" /\ gate = "open"
  /\ Cardinality(runs) < PHOTO_CONCURRENCY
  /\ doc[p].status = "queued"
  /\ doc' = [doc EXCEPT ![p] = Claimed(@)]
  /\ runs' = runs \cup {[photo |-> p, id |-> doc[p].id, step |-> "read"]}
  /\ UNCHANGED <<disk, posts, acks, victims, proc, gate, faults>>

RunTo(r, step) == runs' = (runs \ {r}) \cup {[r EXCEPT !.step = step]}

RunRead(r) ==
  /\ r.step = "read" /\ "photo" \in disk[r.photo]
  /\ RunTo(r, "scan")
  /\ UNCHANGED <<doc, disk, posts, acks, victims, proc, gate, faults>>

RunPhotoLost(r) ==
  /\ r.step = "read" /\ "photo" \notin disk[r.photo]
  /\ FailJob(r.photo, r.id)
  /\ runs' = runs \ {r}
  /\ UNCHANGED <<disk, posts, acks, victims, proc, gate, faults>>

\* The pipeline answers: writeJobResult renames the result into place and
\* deleteJobPhoto frees the photo.
RunStored(r, result) ==
  /\ r.step = "scan"
  /\ disk' = [disk EXCEPT ![r.photo] = {result}]
  /\ RunTo(r, "stored")
  /\ UNCHANGED <<doc, posts, acks, victims, proc, gate>>

RunScanned(r) == RunStored(r, "result") /\ UNCHANGED faults
RunScannedBlank(r) == RunStored(r, "blank") /\ Fault

RunCompleted(r) ==
  /\ r.step = "stored"
  /\ CompleteJob(r.photo, r.id)
  /\ runs' = runs \ {r}
  /\ UNCHANGED <<disk, posts, acks, victims, proc, gate, faults>>

\* The pipeline or a write throws; failJob is tried once and its own failure
\* is swallowed.
RunFailed(r) ==
  /\ Fault
  /\ FailJob(r.photo, r.id) \/ UNCHANGED doc
  /\ runs' = runs \ {r}
  /\ UNCHANGED <<disk, posts, acks, victims, proc, gate>>

RunStep(r) ==
  RunRead(r) \/ RunPhotoLost(r) \/ RunScanned(r) \/ RunCompleted(r)

----------------------------------------------------------------------------
(* Time, restarts and housekeeping.                                        *)

HasRun(p) == \E r \in runs : r.photo = p /\ ById(p, r.id)

\* LEASE_STALE_MS without a heartbeat.
LeaseAges(p) ==
  /\ doc[p].status = "running" /\ ~doc[p].stale /\ ~HasRun(p)
  /\ doc' = [doc EXCEPT ![p].stale = TRUE]
  /\ UNCHANGED <<disk, posts, acks, runs, victims, proc, gate, faults>>

\* The TTL index drops the document after SCAN_JOBS_TTL_HOURS; the files stay.
\* A job that could still be worked on or looked up is that old only when
\* something has kept the store or the phone away for a day: a failure.
Abandoned(p) == doc[p].status = "running" /\ ~HasRun(p)

Expire(p) ==
  /\ HasDoc(p) /\ ~HasRun(p)
  /\ IF Abandoned(p) THEN UNCHANGED faults ELSE Fault
  /\ doc' = [doc EXCEPT ![p] = NoDoc]
  /\ UNCHANGED <<disk, posts, acks, runs, victims, proc, gate>>

\* pm2 restarts the process: documents and files stay, a phone that waits for
\* an answer sees its fetch fail.
Crash ==
  /\ Serving
  /\ Fault
  /\ proc' = "down"
  /\ posts' = {IF r.step \in Running THEN [r EXCEPT !.step = "lost"] ELSE r :
                 r \in {q \in posts : q.heard}}
  /\ acks' = {} /\ runs' = {} /\ victims' = {}
  /\ UNCHANGED <<doc, disk, gate>>

Restart ==
  /\ proc = "down"
  /\ proc' = "boot"
  /\ UNCHANGED <<doc, disk, posts, acks, runs, victims, gate, faults>>

\* Mutant: the two updates in the other order, so that the second finds nothing.
ReclaimedQueuedFirst(d) ==
  IF d.status = "running" /\ d.stale
  THEN [d EXCEPT !.status = "queued", !.stale = FALSE] ELSE d

\* The two updates of reclaimStale, in their order.
Reclaimed(d) ==
  IF d.status # "running" \/ ~d.stale THEN d
  ELSE IF d.attempts >= MAX_JOB_ATTEMPTS
       THEN [d EXCEPT !.status = "failed", !.stale = FALSE]
       ELSE [d EXCEPT !.status = "queued", !.stale = FALSE]

Orphans(docs) == {p \in Photo : disk[p] # {} /\ docs[p] = NoDoc}

BootReclaims ==
  /\ proc = "boot"
  /\ doc' = [p \in Photo |-> Reclaimed(doc[p])]
  /\ victims' = Orphans(doc')
  /\ proc' = "up"
  /\ UNCHANGED <<disk, posts, acks, runs, gate, faults>>

\* Boot housekeeping that fails is only logged.
BootFails ==
  /\ proc = "boot"
  /\ proc' = "up"
  /\ UNCHANGED <<doc, disk, posts, acks, runs, victims, gate, faults>>

SweepLists ==
  /\ proc = "up" /\ victims = {}
  /\ victims' = Orphans(doc)
  /\ UNCHANGED <<doc, disk, posts, acks, runs, proc, gate, faults>>

SweepRemoves(p) ==
  /\ p \in victims
  /\ disk' = [disk EXCEPT ![p] = {}]
  /\ victims' = victims \ {p}
  /\ UNCHANGED <<doc, posts, acks, runs, proc, gate, faults>>

\* The platform withdraws readiness and gives it back.
Withdraw ==
  /\ gate = "open"
  /\ Fault
  /\ gate' = "preparing"
  /\ UNCHANGED <<doc, disk, posts, acks, runs, victims, proc>>

Reopen ==
  /\ gate = "preparing"
  /\ gate' = "open"
  /\ UNCHANGED <<doc, disk, posts, acks, runs, victims, proc, faults>>

ServerStep ==
  \/ \E r \in posts : PostStep(r) \/ PostTooLarge(r) \/ PostBroken(r) \/ PostDropped(r)
  \/ \E a \in acks : AckStep(a)
  \/ \E r \in runs : RunStep(r) \/ RunScannedBlank(r) \/ RunFailed(r)
  \/ \E p \in Photo : Claim(p) \/ LeaseAges(p) \/ Expire(p) \/ SweepRemoves(p)
  \/ Restart \/ BootReclaims \/ BootFails \/ SweepLists
  \/ Withdraw \/ Reopen

----------------------------------------------------------------------------
(* The queue with any phones: they submit, look up and acknowledge what and *)
(* when they like.                                                         *)

AnyPost(p) ==
  PostSend(p) /\ UNCHANGED <<doc, disk, acks, runs, victims, proc, gate, faults>>

AnyRead(r) ==
  /\ r.step \in Answers
  /\ posts' = posts \ {r}
  /\ UNCHANGED <<doc, disk, acks, runs, victims, proc, gate, faults>>

AnyLookup(p, id) ==
  /\ LookupWrites(p, id)
  /\ UNCHANGED <<disk, posts, acks, runs, victims, proc, gate, faults>>

AnyAck(p, id) ==
  /\ AckSend(p, id)
  /\ UNCHANGED <<doc, disk, posts, runs, victims, proc, gate, faults>>

\* The phones hang up, or fail on their own.
AnyTrouble ==
  /\ Fault
  /\ posts' \in {posts, HungUp}
  /\ UNCHANGED <<doc, disk, acks, runs, victims, proc, gate>>

JobsNext ==
  \/ ServerStep \/ Crash
  \/ \E p \in Photo : AnyPost(p)
  \/ \E p \in Photo, id \in JobId : AnyLookup(p, id) \/ AnyAck(p, id)
  \/ \E r \in posts : AnyRead(r)
  \/ AnyTrouble

JobsSpec == JobsInit /\ [][JobsNext]_jobsVars

----------------------------------------------------------------------------
(* A job that keeps losing its worker is parked: it is never claimed more  *)
(* than MAX_JOB_ATTEMPTS times in a row (reclaimStale's poison guard).     *)
PoisonParks == \A p \in Photo : doc[p].attempts <= MAX_JOB_ATTEMPTS

(* completeJob and failJob write by id whatever the status is; that is     *)
(* sound because a job a runJob call still works on is running, and no two *)
(* calls work on one job.                                                  *)
RunOwnsJob ==
  /\ \A r \in runs : ById(r.photo, r.id) => doc[r.photo].status = "running"
  /\ \A r, s \in runs : r.photo = s.photo /\ r.id = s.id => r = s

(* A finished job whose result is on disk stays finished until its document *)
(* is deleted: no submission, reclaim or late run pays for the photo again. *)
DoneStaysDone ==
  [][\A p \in Photo :
       doc[p].status = "done" /\ disk[p] \cap {"result", "blank"} # {}
         => doc'[p].id # doc[p].id \/ doc'[p].status = "done"]_jobsVars
=============================================================================
