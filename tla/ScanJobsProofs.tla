--------------------------- MODULE ScanJobsProofs ---------------------------
(***************************************************************************)
(* Proofs about the scan job queue, for every set of photos and ids, every *)
(* cap and every number of failures: types, the poison guard, the ownership *)
(* of a job by its run, and that a finished job stays finished.            *)
(***************************************************************************)
EXTENDS ScanJobs, TLAPS

----------------------------------------------------------------------------
(* Types.                                                                  *)

(* No job has the id of a missing document.                                *)
LEMMA IdIsId ==
  ASSUME JobsTypeOK, NEW p \in Photo, NEW id \in JobId, ById(p, id)
  PROVE  doc[p] \in Doc
BY ScanAssumption DEF JobsTypeOK, ById, NoDoc, NoJob

LEMMA DocTypes ==
  /\ \A d \in Doc, status \in {"failed", "done"} :
       [d EXCEPT !.status = status, !.stale = FALSE] \in Doc
  /\ \A d \in Doc : Resubmitted(d) \in Doc /\ Claimed(d) \in Doc /\ Reclaimed(d) \in Doc
  /\ \A id \in JobId : NewDoc(id) \in Doc
  /\ Reclaimed(NoDoc) = NoDoc
<1>1. \A d \in Doc, status \in {"failed", "done"} :
        [d EXCEPT !.status = status, !.stale = FALSE] \in Doc
  BY DEF Doc
<1>2. \A d \in Doc : Resubmitted(d) \in Doc
  BY DEF Doc, Resubmitted
<1>3. \A d \in Doc : Claimed(d) \in Doc
  <2> SUFFICES ASSUME NEW d \in Doc PROVE Claimed(d) \in Doc
    OBVIOUS
  <2>1. d.attempts + 1 \in Nat
    BY DEF Doc
  <2>2. \A n \in Nat :
          [d EXCEPT !.status = "running", !.attempts = n, !.stale = FALSE] \in Doc
    BY DEF Doc
  <2> QED BY <2>1, <2>2 DEF Claimed
<1>4. \A d \in Doc : Reclaimed(d) \in Doc
  BY DEF Doc, Reclaimed
<1>5. \A id \in JobId : NewDoc(id) \in Doc
  BY DEF Doc, NewDoc
<1>6. Reclaimed(NoDoc) = NoDoc
  BY DEF Reclaimed, NoDoc
<1> QED BY <1>1, <1>2, <1>3, <1>4, <1>5, <1>6

LEMMA EndJobType ==
  ASSUME JobsTypeOK, NEW p \in Photo, NEW id \in JobId,
         NEW status \in {"failed", "done"}, EndJob(p, id, status)
  PROVE  doc' \in [Photo -> Doc \cup {NoDoc}]
<1>1. CASE ~ById(p, id)
  BY <1>1 DEF EndJob, JobsTypeOK
<1>2. CASE ById(p, id)
  <2>1. [doc[p] EXCEPT !.status = status, !.stale = FALSE] \in Doc
    BY <1>2, IdIsId, DocTypes
  <2> QED BY <1>2, <2>1 DEF EndJob, JobsTypeOK
<1> QED BY <1>1, <1>2

LEMMA PostTypes ==
  ASSUME JobsTypeOK, NEW r \in posts
  PROVE  /\ r \in Post /\ r.photo \in Photo
         /\ \A step \in Running \cup Answers, id \in JobId \cup {NoJob} :
              /\ [r EXCEPT !.step = step, !.id = id] \in Post
              /\ [r EXCEPT !.step = step] \in Post
         /\ [r EXCEPT !.heard = FALSE] \in Post
BY DEF JobsTypeOK, Post

LEMMA ReplyType ==
  ASSUME JobsTypeOK, NEW r \in posts, NEW answer \in Answers,
         NEW id \in JobId \cup {NoJob}, Reply(r, answer, id)
  PROVE  posts' \subseteq Post
<1>1. posts \subseteq Post /\ [r EXCEPT !.step = answer, !.id = id] \in Post
  BY PostTypes DEF JobsTypeOK
<1> QED BY <1>1 DEF Reply

LEMMA AdvanceType ==
  ASSUME JobsTypeOK, NEW r \in posts, NEW step \in Running, Advance(r, step)
  PROVE  posts' \subseteq Post
BY PostTypes DEF Advance, JobsTypeOK

LEMMA FaultType ==
  ASSUME JobsTypeOK, Fault
  PROVE  faults' \in 0 .. MaxFaults
BY ScanAssumption DEF JobsTypeOK, Fault

LEMMA TypePosts ==
  ASSUME JobsTypeOK, NEW r \in posts,
         PostStep(r) \/ PostTooLarge(r) \/ PostBroken(r) \/ PostDropped(r)
  PROVE  JobsTypeOK'
<1> USE DEF JobsTypeOK
<1>0. "sent" \in Running /\ "counted" \in Running /\ "written" \in Running
  BY DEF Running
<1>a. /\ "taken" \in Answers /\ "full" \in Answers /\ "preparing" \in Answers
      /\ "too_large" \in Answers /\ "error" \in Answers /\ "lost" \in Answers
  BY DEF Answers
<1>1. CASE PostRefused(r)
  BY <1>1, <1>a, ReplyType DEF PostRefused
<1>2. CASE PostFull(r)
  BY <1>2, <1>a, ReplyType DEF PostFull
<1>3. CASE PostCounted(r)
  BY <1>3, <1>0, AdvanceType DEF PostCounted
<1>4. CASE PostWritten(r)
  BY <1>4, <1>0, AdvanceType, PostTypes DEF PostWritten
<1>5. ASSUME NEW id \in JobId, PostCreated(r, id) PROVE JobsTypeOK'
  <2>1. posts' \subseteq Post
    BY <1>5, <1>a, ReplyType DEF PostCreated
  <2>2. doc' \in [Photo -> Doc \cup {NoDoc}]
    <3>1. IF HasDoc(r.photo) THEN Resubmitted(doc[r.photo]) \in Doc
                             ELSE NewDoc(id) \in Doc
      BY DocTypes, PostTypes DEF HasDoc
    <3> QED BY <1>5, <3>1, PostTypes DEF PostCreated, CreateOrGetJob
  <2> QED BY <1>5, <2>1, <2>2 DEF PostCreated
<1>6. CASE PostTooLarge(r)
  BY <1>6, <1>a, ReplyType, FaultType DEF PostTooLarge
<1>7. CASE PostBroken(r)
  BY <1>7, <1>a, ReplyType, FaultType DEF PostBroken
<1>8. CASE PostDropped(r)
  <2>1. [r EXCEPT !.heard = FALSE] \in Post /\ [r EXCEPT !.step = "lost"] \in Post
    BY <1>a, PostTypes
  <2> QED BY <1>8, <2>1, FaultType DEF PostDropped
<1> QED BY <1>1, <1>2, <1>3, <1>4, <1>5, <1>6, <1>7, <1>8 DEF PostStep

LEMMA TypeAcks ==
  ASSUME JobsTypeOK, NEW a \in acks, AckStep(a)
  PROVE  JobsTypeOK'
<1>1. a.photo \in Photo /\ [a EXCEPT !.emptied = TRUE] \in Ack
  BY DEF JobsTypeOK, Ack
<1> QED BY <1>1 DEF AckStep, AckIgnored, AckEmptied, AckDeleted, JobsTypeOK

LEMMA TypeRuns ==
  ASSUME JobsTypeOK, NEW r \in runs,
         RunStep(r) \/ RunScannedBlank(r) \/ RunFailed(r)
  PROVE  JobsTypeOK'
<1>1. /\ r.photo \in Photo /\ r.id \in JobId
      /\ \A step \in {"read", "scan", "stored"} : [r EXCEPT !.step = step] \in Run
  BY DEF JobsTypeOK, Run
<1>2. CASE RunRead(r)
  BY <1>1, <1>2 DEF RunRead, RunTo, JobsTypeOK
<1>3. CASE RunPhotoLost(r)
  BY <1>1, <1>3, EndJobType DEF RunPhotoLost, FailJob, JobsTypeOK
<1>4. CASE RunScanned(r)
  BY <1>1, <1>4 DEF RunScanned, RunStored, RunTo, JobsTypeOK
<1>5. CASE RunScannedBlank(r)
  BY <1>1, <1>5, FaultType DEF RunScannedBlank, RunStored, RunTo, JobsTypeOK
<1>6. CASE RunCompleted(r)
  BY <1>1, <1>6, EndJobType DEF RunCompleted, CompleteJob, JobsTypeOK
<1>7. CASE RunFailed(r)
  <2>1. doc' \in [Photo -> Doc \cup {NoDoc}]
    BY <1>1, <1>7, EndJobType DEF RunFailed, FailJob, JobsTypeOK
  <2> QED BY <1>7, <2>1, FaultType DEF RunFailed, JobsTypeOK
<1> QED BY <1>2, <1>3, <1>4, <1>5, <1>6, <1>7 DEF RunStep

LEMMA TypePhotos ==
  ASSUME JobsTypeOK, NEW p \in Photo,
         Claim(p) \/ LeaseAges(p) \/ Expire(p) \/ SweepRemoves(p)
  PROVE  JobsTypeOK'
<1>1. CASE Claim(p)
  <2>1. doc[p] \in Doc /\ doc[p].id \in JobId
    BY <1>1 DEF Claim, JobsTypeOK, NoDoc, Doc
  <2>2. Claimed(doc[p]) \in Doc
        /\ [photo |-> p, id |-> doc[p].id, step |-> "read"] \in Run
    BY <2>1, DocTypes DEF Run
  <2> QED BY <1>1, <2>2 DEF Claim, JobsTypeOK
<1>2. CASE LeaseAges(p)
  <2>1. [doc[p] EXCEPT !.stale = TRUE] \in Doc
    <3>1. doc[p] \in Doc
      BY <1>2 DEF LeaseAges, JobsTypeOK, NoDoc
    <3> QED BY <3>1 DEF Doc
  <2> QED BY <1>2, <2>1 DEF LeaseAges, JobsTypeOK
<1>3. CASE Expire(p)
  BY <1>3, FaultType DEF Expire, JobsTypeOK
<1>4. CASE SweepRemoves(p)
  BY <1>4 DEF SweepRemoves, JobsTypeOK
<1> QED BY <1>1, <1>2, <1>3, <1>4

LEMMA TypeProcess ==
  ASSUME JobsTypeOK,
         \/ Crash \/ Restart \/ BootReclaims \/ BootFails \/ SweepLists
         \/ Withdraw \/ Reopen
  PROVE  JobsTypeOK'
<1>1. CASE Crash
  <2>1. posts' \subseteq Post
    <3>1. \A q \in posts : q \in Post /\ [q EXCEPT !.step = "lost"] \in Post
      BY PostTypes DEF Answers
    <3> QED BY <1>1, <3>1 DEF Crash
  <2> QED BY <1>1, <2>1, FaultType DEF Crash, JobsTypeOK
<1>2. CASE BootReclaims
  <2>1. \A p \in Photo : Reclaimed(doc[p]) \in Doc \cup {NoDoc}
    BY DocTypes DEF JobsTypeOK
  <2> QED BY <1>2, <2>1 DEF BootReclaims, Orphans, JobsTypeOK
<1>3. CASE Restart \/ BootFails \/ SweepLists \/ Reopen
  BY <1>3 DEF Restart, BootFails, SweepLists, Reopen, Orphans, JobsTypeOK
<1>4. CASE Withdraw
  BY <1>4, FaultType DEF Withdraw, JobsTypeOK
<1> QED BY <1>1, <1>2, <1>3, <1>4

LEMMA TypeClients ==
  ASSUME JobsTypeOK,
         \/ \E p \in Photo : AnyPost(p)
         \/ \E p \in Photo, id \in JobId : AnyLookup(p, id) \/ AnyAck(p, id)
         \/ \E r \in posts : AnyRead(r)
         \/ AnyTrouble
  PROVE  JobsTypeOK'
<1>1. ASSUME NEW p \in Photo, AnyPost(p) PROVE JobsTypeOK'
  <2>1. \A step \in {"sent", "lost"} :
          [photo |-> p, step |-> step, id |-> NoJob, heard |-> TRUE] \in Post
    BY DEF Post, Running, Answers
  <2> QED BY <1>1, <2>1 DEF AnyPost, PostSend, JobsTypeOK
<1>2. ASSUME NEW p \in Photo, NEW id \in JobId, AnyLookup(p, id) PROVE JobsTypeOK'
  BY <1>2, EndJobType DEF AnyLookup, LookupWrites, FailJob, JobsTypeOK
<1>3. ASSUME NEW p \in Photo, NEW id \in JobId, AnyAck(p, id) PROVE JobsTypeOK'
  <2>1. [photo |-> p, id |-> id, emptied |-> FALSE] \in Ack
    BY DEF Ack
  <2> QED BY <1>3, <2>1 DEF AnyAck, AckSend, JobsTypeOK
<1>4. ASSUME NEW r \in posts, AnyRead(r) PROVE JobsTypeOK'
  BY <1>4 DEF AnyRead, JobsTypeOK
<1>5. CASE AnyTrouble
  <2>1. posts' \subseteq Post
    <3>1. \A q \in posts : q \in Post /\ [q EXCEPT !.heard = FALSE] \in Post
      BY PostTypes
    <3>2. HungUp \subseteq Post
      BY <3>1 DEF HungUp
    <3>3. posts' = posts \/ posts' = HungUp
      BY <1>5 DEF AnyTrouble
    <3> QED BY <3>1, <3>2, <3>3
  <2> QED BY <1>5, <2>1, FaultType DEF AnyTrouble, JobsTypeOK
<1> QED BY <1>1, <1>2, <1>3, <1>4, <1>5

LEMMA TypeNext == JobsTypeOK /\ [JobsNext]_jobsVars => JobsTypeOK'
<1> SUFFICES ASSUME JobsTypeOK, [JobsNext]_jobsVars PROVE JobsTypeOK'
  OBVIOUS
<1>1. CASE UNCHANGED jobsVars
  BY <1>1 DEF jobsVars, JobsTypeOK
<1>2. CASE JobsNext
  BY <1>2, TypePosts, TypeAcks, TypeRuns, TypePhotos, TypeProcess, TypeClients
     DEF JobsNext, ServerStep
<1> QED BY <1>1, <1>2

\* The documents, the files and everything in flight have their types.
THEOREM JobsTypeCorrect == JobsSpec => []JobsTypeOK
<1>1. JobsInit => JobsTypeOK
  BY ScanAssumption DEF JobsInit, JobsTypeOK
<1> QED BY <1>1, TypeNext, PTL DEF JobsSpec

----------------------------------------------------------------------------
(* The inductive invariant.  NoIdleRun: a process that does not work has no *)
(* runs, so that reclaimStale meets no job that is being worked on.        *)
(* QueuedCanRun: a queued job has tries left.                              *)

NoIdleRun == proc # "up" => runs = {}
QueuedCanRun ==
  \A p \in Photo : doc[p].status = "queued" => doc[p].attempts < MAX_JOB_ATTEMPTS
IInv == JobsTypeOK /\ NoIdleRun /\ QueuedCanRun /\ PoisonParks /\ RunOwnsJob

\* What a document of p may become while the runs rs go on.
DocFits(p, d, rs) ==
  /\ d.attempts <= MAX_JOB_ATTEMPTS
  /\ d.status = "queued" => d.attempts < MAX_JOB_ATTEMPTS
  /\ \A r \in rs : r.photo = p /\ r.id = d.id => d.status = "running"

LEMMA DocsFit ==
  ASSUME IInv, NEW p \in Photo
  PROVE  DocFits(p, doc[p], runs)
BY DEF IInv, QueuedCanRun, PoisonParks, RunOwnsJob, DocFits, ById

\* Documents that fit the runs that are left satisfy the invariant.
LEMMA FitSuffices ==
  ASSUME IInv, JobsTypeOK', NoIdleRun', runs' \subseteq runs,
         \A p \in Photo : DocFits(p, doc'[p], runs')
  PROVE  IInv'
<1>1. QueuedCanRun' /\ PoisonParks'
  BY DEF DocFits, QueuedCanRun, PoisonParks
<1>2. \A r \in runs' : r.photo \in Photo
  BY DEF JobsTypeOK, Run
<1>3. RunOwnsJob'
  BY <1>2 DEF RunOwnsJob, DocFits, ById, IInv
<1> QED BY <1>1, <1>3 DEF IInv

LEMMA SameDocs ==
  ASSUME IInv, JobsTypeOK', UNCHANGED <<doc, runs>>, proc' # "up" => proc # "up"
  PROVE  IInv'
<1>1. NoIdleRun'
  BY DEF IInv, NoIdleRun
<1>2. \A p \in Photo : DocFits(p, doc'[p], runs')
  BY DocsFit
<1> QED BY <1>1, <1>2, FitSuffices

\* A job ends: no run that goes on works on it.
LEMMA EndJobFits ==
  ASSUME IInv, NEW p \in Photo, NEW id \in JobId, NEW status \in {"failed", "done"},
         NEW rs \in SUBSET runs, \A r \in rs : r.photo = p => r.id # id,
         EndJob(p, id, status)
  PROVE  \A q \in Photo : DocFits(q, doc'[q], rs)
<1>1. \A q \in Photo : DocFits(q, doc[q], rs)
  BY DocsFit DEF DocFits
<1>2. CASE ~ById(p, id)
  BY <1>1, <1>2 DEF EndJob
<1>3. CASE ById(p, id)
  <2> DEFINE d == [doc[p] EXCEPT !.status = status, !.stale = FALSE]
  <2>1. doc[p] \in Doc /\ doc[p].id = id
    BY <1>3, IdIsId DEF IInv, ById
  <2>2. d.attempts = doc[p].attempts /\ d.id = id /\ d.status = status
    BY <2>1 DEF Doc
  <2>3. DocFits(p, d, rs)
    BY <1>1, <2>1, <2>2 DEF DocFits
  <2> HIDE DEF d
  <2>4. doc' = [doc EXCEPT ![p] = d] /\ doc \in [Photo -> Doc \cup {NoDoc}]
    BY <1>3 DEF EndJob, d, IInv, JobsTypeOK
  <2> QED BY <1>1, <2>3, <2>4
<1> QED BY <1>2, <1>3

LEMMA InvPosts ==
  ASSUME IInv, JobsTypeOK', NEW r \in posts,
         PostStep(r) \/ PostTooLarge(r) \/ PostBroken(r) \/ PostDropped(r)
  PROVE  IInv'
<1>1. ASSUME NEW id \in JobId, PostCreated(r, id) PROVE IInv'
  <2> DEFINE p == r.photo
             d == IF HasDoc(p) THEN Resubmitted(doc[p]) ELSE NewDoc(id)
  <2>1. p \in Photo /\ doc \in [Photo -> Doc \cup {NoDoc}]
    BY DEF IInv, JobsTypeOK, Post
  <2>2. DocFits(p, d, runs)
    <3>1. CASE ~HasDoc(p)
      <4>1. \A q \in runs : q.id # id
        BY <1>1, <3>1 DEF PostCreated, CreateOrGetJob, JobRefs
      <4> QED BY <3>1, <4>1, ScanAssumption DEF DocFits, NewDoc
    <3>2. CASE HasDoc(p) /\ doc[p].status = "failed"
      <4>1. doc[p] \in Doc
        BY <2>1, <3>2 DEF HasDoc
      <4>2. d.id = doc[p].id /\ d.attempts = 0 /\ d.status = "queued"
        BY <3>2, <4>1 DEF Resubmitted, Doc
      <4>3. \A q \in runs : ~(q.photo = p /\ q.id = doc[p].id)
        BY <2>1, <3>2, DocsFit DEF DocFits
      <4> QED BY <4>2, <4>3, ScanAssumption DEF DocFits
    <3>3. CASE HasDoc(p) /\ doc[p].status # "failed"
      BY <2>1, <3>3, DocsFit DEF Resubmitted
    <3> QED BY <3>1, <3>2, <3>3
  <2>3. doc' = [doc EXCEPT ![p] = d] /\ UNCHANGED <<runs, proc>>
    BY <1>1 DEF PostCreated, CreateOrGetJob
  <2> HIDE DEF p, d
  <2>4. \A q \in Photo : DocFits(q, doc'[q], runs')
    BY <2>1, <2>2, <2>3, DocsFit
  <2> QED BY <2>3, <2>4, FitSuffices DEF IInv, NoIdleRun
<1>2. CASE UNCHANGED <<doc, runs, proc>>
  BY <1>2, SameDocs
<1> QED
  BY <1>1, <1>2 DEF PostStep, PostRefused, PostFull, PostCounted, PostWritten,
     PostTooLarge, PostBroken, PostDropped

LEMMA InvNoDoc ==
  ASSUME IInv, JobsTypeOK', NEW p \in Photo, doc' = [doc EXCEPT ![p] = NoDoc],
         UNCHANGED <<runs, proc>>
  PROVE  IInv'
<1>1. \A r \in runs : r.id # NoJob
  BY ScanAssumption DEF IInv, JobsTypeOK, Run, NoJob
<1>2. DocFits(p, NoDoc, runs)
  BY <1>1, ScanAssumption DEF DocFits, NoDoc
<1>3. \A q \in Photo : DocFits(q, doc'[q], runs')
  BY <1>2, DocsFit DEF IInv, JobsTypeOK
<1> QED BY <1>3, FitSuffices DEF IInv, NoIdleRun

LEMMA InvAcks ==
  ASSUME IInv, JobsTypeOK', NEW a \in acks, AckStep(a)
  PROVE  IInv'
<1>1. CASE UNCHANGED doc
  BY <1>1, SameDocs DEF AckStep, AckIgnored, AckEmptied, AckDeleted
<1>2. CASE AckDeleted(a) /\ ~UNCHANGED doc
  <2>1. a.photo \in Photo
    BY DEF IInv, JobsTypeOK, Ack
  <2> QED BY <1>2, <2>1, InvNoDoc DEF AckDeleted
<1> QED BY <1>1, <1>2 DEF AckStep, AckIgnored, AckEmptied

LEMMA InvEnds ==
  ASSUME IInv, JobsTypeOK', NEW r \in runs, runs' = runs \ {r},
         NEW status \in {"failed", "done"},
         EndJob(r.photo, r.id, status) \/ UNCHANGED doc, UNCHANGED proc
  PROVE  IInv'
<1>1. r.photo \in Photo /\ r.id \in JobId
  BY DEF IInv, JobsTypeOK, Run
<1>2. \A q \in runs \ {r} : q.photo = r.photo => q.id # r.id
  BY DEF IInv, RunOwnsJob
<1>3. \A q \in Photo : DocFits(q, doc'[q], runs')
  <2>1. CASE EndJob(r.photo, r.id, status)
    BY <1>1, <1>2, <2>1, EndJobFits
  <2>2. CASE UNCHANGED doc
    BY <2>2, DocsFit DEF DocFits
  <2> QED BY <2>1, <2>2
<1>4. NoIdleRun'
  BY DEF IInv, NoIdleRun
<1> QED BY <1>3, <1>4, FitSuffices

\* A run that goes on to another step works on the same job.
LEMMA InvAdvances ==
  ASSUME IInv, JobsTypeOK', NEW r \in runs, NEW step \in {"scan", "stored"},
         RunTo(r, step), UNCHANGED <<doc, proc>>
  PROVE  IInv'
<1> DEFINE n == [r EXCEPT !.step = step]
<1>1. n.photo = r.photo /\ n.id = r.id
  BY DEF IInv, JobsTypeOK, Run
<1>2. runs' = (runs \ {r}) \cup {n}
  BY DEF RunTo
<1> HIDE DEF n
<1>3. RunOwnsJob'
  BY <1>1, <1>2 DEF IInv, RunOwnsJob, ById
<1>4. NoIdleRun'
  BY DEF IInv, NoIdleRun, RunTo
<1> QED BY <1>3, <1>4 DEF IInv, QueuedCanRun, PoisonParks

LEMMA InvRuns ==
  ASSUME IInv, JobsTypeOK', NEW r \in runs,
         RunStep(r) \/ RunScannedBlank(r) \/ RunFailed(r)
  PROVE  IInv'
<1>1. CASE RunRead(r)
  BY <1>1, InvAdvances DEF RunRead
<1>2. CASE RunScanned(r) \/ RunScannedBlank(r)
  BY <1>2, InvAdvances DEF RunScanned, RunScannedBlank, RunStored
<1>3. CASE RunPhotoLost(r)
  BY <1>3, InvEnds DEF RunPhotoLost, FailJob
<1>4. CASE RunCompleted(r)
  BY <1>4, InvEnds DEF RunCompleted, CompleteJob
<1>5. CASE RunFailed(r)
  BY <1>5, InvEnds DEF RunFailed, FailJob
<1> QED BY <1>1, <1>2, <1>3, <1>4, <1>5 DEF RunStep

LEMMA InvClaim ==
  ASSUME IInv, JobsTypeOK', NEW p \in Photo, Claim(p)
  PROVE  IInv'
<1> DEFINE d == Claimed(doc[p])
           n == [photo |-> p, id |-> doc[p].id, step |-> "read"]
<1>1. doc \in [Photo -> Doc \cup {NoDoc}] /\ doc[p] \in Doc
  BY DEF Claim, IInv, JobsTypeOK, NoDoc
<1>2. doc[p].attempts \in Nat /\ doc[p].attempts + 1 <= MAX_JOB_ATTEMPTS
  BY <1>1, ScanAssumption DEF Claim, IInv, QueuedCanRun, Doc
<1>3. d.id = doc[p].id /\ d.status = "running" /\ d.attempts <= MAX_JOB_ATTEMPTS
  BY <1>1, <1>2 DEF Claimed, Doc
<1>4. n.photo = p /\ n.id = doc[p].id
  OBVIOUS
<1>5. doc' = [doc EXCEPT ![p] = d] /\ runs' = runs \cup {n} /\ proc' = "up"
  BY DEF Claim
<1>6. \A r \in runs : ~(r.photo = p /\ r.id = n.id)
  BY <1>4, DocsFit DEF Claim, DocFits
<1> HIDE DEF d, n
<1>7. \A q \in Photo : doc'[q] = IF q = p THEN d ELSE doc[q]
  BY <1>1, <1>5
<1>8. QueuedCanRun' /\ PoisonParks'
  BY <1>3, <1>7 DEF IInv, QueuedCanRun, PoisonParks
<1>9. RunOwnsJob'
  <2>1. ASSUME NEW r \in runs', ById(r.photo, r.id)'
        PROVE  doc'[r.photo].status = "running"
    <3>1. r.photo \in Photo
      BY DEF JobsTypeOK, Run
    <3>2. CASE r.photo = p
      BY <1>3, <1>7, <3>1, <3>2
    <3>3. CASE r.photo # p
      <4>1. r \in runs /\ doc'[r.photo] = doc[r.photo]
        BY <1>4, <1>5, <1>7, <3>1, <3>3
      <4> QED BY <2>1, <4>1 DEF IInv, RunOwnsJob, ById
    <3> QED BY <3>2, <3>3
  <2>2. \A r, s \in runs' : r.photo = s.photo /\ r.id = s.id => r = s
    BY <1>4, <1>5, <1>6 DEF IInv, RunOwnsJob
  <2> QED BY <2>1, <2>2 DEF RunOwnsJob
<1> QED BY <1>5, <1>8, <1>9 DEF IInv, NoIdleRun

LEMMA InvPhotos ==
  ASSUME IInv, JobsTypeOK', NEW p \in Photo,
         Claim(p) \/ LeaseAges(p) \/ Expire(p) \/ SweepRemoves(p)
  PROVE  IInv'
<1>1. CASE LeaseAges(p)
  <2> DEFINE d == [doc[p] EXCEPT !.stale = TRUE]
  <2>1. doc \in [Photo -> Doc \cup {NoDoc}] /\ doc[p] \in Doc
    BY <1>1 DEF LeaseAges, IInv, JobsTypeOK, NoDoc
  <2>2. d.id = doc[p].id /\ d.status = doc[p].status /\ d.attempts = doc[p].attempts
    BY <2>1 DEF Doc
  <2>3. doc' = [doc EXCEPT ![p] = d] /\ UNCHANGED <<runs, proc>>
    BY <1>1 DEF LeaseAges
  <2> HIDE DEF d
  <2>4. \A q \in Photo : DocFits(q, doc'[q], runs')
    BY <2>1, <2>2, <2>3, DocsFit DEF DocFits
  <2> QED BY <2>3, <2>4, FitSuffices DEF IInv, NoIdleRun
<1> QED
  BY <1>1, InvClaim, InvNoDoc, SameDocs DEF Expire, SweepRemoves

LEMMA InvProcess ==
  ASSUME IInv, JobsTypeOK',
         \/ Crash \/ Restart \/ BootReclaims \/ BootFails \/ SweepLists
         \/ Withdraw \/ Reopen
  PROVE  IInv'
<1>1. CASE Crash
  BY <1>1, DocsFit, FitSuffices DEF Crash, NoIdleRun, DocFits
<1>2. CASE BootReclaims
  <2>1. runs = {} /\ runs' = {} /\ NoIdleRun'
    BY <1>2 DEF BootReclaims, IInv, NoIdleRun
  <2>2. ASSUME NEW p \in Photo PROVE DocFits(p, doc'[p], runs')
    <3>1. doc'[p] = Reclaimed(doc[p])
      BY <1>2 DEF BootReclaims
    <3>2. doc[p] \in Doc \cup {NoDoc} /\ DocFits(p, doc[p], runs)
      BY DocsFit DEF IInv, JobsTypeOK
    <3>3. CASE doc[p] = NoDoc
      BY <2>1, <3>1, <3>2, <3>3, DocTypes
    <3>4. CASE doc[p] \in Doc
      <4>1. doc[p].attempts \in Nat
        BY <3>4 DEF Doc
      <4> QED BY <2>1, <3>1, <3>2, <3>4, <4>1, ScanAssumption
              DEF Reclaimed, Doc, DocFits
    <3> QED BY <3>2, <3>3, <3>4
  <2> QED BY <2>1, <2>2, FitSuffices
<1>3. CASE Restart \/ BootFails \/ SweepLists \/ Withdraw \/ Reopen
  BY <1>3, SameDocs DEF Restart, BootFails, SweepLists, Withdraw, Reopen
<1> QED BY <1>1, <1>2, <1>3

LEMMA InvClients ==
  ASSUME IInv, JobsTypeOK',
         \/ \E p \in Photo : AnyPost(p)
         \/ \E p \in Photo, id \in JobId : AnyLookup(p, id) \/ AnyAck(p, id)
         \/ \E r \in posts : AnyRead(r)
         \/ AnyTrouble
  PROVE  IInv'
<1>1. ASSUME NEW p \in Photo, NEW id \in JobId, AnyLookup(p, id) PROVE IInv'
  <2>1. CASE LookupAnswer(p, id) # "failed"
    BY <1>1, <2>1, SameDocs DEF AnyLookup, LookupWrites
  <2>2. CASE LookupAnswer(p, id) = "failed"
    <3>1. ById(p, id) /\ doc[p].status \in {"failed", "done"}
      <4>1. gate \in {"open", "preparing"} /\ JobsTypeOK
        BY DEF IInv, JobsTypeOK
      <4>2. Serving /\ gate = "open" /\ ById(p, id)
        BY <2>2, <4>1 DEF LookupAnswer
      <4>3. doc[p].status = "failed" \/ doc[p].status = "done"
        BY <2>2, <4>2 DEF LookupAnswer
      <4> QED BY <4>2, <4>3
    <3>2. \A r \in runs : r.photo = p => r.id # id
      BY <3>1, DocsFit DEF DocFits, ById
    <3>3. EndJob(p, id, "failed") /\ UNCHANGED <<runs, proc>>
      BY <1>1, <2>2 DEF AnyLookup, LookupWrites, FailJob
    <3>4. \A q \in Photo : DocFits(q, doc'[q], runs)
      BY <3>2, <3>3, EndJobFits
    <3> QED BY <3>3, <3>4, FitSuffices DEF IInv, NoIdleRun
  <2> QED BY <2>1, <2>2
<1>2. CASE UNCHANGED <<doc, runs, proc>>
  BY <1>2, SameDocs
<1> QED BY <1>1, <1>2 DEF AnyPost, AnyAck, AnyRead, AnyTrouble

LEMMA InvNext == IInv /\ [JobsNext]_jobsVars => IInv'
<1> SUFFICES ASSUME IInv, [JobsNext]_jobsVars PROVE IInv'
  OBVIOUS
<1>1. JobsTypeOK'
  BY TypeNext DEF IInv
<1>2. CASE UNCHANGED jobsVars
  BY <1>1, <1>2, SameDocs DEF jobsVars
<1>3. CASE JobsNext
  BY <1>1, <1>3, InvPosts, InvAcks, InvRuns, InvPhotos, InvProcess, InvClients
     DEF JobsNext, ServerStep
<1> QED BY <1>2, <1>3

LEMMA InvAlways == JobsSpec => []IInv
<1>1. JobsInit => IInv
  BY ScanAssumption
     DEF JobsInit, IInv, JobsTypeOK, NoIdleRun, QueuedCanRun, PoisonParks, RunOwnsJob,
         NoDoc
<1> QED BY <1>1, InvNext, PTL DEF JobsSpec

\* However often the process dies, a job is claimed at most MAX_JOB_ATTEMPTS
\* times in a row.
THEOREM PoisonParked == JobsSpec => []PoisonParks
<1>1. IInv => PoisonParks
  BY DEF IInv
<1> QED BY <1>1, InvAlways, PTL

\* Whatever clients submit, look up and acknowledge, and whenever the process
\* dies, a job that a run works on is running and no other run works on it.
THEOREM RunsOwnJobs == JobsSpec => []RunOwnsJob
<1>1. IInv => RunOwnsJob
  BY DEF IInv
<1> QED BY <1>1, InvAlways, PTL

----------------------------------------------------------------------------
(* A finished job.                                                         *)

Finished(p) == doc[p].status = "done" /\ disk[p] \cap {"result", "blank"} # {}
StaysDone ==
  \A p \in Photo : Finished(p) => doc'[p].id # doc[p].id \/ doc'[p].status = "done"

\* Ending a job another run works on leaves the finished ones alone.
LEMMA EndKeepsDone ==
  ASSUME IInv, NEW q \in Photo, NEW id \in JobId, NEW status \in {"failed", "done"},
         EndJob(q, id, status),
         ById(q, id) => ~Finished(q) \/ status = "done"
  PROVE  StaysDone
<1>1. CASE ~ById(q, id)
  BY <1>1 DEF EndJob, StaysDone, Finished
<1>2. CASE ById(q, id)
  <2> DEFINE d == [doc[q] EXCEPT !.status = status, !.stale = FALSE]
  <2>1. doc[q] \in Doc /\ doc \in [Photo -> Doc \cup {NoDoc}]
    BY <1>2, IdIsId DEF IInv, JobsTypeOK
  <2>2. d.status = status
    BY <2>1 DEF Doc
  <2>3. doc' = [doc EXCEPT ![q] = d]
    BY <1>2 DEF EndJob
  <2> HIDE DEF d
  <2> QED BY <1>2, <2>1, <2>2, <2>3 DEF StaysDone, Finished
<1> QED BY <1>1, <1>2

LEMMA RunsKeepDone ==
  ASSUME IInv, NEW r \in runs,
         EndJob(r.photo, r.id, "failed") \/ EndJob(r.photo, r.id, "done")
  PROVE  StaysDone
<1>1. r.photo \in Photo /\ r.id \in JobId
  BY DEF IInv, JobsTypeOK, Run
<1>2. ById(r.photo, r.id) => ~Finished(r.photo)
  BY DEF IInv, RunOwnsJob, Finished
<1> QED BY <1>1, <1>2, EndKeepsDone

LEMMA DoneKept == IInv /\ [JobsNext]_jobsVars => StaysDone
<1> SUFFICES ASSUME IInv, [JobsNext]_jobsVars PROVE StaysDone
  OBVIOUS
<1>0. doc \in [Photo -> Doc \cup {NoDoc}]
  BY DEF IInv, JobsTypeOK
<1>1. CASE UNCHANGED doc
  BY <1>1 DEF StaysDone, Finished
<1>2. ASSUME NEW r \in posts, NEW id \in JobId, PostCreated(r, id) PROVE StaysDone
  <2> DEFINE d == IF HasDoc(r.photo) THEN Resubmitted(doc[r.photo]) ELSE NewDoc(id)
  <2>1. doc' = [doc EXCEPT ![r.photo] = d]
    BY <1>2 DEF PostCreated, CreateOrGetJob
  <2>2. Finished(r.photo) => d = doc[r.photo]
    BY DEF Finished, HasDoc, NoDoc, Resubmitted
  <2> HIDE DEF d
  <2> QED BY <1>0, <2>1, <2>2 DEF StaysDone, Finished
<1>3. ASSUME NEW a \in acks, AckDeleted(a) PROVE StaysDone
  <2>1. a.photo \in Photo /\ a.id \in JobId
    BY DEF IInv, JobsTypeOK, Ack
  <2> QED BY <1>0, <1>3, <2>1, ScanAssumption
          DEF AckDeleted, StaysDone, Finished, ById, NoDoc, NoJob
<1>4. ASSUME NEW r \in runs, RunPhotoLost(r) \/ RunCompleted(r) \/ RunFailed(r)
      PROVE  StaysDone
  BY <1>1, <1>4, RunsKeepDone
     DEF RunPhotoLost, RunCompleted, RunFailed, FailJob, CompleteJob
<1>5. ASSUME NEW p \in Photo, Claim(p) \/ LeaseAges(p) PROVE StaysDone
  BY <1>0, <1>5 DEF Claim, LeaseAges, StaysDone, Finished
<1>6. ASSUME NEW p \in Photo, Expire(p) PROVE StaysDone
  BY <1>0, <1>6, ScanAssumption
     DEF Expire, HasDoc, StaysDone, Finished, NoDoc, NoJob, Doc
<1>7. CASE BootReclaims
  BY <1>7 DEF BootReclaims, Reclaimed, StaysDone, Finished
<1>8. ASSUME NEW p \in Photo, NEW id \in JobId, AnyLookup(p, id) PROVE StaysDone
  <2>1. CASE LookupAnswer(p, id) = "failed"
    <3>1. ~Finished(p)
      BY <2>1 DEF LookupAnswer, Finished
    <3> QED BY <1>8, <2>1, <3>1, EndKeepsDone DEF AnyLookup, LookupWrites, FailJob
  <2>2. CASE LookupAnswer(p, id) # "failed"
    BY <1>1, <1>8, <2>2 DEF AnyLookup, LookupWrites
  <2> QED BY <2>1, <2>2
<1>9. \/ UNCHANGED doc
      \/ \E r \in posts, id \in JobId : PostCreated(r, id)
      \/ \E a \in acks : AckDeleted(a)
      \/ \E r \in runs : RunPhotoLost(r) \/ RunCompleted(r) \/ RunFailed(r)
      \/ \E p \in Photo : Claim(p) \/ LeaseAges(p) \/ Expire(p)
      \/ BootReclaims
      \/ \E p \in Photo, id \in JobId : AnyLookup(p, id)
  BY DEF jobsVars, JobsNext, ServerStep, PostStep, PostRefused, PostFull, PostCounted,
     PostWritten, PostTooLarge, PostBroken, PostDropped, AckStep, AckIgnored, AckEmptied,
     RunStep, RunRead, RunScanned, RunScannedBlank, RunStored, SweepRemoves, Crash,
     Restart, BootFails, SweepLists, Withdraw, Reopen, AnyPost, AnyAck, AnyRead,
     AnyTrouble
<1> QED BY <1>1, <1>2, <1>3, <1>4, <1>5, <1>6, <1>7, <1>8, <1>9

\* A job whose result is on disk stays done until its document is deleted, so
\* no submission, lookup, late run or restart pays for its photo again.
THEOREM DoneJobsStayDone == JobsSpec => DoneStaysDone
<1>1. IInv /\ [JobsNext]_jobsVars =>
        [\A p \in Photo :
           doc[p].status = "done" /\ disk[p] \cap {"result", "blank"} # {}
             => doc'[p].id # doc[p].id \/ doc'[p].status = "done"]_jobsVars
  BY DoneKept DEF StaysDone, Finished
<1> QED BY <1>1, InvAlways, PTL DEF JobsSpec, DoneStaysDone
=============================================================================
