----------------------------- MODULE ScanQueue ------------------------------
(***************************************************************************)
(* The scan queue of a staff phone (lib/scan-queue) with the scan jobs of  *)
(* its store.  A photo is recorded in IndexedDB, submitted as a job, the   *)
(* job is polled, its products are stored in the record, the job is        *)
(* acknowledged and the products are saved to the shelf.                   *)
(*                                                                         *)
(* The phone has three kinds of state.  Its memory (item, blobs, ...) is   *)
(* lost by a reload.  Its records (rec) survive, and reach IndexedDB late: *)
(* outboxUpdate is a read transaction followed by a write transaction that *)
(* the pump seldom waits for.  What is in flight (posts, polls, the save) *)
(* may be dropped.  An update of a field that is not a control field       *)
(* (previews, texts, stages) is left out.                                  *)
(***************************************************************************)
EXTENDS ScanJobs, Sequences

CONSTANTS
  Shelf, ShelfOf,    \* the shelf a photo was taken for
  DETECT_CONCURRENCY, MAX_ATTEMPTS,
  MaxPolls,          \* bound: lookups in flight
  MaxWrites          \* bound: IndexedDB transactions pending for a photo

ASSUME QueueAssumption ==
  /\ ShelfOf \in [Photo -> Shelf]
  /\ DETECT_CONCURRENCY \in Nat \ {0}
  /\ MAX_ATTEMPTS \in Nat \ {0}
  /\ MaxPolls \in Nat \ {0}
  /\ MaxWrites \in Nat

VARIABLES
  item,       \* the queue in memory
  blobs,      \* photos whose bytes are in memory
  rec,        \* the records of the outbox
  idb,        \* the pending transactions of each record, in their order
  enabled,    \* queueEnabled
  view,       \* the store configuration the page has loaded
  awake,      \* a pump loop is running or called for
  prep,       \* submitOne calls that prepare the bytes
  polls,      \* pollOne calls in flight
  save,       \* the saveOne call in flight
  confirmed,  \* confirmedWhilePaused
  writes,     \* shelf saves that go on without their client
  fresh,      \* shelves with a product updated since 5 s before the last save
  listed,     \* photos whose products are in the catalogue
  taken,      \* photos that were ever enqueued
  given       \* photos the staff removed

phoneVars == <<item, blobs, rec, idb, enabled, view, awake, prep, polls, save,
               confirmed, writes, fresh, listed, taken, given>>
vars == <<jobsVars, phoneVars>>

NoItem == [st |-> "none", att |-> 0, job |-> NoJob, goods |-> FALSE,
           why |-> "none", wait |-> FALSE]
NewItem == [NoItem EXCEPT !.st = "queued"]
NoSave == [photo |-> CHOOSE p \in Photo : TRUE, step |-> "none"]

Item == [st : {"queued", "detecting", "detected", "saving", "saved", "failed"},
         att : 0 .. MAX_ATTEMPTS, job : JobId \cup {NoJob}, goods : BOOLEAN,
         why : {"none", "network", "detect", "save", "permanent"}, wait : BOOLEAN]

TypeOK ==
  /\ JobsTypeOK
  /\ item \in [Photo -> Item \cup {NoItem}]
  /\ rec \in [Photo -> Item \cup {NoItem}]
  /\ \A p \in Photo : \A k \in DOMAIN idb[p] :
       idb[p][k] \in [data : Item \cup {NoItem}, ack : JobId \cup {NoJob}]
  /\ enabled \in BOOLEAN /\ awake \in BOOLEAN
  /\ view \in {"none", "open", "preparing"}
  /\ polls \subseteq [photo : Photo, job : JobId]
  /\ save = NoSave \/ save \in [photo : Photo, step :
       {"sent", "held", "landed", "broken"}]
  /\ blobs \cup prep \cup confirmed \cup writes \cup listed \cup taken \cup given
       \subseteq Photo
  /\ fresh \subseteq Shelf

Init ==
  /\ JobsInit
  /\ item = [p \in Photo |-> NoItem] /\ blobs = {}
  /\ rec = [p \in Photo |-> NoItem] /\ idb = [p \in Photo |-> <<>>]
  /\ enabled = TRUE /\ view = "open" /\ awake = FALSE
  /\ prep = {} /\ polls = {} /\ save = NoSave /\ confirmed = {}
  /\ writes = {} /\ fresh = {} /\ listed = {} /\ taken = {} /\ given = {}

Has(p) == item[p] # NoItem
With(st) == {p \in Photo : item[p].st = st}

----------------------------------------------------------------------------
(* The outbox.                                                             *)

\* The record r with the fields of a patch.
Merge(r, patch) ==
  [x \in DOMAIN r |-> IF x \in DOMAIN patch THEN patch[x] ELSE r[x]]

\* An outboxUpdate merges its patch into the record it has read: of two that
\* are under way together, the later write knows nothing of the earlier one.
\* There is nothing to merge into when the record is gone.
Update(p, patch, ack) ==
  [data |-> IF rec[p] = NoItem THEN NoItem ELSE Merge(rec[p], patch), ack |-> ack]
Delete == [data |-> NoItem, ack |-> NoJob]

Queue(p, ops) ==
  /\ Len(idb[p]) + Len(ops) <= MaxWrites
  /\ idb' = [idb EXCEPT ![p] = @ \o ops]

\* updateItem and outboxUpdate with one patch, as the pump does it throughout.
Patch(p, patch) ==
  /\ item' = [item EXCEPT ![p] = Merge(@, patch)]
  /\ Queue(p, <<Update(p, patch, NoJob)>>)

\* The device's own database is quicker than the network and the staff: an
\* answer or a retry finds the transactions of its photo done.  Two updates of
\* one run of the pump, or a removal, do not wait for each other.
Written(p) == idb[p] = <<>>

\* Backoffs and a page load are slower than requests: they find the requests
\* about the photo over.
Quiet(p) == \A r \in posts \cup acks : r.photo # p

\* What follows an awaited outboxUpdate: the job is acknowledged, if the queue
\* is still enabled, and the pump called.
Acknowledge(p, id) ==
  IF id = NoJob THEN UNCHANGED <<acks, awake>>
  ELSE /\ IF enabled THEN AckSend(p, id) ELSE UNCHANGED acks
       /\ awake' = TRUE

IdbStep(p) ==
  /\ idb[p] # <<>>
  /\ rec' = [rec EXCEPT ![p] = Head(idb[p]).data]
  /\ idb' = [idb EXCEPT ![p] = Tail(@)]
  /\ Acknowledge(p, Head(idb[p]).ack)
  /\ UNCHANGED <<doc, disk, posts, runs, victims, proc, gate, faults>>
  /\ UNCHANGED <<item, blobs, enabled, view, prep, polls, save, confirmed,
                 writes, fresh, listed, taken, given>>

----------------------------------------------------------------------------
(* The staff.                                                              *)

\* Recorded before any network; when the record cannot be stored the photo
\* lives in memory only.
Enqueue(p) ==
  /\ p \notin taken
  /\ taken' = taken \cup {p}
  /\ \/ rec' = [rec EXCEPT ![p] = NewItem] /\ UNCHANGED faults
     \/ Fault /\ UNCHANGED rec
  /\ item' = [item EXCEPT ![p] = NewItem]
  /\ blobs' = blobs \cup {p}
  /\ awake' = TRUE
  /\ UNCHANGED <<doc, disk, posts, acks, runs, victims, proc, gate>>
  /\ UNCHANGED <<idb, enabled, view, prep, polls, save, confirmed, writes,
                 fresh, listed, given>>

\* The pages offer it for a photo that failed or in which nothing was detected.
RetryItem(p) ==
  /\ \/ item[p].st = "failed" /\ item[p].why # "permanent"
     \/ item[p].st = "detected" /\ ~item[p].goods
  /\ Written(p)
  /\ LET again == item[p].why # "save" IN
       Patch(p, [st |-> IF again THEN "queued" ELSE "detected", att |-> 0,
                 why |-> "none", wait |-> FALSE,
                 goods |-> ~again /\ item[p].goods])
  /\ awake' = TRUE
  /\ UNCHANGED jobsVars
  /\ UNCHANGED <<blobs, rec, enabled, view, prep, polls, save, confirmed,
                 writes, fresh, listed, taken, given>>

RemoveItem(p) ==
  /\ Has(p)
  /\ item' = [item EXCEPT ![p] = NoItem]
  /\ blobs' = blobs \ {p}
  /\ given' = given \cup {p}
  /\ Queue(p, <<Delete>>)
  /\ UNCHANGED jobsVars
  /\ UNCHANGED <<rec, enabled, view, awake, prep, polls, save, confirmed,
                 writes, fresh, listed, taken>>

----------------------------------------------------------------------------
(* Submission.                                                             *)

\* Mutant: the tries are compared after they were used up.
FailureLate(p, safe, why, autoRetry) ==
  IF autoRetry /\ item[p].att <= MAX_ATTEMPTS
  THEN [st |-> safe, att |-> item[p].att + 1, why |-> "none", wait |-> TRUE]
  ELSE [st |-> "failed", att |-> item[p].att + 1, why |-> why, wait |-> FALSE]

\* failItem: back to the safe state with a backoff while there are tries left,
\* parked as failed otherwise.
Failure(p, safe, why, autoRetry) ==
  LET tries == item[p].att + 1
      n == IF tries > MAX_ATTEMPTS THEN MAX_ATTEMPTS ELSE tries
  IN  IF autoRetry /\ tries < MAX_ATTEMPTS
      THEN [st |-> safe, att |-> n, why |-> "none", wait |-> TRUE]
      ELSE [st |-> "failed", att |-> n, why |-> why, wait |-> FALSE]

Eligible(p, st) == item[p].st = st /\ ~item[p].wait
NothingToSave == \A p \in Photo : ~Eligible(p, "detected")
Pumping == enabled /\ awake /\ save = NoSave

\* The pump hands the next queued photo to submitOne.
Submit(p) ==
  /\ Pumping /\ NothingToSave
  /\ Eligible(p, "queued")
  /\ Cardinality(With("detecting")) < DETECT_CONCURRENCY
  /\ Patch(p, [st |-> "detecting"])
  /\ prep' = prep \cup ({p} \cap blobs)
  /\ UNCHANGED jobsVars
  /\ UNCHANGED <<blobs, rec, enabled, view, awake, polls, save, confirmed,
                 writes, fresh, listed, taken, given>>

PumpRests ==
  /\ Pumping /\ NothingToSave
  /\ \/ Cardinality(With("detecting")) >= DETECT_CONCURRENCY
     \/ \A p \in Photo : ~Eligible(p, "queued")
  /\ awake' = FALSE
  /\ UNCHANGED jobsVars
  /\ UNCHANGED <<item, blobs, rec, idb, enabled, view, prep, polls, save,
                 confirmed, writes, fresh, listed, taken, given>>

\* The bytes are ready: the photo is posted, or held back when the queue was
\* paused or the photo removed meanwhile.
SubmitSends(p) ==
  /\ p \in prep /\ prep' = prep \ {p}
  /\ \/ Has(p) /\ enabled /\ PostSend(p) /\ UNCHANGED <<item, idb, awake>>
     \/ Has(p) /\ ~enabled /\ Patch(p, [st |-> "queued"]) /\ awake' = TRUE
        /\ UNCHANGED posts
     \/ ~Has(p) /\ awake' = TRUE /\ UNCHANGED <<item, idb, posts>>
  /\ UNCHANGED <<doc, disk, acks, runs, victims, proc, gate, faults>>
  /\ UNCHANGED <<blobs, rec, enabled, view, polls, save, confirmed,
                 writes, fresh, listed, taken, given>>

SubmitUnreadable(p) ==
  /\ p \in prep /\ prep' = prep \ {p} /\ Has(p)
  /\ Fault
  /\ Patch(p, Failure(p, "queued", "detect", FALSE))
  /\ awake' = TRUE
  /\ UNCHANGED <<doc, disk, posts, acks, runs, victims, proc, gate>>
  /\ UNCHANGED <<blobs, rec, enabled, view, polls, save, confirmed,
                 writes, fresh, listed, taken, given>>

AnswerPatch(r) ==
  CASE r.step = "taken" -> [job |-> r.id]
    [] r.step = "full" -> [st |-> "queued", wait |-> TRUE]
    [] r.step = "preparing" -> [st |-> "queued"]
    [] r.step = "too_large" -> Failure(r.photo, "queued", "permanent", FALSE)
    [] r.step = "error" -> Failure(r.photo, "queued", "detect", TRUE)
    [] r.step = "lost" -> Failure(r.photo, "queued", "network", TRUE)

\* submitOne reads its answer and calls the pump.  A store that is not open
\* pauses the whole queue.
SubmitAnswered(r) ==
  /\ r.heard /\ r.step \in Answers /\ Written(r.photo)
  /\ posts' = posts \ {r}
  /\ IF Has(r.photo) THEN Patch(r.photo, AnswerPatch(r)) ELSE UNCHANGED <<item, idb>>
  /\ enabled' = (enabled /\ ~(Has(r.photo) /\ r.step = "preparing"))
  /\ awake' = TRUE
  /\ UNCHANGED <<doc, disk, acks, runs, victims, proc, gate, faults>>
  /\ UNCHANGED <<blobs, rec, view, prep, polls, save, confirmed,
                 writes, fresh, listed, taken, given>>

----------------------------------------------------------------------------
(* Polling.                                                                *)

PollAsks(p) ==
  /\ enabled /\ Cardinality(polls) < MaxPolls
  /\ item[p].st = "detecting" /\ item[p].job # NoJob
  /\ polls' = polls \cup {[photo |-> p, job |-> item[p].job]}
  /\ UNCHANGED jobsVars
  /\ UNCHANGED <<item, blobs, rec, idb, enabled, view, awake, prep, save,
                 confirmed, writes, fresh, listed, taken, given>>

PollLost(q) ==
  /\ Fault
  /\ polls' = polls \ {q}
  /\ UNCHANGED <<doc, disk, posts, acks, runs, victims, proc, gate>>
  /\ UNCHANGED <<item, blobs, rec, idb, enabled, view, awake, prep, save,
                 confirmed, writes, fresh, listed, taken, given>>

\* The job is gone or failed: two updates are started back to back, so the
\* second reads the record the first has not written yet.
JobOver(p) ==
  LET failure == Failure(p, "queued", "detect", TRUE) IN
    /\ item' = [item EXCEPT ![p] = Merge([@ EXCEPT !.job = NoJob], failure)]
    /\ Queue(p, <<Update(p, [job |-> NoJob], NoJob), Update(p, failure, NoJob)>>)

Found(goods) == [st |-> "detected", goods |-> goods, job |-> NoJob,
                 why |-> "none", wait |-> FALSE]

\* The store answers the lookup and pollOne acts on it.
PollAnswered(q) ==
  LET p == q.photo
      answer == LookupAnswer(p, q.job)
  IN
  /\ Written(p)
  /\ polls' = polls \ {q}
  /\ LookupWrites(p, q.job)
  /\ \/ /\ Has(p)
        /\ answer = "gone" \/ (answer = "failed" /\ enabled)
        /\ JobOver(p)
     \/ /\ Has(p) /\ enabled
        /\ answer \in {"result", "blank"}
        /\ LET found == Found(answer = "result") IN
             /\ item' = [item EXCEPT ![p] = Merge(@, found)]
             /\ Queue(p, <<Update(p, found, q.job)>>)
     \/ /\ \/ ~Has(p)
           \/ ~enabled /\ answer # "gone"
           \/ answer \in {"lost", "queued", "running"}
        /\ UNCHANGED <<item, idb>>
  /\ UNCHANGED <<disk, posts, acks, runs, victims, proc, gate, faults>>
  /\ UNCHANGED <<blobs, rec, enabled, view, awake, prep, save, confirmed,
                 writes, fresh, listed, taken, given>>

----------------------------------------------------------------------------
(* Saving.                                                                 *)

\* saveOne: a photo without products fails at once, another one is posted.
SaveStarts(p) ==
  /\ Pumping /\ Eligible(p, "detected")
  /\ IF item[p].goods
     THEN /\ Patch(p, [st |-> "saving"])
          /\ save' = [photo |-> p, step |-> "sent"]
     ELSE /\ Patch(p, Failure(p, "queued", "detect", FALSE))
          /\ UNCHANGED save
  /\ UNCHANGED jobsVars
  /\ UNCHANGED <<blobs, rec, enabled, view, awake, prep, polls, confirmed,
                 writes, fresh, listed, taken, given>>

SaveTo(step) == save' = [save EXCEPT !.step = step]
Land(p) == listed' = listed \cup {p} /\ fresh' = fresh \cup {ShelfOf[p]}

\* POST /api/shelf-evidence.
SaveServed ==
  /\ save.step = "sent"
  /\ \/ ~Serving /\ SaveTo("broken") /\ UNCHANGED <<listed, fresh>>
     \/ Serving /\ gate = "preparing" /\ SaveTo("held") /\ UNCHANGED <<listed, fresh>>
     \/ Serving /\ gate = "open" /\ SaveTo("landed") /\ Land(save.photo)
  /\ UNCHANGED jobsVars
  /\ UNCHANGED <<item, blobs, rec, idb, enabled, view, awake, prep, polls,
                 confirmed, writes, taken, given>>

\* The write fails, or the stream drops before or after it: a write the server
\* has begun goes on without its client.
SaveBroken ==
  /\ save.step \in {"sent", "landed"}
  /\ Fault
  /\ SaveTo("broken")
  /\ \/ UNCHANGED writes
     \/ save.step = "sent" /\ Serving /\ writes' = writes \cup {save.photo}
  /\ UNCHANGED <<doc, disk, posts, acks, runs, victims, proc, gate>>
  /\ UNCHANGED <<item, blobs, rec, idb, enabled, view, awake, prep, polls,
                 confirmed, fresh, listed, taken, given>>

WriteLands(p) ==
  /\ p \in writes /\ Serving
  /\ writes' = writes \ {p}
  /\ Land(p)
  /\ UNCHANGED jobsVars
  /\ UNCHANGED <<item, blobs, rec, idb, enabled, view, awake, prep, polls, save,
                 confirmed, taken, given>>

\* verifyServerSideSave: was any product of the shelf updated lately?
Verified(p) == Serving /\ gate = "open" /\ ShelfOf[p] \in fresh

Saved(p) ==
  /\ item' = [item EXCEPT ![p].st = "saved", ![p].why = "none"]
  /\ blobs' = blobs \ {p}
  /\ Queue(p, <<Delete>>)
  /\ UNCHANGED confirmed

\* The end of saveOne.  A save that ends while the queue is paused keeps the
\* photo, marked with what the save came to.
SaveEnds ==
  LET p == save.photo
      on == enabled /\ save.step # "held"
      ok == \/ save.step = "landed"
            \/ save.step = "broken" /\ on /\ Verified(p)
  IN
  /\ save.step \in {"landed", "broken", "held"} /\ Written(p)
  /\ save' = NoSave
  /\ enabled' = on
  /\ \/ ~Has(p) /\ UNCHANGED <<item, blobs, idb, confirmed>>
     \/ Has(p) /\ ~on
        /\ Patch(p, [st |-> IF ok THEN "saved" ELSE "detected"])
        /\ confirmed' = confirmed \cup (IF ok THEN {p} ELSE {})
        /\ UNCHANGED blobs
     \/ Has(p) /\ on /\ ok /\ Saved(p)
     \/ Has(p) /\ on /\ ~ok
        /\ Patch(p, Failure(p, "detected", "save", TRUE))
        /\ UNCHANGED <<blobs, confirmed>>
  /\ UNCHANGED jobsVars
  /\ UNCHANGED <<rec, view, awake, prep, polls, writes, fresh, listed, taken, given>>

\* Five seconds without an update of the shelf, unless a save of it is waiting
\* to be verified.  The updates the alias enhancement makes later only delay it.
TimePasses(s) ==
  /\ s \in fresh
  /\ save # NoSave => ShelfOf[save.photo] # s
  /\ fresh' = fresh \ {s}
  /\ UNCHANGED jobsVars
  /\ UNCHANGED <<item, blobs, rec, idb, enabled, view, awake, prep, polls, save,
                 confirmed, writes, listed, taken, given>>

----------------------------------------------------------------------------
(* Backoff, connectivity, pauses and reloads.                              *)

WaitOver(p) ==
  /\ item[p].wait /\ Quiet(p) /\ Written(p)
  /\ item' = [item EXCEPT ![p].wait = FALSE]
  /\ awake' = (awake \/ enabled)
  /\ UNCHANGED jobsVars
  /\ UNCHANGED <<blobs, rec, idb, enabled, view, prep, polls, save, confirmed,
                 writes, fresh, listed, taken, given>>

\* The window's 'online' event, where it finds something to revive.
Revived(p) ==
  CASE item[p].wait -> <<[wait |-> FALSE]>>
    [] item[p].st = "failed" /\ item[p].why = "network" ->
         <<[st |-> "queued", att |-> 0, why |-> "none", wait |-> FALSE]>>
    [] OTHER -> <<>>

Online ==
  /\ \E p \in Photo : Revived(p) # <<>>
  /\ \A p \in Photo : Written(p)
  /\ item' = [p \in Photo |-> IF Revived(p) = <<>> THEN item[p]
                              ELSE Merge(item[p], Revived(p)[1])]
  /\ idb' = [p \in Photo |-> IF Revived(p) = <<>> THEN idb[p]
                             ELSE <<Update(p, Revived(p)[1], NoJob)>>]
  /\ awake' = TRUE
  /\ UNCHANGED jobsVars
  /\ UNCHANGED <<blobs, rec, enabled, view, prep, polls, save, confirmed,
                 writes, fresh, listed, taken, given>>

\* setScanQueueEnabled(TRUE) also lets go of the photos saved during a pause.
Resume ==
  /\ enabled' = TRUE /\ awake' = TRUE
  /\ blobs' = blobs \ confirmed
  /\ idb' = [p \in Photo |-> IF p \in confirmed THEN Append(idb[p], Delete) ELSE idb[p]]
  /\ confirmed' = {}
Pause == enabled' = FALSE /\ UNCHANGED <<awake, blobs, idb, confirmed>>

\* The page reloads the store configuration every 10 s; QueueBoot enables or
\* pauses the queue only when what it sees has changed.
Refresh ==
  /\ Serving /\ view # gate
  /\ view = "none" => \A p \in Photo : Quiet(p)
  /\ view' = gate
  /\ IF gate = "open" THEN Resume ELSE Pause
  /\ UNCHANGED jobsVars
  /\ UNCHANGED <<item, rec, prep, polls, save, writes, fresh, listed, taken, given>>

\* Without a configuration the page shows an error and unmounts QueueBoot.
RefreshFails ==
  /\ ~Serving /\ view # "none"
  /\ view' = "none"
  /\ Pause
  /\ UNCHANGED jobsVars
  /\ UNCHANGED <<item, rec, prep, polls, save, writes, fresh, listed, taken, given>>

\* Mutant: a save that was interrupted is taken for one that was done.
RestoredSaved(r) ==
  CASE r.st = "detecting" /\ r.job = NoJob -> [r EXCEPT !.st = "queued"]
    [] r.st = "saving" -> [r EXCEPT !.st = "saved"]
    [] OTHER -> r

\* Mutant: a photo interrupted before it had a job is not queued again.
RestoredAsIs(r) == IF r.st = "saving" THEN [r EXCEPT !.st = "detected"] ELSE r

\* restoreFromOutbox rolls an interrupted status back to its last safe state.
Restored(r) ==
  CASE r.st = "detecting" /\ r.job = NoJob -> [r EXCEPT !.st = "queued"]
    [] r.st = "saving" -> [r EXCEPT !.st = "detected"]
    [] OTHER -> r

\* The page is reloaded or killed: memory and pending transactions are lost,
\* what the server was asked to do goes on.
Reload ==
  /\ Fault
  /\ item' = [p \in Photo |-> Restored(rec[p])]
  /\ blobs' = {p \in Photo : rec[p] # NoItem}
  /\ confirmed' = {p \in Photo : Restored(rec[p]).st = "saved"}
  /\ idb' = [p \in Photo |-> <<>>]
  /\ enabled' = FALSE /\ view' = "none" /\ awake' = FALSE
  /\ prep' = {} /\ polls' = {} /\ save' = NoSave
  /\ posts' = HungUp
  /\ writes' = writes \cup {p \in Photo : save = [photo |-> p, step |-> "sent"] /\ Serving}
  /\ UNCHANGED <<doc, disk, acks, runs, victims, proc, gate>>
  /\ UNCHANGED <<rec, fresh, listed, taken, given>>

----------------------------------------------------------------------------
(* The composition.                                                        *)

PhoneRefs ==
  {item[p].job : p \in Photo} \cup {rec[p].job : p \in Photo}
    \cup {q.job : q \in polls}
    \cup UNION {{idb[p][k].ack : k \in DOMAIN idb[p]} : p \in Photo}
    \cup UNION {{idb[p][k].data.job : k \in DOMAIN idb[p]} : p \in Photo}
Unused == JobId \ (JobRefs \cup PhoneRefs)

\* Ids are never used twice; here the least one nobody remembers is taken.
FreshIds ==
  \A p \in Photo : doc'[p].id \notin {doc[p].id, NoJob} =>
    doc'[p].id \in Unused /\ \A i \in Unused : doc'[p].id <= i

Server == ServerStep /\ FreshIds /\ UNCHANGED phoneVars

\* A restart of the server breaks the save that waits for it.
ServerCrash ==
  /\ Crash
  /\ writes' = {}
  /\ save' = IF save.step \in {"sent", "landed"}
             THEN [save EXCEPT !.step = "broken"] ELSE save
  /\ UNCHANGED <<item, blobs, rec, idb, enabled, view, awake, prep, polls,
                 confirmed, fresh, listed, taken, given>>

Next ==
  \/ Server \/ ServerCrash
  \/ \E p \in Photo :
       \/ IdbStep(p) \/ Enqueue(p) \/ RetryItem(p) \/ RemoveItem(p)
       \/ Submit(p) \/ SubmitSends(p) \/ SubmitUnreadable(p)
       \/ PollAsks(p) \/ SaveStarts(p) \/ WriteLands(p) \/ WaitOver(p)
  \/ \E r \in posts : SubmitAnswered(r)
  \/ \E q \in polls : PollAnswered(q) \/ PollLost(q)
  \/ SaveServed \/ SaveBroken \/ SaveEnds
  \/ \E s \in Shelf : TimePasses(s)
  \/ PumpRests \/ Online \/ Refresh \/ RefreshFails \/ Reload

Spec == Init /\ [][Next]_vars

\* The server works through what it has; the phone's timers, transactions and
\* promises run; the platform gives readiness back; the TTL index drops a job
\* that no run works on any more.  Nothing is assumed of the staff, of failures
\* or of the sweep, nor, but for lookups, of the turn of one photo among those
\* that wait for the same thing.
ServerFairness ==
  /\ WF_vars(\E r \in posts : PostStep(r) /\ FreshIds /\ UNCHANGED phoneVars)
  /\ WF_vars(\E a \in acks : AckStep(a) /\ UNCHANGED phoneVars)
  /\ WF_vars(/\ (\E p \in Photo : Claim(p)) \/ (\E r \in runs : RunStep(r))
             /\ UNCHANGED phoneVars)
  /\ WF_vars((\E p \in Photo : Abandoned(p) /\ Expire(p)) /\ UNCHANGED phoneVars)
  /\ WF_vars((Restart \/ BootReclaims) /\ UNCHANGED phoneVars)
  /\ WF_vars(Reopen /\ UNCHANGED phoneVars)

PhoneFairness ==
  /\ WF_vars(\E p \in Photo : IdbStep(p))
  /\ WF_vars(\/ \E p \in Photo : Submit(p) \/ SubmitSends(p)
             \/ \E r \in posts : SubmitAnswered(r))
  /\ \A p \in Photo :
       WF_vars(PollAsks(p) \/ \E q \in polls : q.photo = p /\ PollAnswered(q))
  /\ WF_vars((\E p \in Photo : SaveStarts(p)) \/ SaveServed \/ SaveEnds)
  /\ WF_vars(\E p \in Photo : WaitOver(p))
  /\ WF_vars(Refresh \/ RefreshFails)

Fairness == ServerFairness /\ PhoneFairness
FairSpec == Spec /\ Fairness

----------------------------------------------------------------------------
(* A record leaves the device only when the staff removed it, or when       *)
(* products of its shelf are in the catalogue: PhotoLife, with the records  *)
(* as the photos that are kept.                                             *)
Life == INSTANCE PhotoLife WITH kept <- {p \in Photo : rec[p] # NoItem}
PhotoKept == Life!Spec

(* A photo is saved only on the word of the catalogue, whatever breaks,     *)
(* pauses or is interrupted: its products, or those of another photo of its *)
(* shelf, are there.                                                       *)
SavedIsBacked ==
  \A p \in Photo : item[p].st = "saved" => \E q \in listed : ShelfOf[q] = ShelfOf[p]

(* The queue comes to an end with every photo: it is saved, parked as       *)
(* failed for the staff, or removed.  Two things may keep a photo for ever: *)
(* a pause that began and ended between two reloads of the configuration    *)
(* (OpeningResumes), and a pump nobody calls.  The pump is called at the    *)
(* end of a submission, a save or a backoff, but neither where a poll fails *)
(* a photo for good nor where the staff removes one: with no other photo in *)
(* flight, those behind it wait for the next action of the staff.           *)
Settled(p) == item[p].st \in {"none", "failed", "saved"}
Stranded == ~enabled /\ view = "open" /\ gate = "open"
Overlooked(p) ==
  enabled /\ ~awake /\ Eligible(p, "queued") /\ With("detecting") = {}
PhotoSettles ==
  \A p \in Photo : Has(p) ~> (Settled(p) \/ []Stranded \/ []Overlooked(p))

(* "Opening upload never needs a reload" (StoreRuntimeProvider.tsx): in a   *)
(* store that stays open the queue is not paused for ever.                  *)
OpeningResumes == <>[](Serving /\ gate = "open") => []<>enabled

(* What verifyServerSideSave is asked: "Did the save land anyway?"  A photo *)
(* is saved only when its own products are in the catalogue.  It looks for *)
(* any product of the shelf instead, which the photo saved before may have *)
(* updated.                                                                *)
SavedIsListed == \A p \in Photo : item[p].st = "saved" => p \in listed
=============================================================================
