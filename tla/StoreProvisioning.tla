-------------------------- MODULE StoreProvisioning --------------------------
(***************************************************************************)
(* Store set-up, search activation and cleanup: the leased job every store *)
(* has in store_runtime (store-provisioning.ts and owner-store.ts) and the *)
(* worker that carries it out on the shared machine                        *)
(* (scripts/store-provisioning*.mjs).                                      *)
(*                                                                         *)
(* The worker and the platform only share HTTP calls: the worker acts on   *)
(* what it last heard of its lease, a call may be lost, or arrive after    *)
(* the worker gave up, and the worker may die at any point.  flock allows  *)
(* one worker process on the machine, so there is one `work'.              *)
(*                                                                         *)
(* Time is relative: `left' and `next' count the units until a lease ends  *)
(* or a retry is due, and Tick decreases them all.                         *)
(***************************************************************************)
EXTENDS Integers, FiniteSets

CONSTANTS
  Store,      \* store ids
  Token,      \* lease secrets; newSecret never repeats one that is in use
  NoToken,
  Lease,      \* a lease, in units of time (300 seconds)
  Margin,     \* what assertLease wants to be left of it (15 seconds)
  Capacity,   \* stores the machine may hold beside WhereBear
  MaxFaults,  \* bound: faults of the worker, its network and its timer
  MaxLate     \* bound: requests that arrive late, at once

ASSUME TokenAssumption == NoToken \notin Token
ASSUME NumberAssumption ==
  /\ Lease \in Nat \ {0}
  /\ Margin \in Nat
  /\ Capacity \in Nat
  /\ MaxFaults \in Nat
  /\ MaxLate \in Nat

VARIABLES
  job,        \* job[s]: the store_runtime row
  tenant,     \* tenant[s]: status of the store row
  standing,   \* standing[s]: what billing says of the owner
  vm,         \* vm[s]: the store's resources on the machine and in Atlas
  work,       \* the job the worker process is running, or Idle
  late,       \* requests of the worker still on their way
  faults      \* faults that happened

vars == <<job, tenant, standing, vm, work, late, faults>>

-----------------------------------------------------------------------------

Kind == {"provision", "activate", "archive"}

\* A store has one job of each kind in its life, so its kind is its job id.
Job ==
  [kind    : Kind,
   status  : {"none", "queued", "provisioning", "retry", "ready", "failed",
              "archived"},
   token   : Token \cup {NoToken},   \* leaseTokenHash
   left    : Nat,                    \* leaseExpiresAt - now
   next    : Nat,                    \* nextAttemptAt - now
   ready   : BOOLEAN,                \* readyAt # null
   creds   : BOOLEAN,                \* runtimeTokenHash and port registered
   cleanup : BOOLEAN]                \* cleanupRequestedAt # null

Machine ==
  [state    : BOOLEAN,                       \* the private state file
   archived : BOOLEAN,                       \* archivedAt in it
   db       : {"none", "live", "cleared"},
   index    : BOOLEAN,                       \* search indexes
   files    : {"none", "live", "archived"},  \* data directory and env file
   running  : BOOLEAN,                       \* systemd unit
   routed   : BOOLEAN]                       \* Caddy fragment

Idle == [kind |-> "idle"]

StepName ==
  {"load", "credentials", "database", "filesystem", "runtime", "routing",
   "search", "stop", "unroute", "clean", "archiveFiles", "complete"}

\* What runOnce keeps of the job it claimed: `left' is what the worker believes
\* is left of the lease, `lost' that a heartbeat failed, `busy' that the step
\* was begun.
Work ==
  [kind : Kind, store : Store, token : Token, left : Nat, lost : BOOLEAN,
   step : StepName, busy : BOOLEAN]

Request ==
  [op : {"credentials", "heartbeat", "complete", "fail"}, kind : Kind, store : Store,
   token : Token, retryable : BOOLEAN]

TypeOK ==
  /\ job \in [Store -> Job]
  /\ tenant \in [Store -> {"none", "open", "closing", "closed"}]
  /\ standing \in [Store -> {"paid", "suspended", "due"}]
  /\ vm \in [Store -> Machine]
  /\ work \in Work \cup {Idle}
  /\ late \subseteq Request
  /\ faults \in Nat

NoJob ==
  [kind |-> "provision", status |-> "none", token |-> NoToken, left |-> 0,
   next |-> 0, ready |-> FALSE, creds |-> FALSE, cleanup |-> FALSE]

NoMachine ==
  [state |-> FALSE, archived |-> FALSE, db |-> "none", index |-> FALSE,
   files |-> "none", running |-> FALSE, routed |-> FALSE]

Init ==
  /\ job = [s \in Store |-> NoJob]
  /\ tenant = [s \in Store |-> "none"]
  /\ standing = [s \in Store |-> "paid"]
  /\ vm = [s \in Store |-> NoMachine]
  /\ work = Idle
  /\ late = {}
  /\ faults = 0

Fault == faults < MaxFaults /\ faults' = faults + 1

-----------------------------------------------------------------------------
(* The platform: transactions on the job row *)

\* A fresh secret: one that no row, worker or request on its way carries.
FreshToken(k) ==
  /\ \A s \in Store : job[s].token # k
  /\ work # Idle => work.token # k
  /\ \A r \in late : r.token # k

\* Mutant: any lease on the row will do.
LeasedByAny(s, kind, k) == job[s].status = "provisioning" /\ job[s].left > 0

\* leasedJob: the row a worker's call may change.
Leased(s, kind, k) ==
  /\ job[s].kind = kind
  /\ job[s].status = "provisioning"
  /\ job[s].token = k
  /\ job[s].left > 0

\* Mutant: they do not look.
LeaseIgnored(s) == FALSE

\* Other operations see a lease as held as long as it has not expired.
LeaseHeld(s) == job[s].left > 0

\* createOwnerStore
CreateStore(s) ==
  /\ tenant[s] = "none"
  /\ standing[s] = "paid"
  /\ tenant' = [tenant EXCEPT ![s] = "open"]
  /\ job' = [job EXCEPT ![s].status = "queued"]
  /\ UNCHANGED <<standing, vm, work, late, faults>>

\* Mutant: a lease that ran out is never taken over.
ClaimableWaiting ==
  {s \in Store : job[s].status \in {"queued", "retry"} /\ job[s].next = 0}

Claimable ==
  {s \in Store :
     \/ job[s].status \in {"queued", "retry"} /\ job[s].next = 0
     \/ job[s].status = "provisioning" /\ job[s].left = 0}

\* An activation is paid for, open and not about to be cleaned up.
MayActivate(s) ==
  /\ job[s].ready
  /\ ~job[s].cleanup
  /\ tenant[s] \notin {"closing", "closed"}
  /\ standing[s] = "paid"

Unpayable == {s \in Claimable : job[s].kind = "activate" /\ ~MayActivate(s)}

NoLease(row, status) ==
  [row EXCEPT !.status = status, !.token = NoToken, !.left = 0]

\* claimStoreJob: activations it may not run are failed on the way (refused) to
\* the job it leases.
ClaimRow(s, refused, k) ==
  [x \in Store |->
     CASE x = s -> [job[x] EXCEPT !.status = "provisioning", !.token = k,
                                  !.left = Lease]
       [] x \in refused -> NoLease(job[x], "failed")
       [] OTHER -> job[x]]

Lend(s, refused, k) ==
  /\ s \in Claimable \ Unpayable
  /\ refused \subseteq Unpayable
  /\ FreshToken(k)
  /\ job' = ClaimRow(s, refused, k)

Claim(s, refused, k) ==
  /\ work = Idle
  /\ Lend(s, refused, k)
  /\ work' = [kind |-> job[s].kind, store |-> s, token |-> k, left |-> Lease,
              lost |-> FALSE, step |-> "load", busy |-> FALSE]
  /\ UNCHANGED <<tenant, standing, vm, late, faults>>

\* The answer of a claim never arrives; the worker may be at work again by the
\* time the platform sees the call.
ClaimLost(s, refused, k) ==
  /\ Fault
  /\ Lend(s, refused, k)
  /\ UNCHANGED <<tenant, standing, vm, work, late>>

\* Every job waiting is an activation it may not run.
ClaimNothing ==
  /\ work = Idle
  /\ Claimable = Unpayable /\ Unpayable # {}
  /\ job' = [x \in Store |-> IF x \in Unpayable THEN NoLease(job[x], "failed")
                                                ELSE job[x]]
  /\ UNCHANGED <<tenant, standing, vm, work, late, faults>>

\* finishStoreJob: provisioning and activation need the registered identity ...
MayFinish(s, kind) ==
  /\ kind # "archive" => job[s].creds
  /\ kind = "activate" => job[s].ready

\* Mutant: the job gets the status of the store.
FinishJobClosed(s, kind) ==
  IF kind = "archive"
    THEN /\ job' = [job EXCEPT ![s] = [NoLease(@, "closed") EXCEPT !.creds = FALSE]]
         /\ tenant' = [tenant EXCEPT ![s] = "closed"]
    ELSE /\ job' = [job EXCEPT ![s] = [NoLease(@, "ready") EXCEPT !.ready = TRUE]]
         /\ UNCHANGED tenant

\* ... and an archive closes the store with its job.
FinishJob(s, kind) ==
  IF kind = "archive"
    THEN /\ job' = [job EXCEPT ![s] = [NoLease(@, "archived") EXCEPT !.creds = FALSE]]
         /\ tenant' = [tenant EXCEPT ![s] = "closed"]
    ELSE /\ job' = [job EXCEPT ![s] = [NoLease(@, "ready") EXCEPT !.ready = TRUE]]
         /\ UNCHANGED tenant

\* registerRuntimeCredentials
Register(rows, s) == [rows EXCEPT ![s].creds = TRUE]

\* failStoreJob
FailJob(rows, s, retryable) ==
  [rows EXCEPT ![s] =
     [NoLease(@, IF retryable THEN "retry" ELSE "failed") EXCEPT !.next = 1]]

\* activateStoreSearch, by an administrator
ActivateStoreSearch(s) ==
  /\ MayActivate(s)
  /\ job[s].creds
  /\ job[s].kind = "provision" /\ job[s].status = "ready"
  /\ ~LeaseHeld(s)
  /\ job' = [job EXCEPT ![s] = [NoLease(@, "queued") EXCEPT !.kind = "activate",
                                                           !.next = 0]]
  /\ UNCHANGED <<tenant, standing, vm, work, late, faults>>

\* requestStoreCleanup, by an administrator.  No unsettled checkout: see
\* StoreBilling, where a store in cleanup cannot be paid for either.
RequestStoreCleanup(s) ==
  /\ tenant[s] # "none"
  /\ standing[s] = "due"
  /\ job[s].ready
  /\ job[s].kind # "archive"
  /\ ~job[s].cleanup
  /\ ~LeaseHeld(s)
  /\ job' = [job EXCEPT ![s] = [NoLease(@, "queued") EXCEPT !.kind = "archive",
                                  !.next = 0, !.cleanup = TRUE]]
  /\ tenant' = [tenant EXCEPT ![s] = "closing"]
  /\ UNCHANGED <<standing, vm, work, late, faults>>

\* retryStoreProvisioning, by an administrator
RetryStoreProvisioning(s) ==
  /\ job[s].status = "failed"
  /\ ~LeaseHeld(s)
  /\ job[s].kind = "activate" => MayActivate(s)
  /\ job' = [job EXCEPT ![s] = [NoLease(@, "queued") EXCEPT !.next = 0]]
  /\ UNCHANGED <<tenant, standing, vm, work, late, faults>>

\* Billing, as StoreContract has it: an owner is suspended, the retention time
\* runs out, or the owner pays again, perhaps for a period that is over by then.
ChangeStanding(s) ==
  /\ \/ standing[s] = "paid" /\ standing' = [standing EXCEPT ![s] = "suspended"]
     \/ standing[s] = "suspended" /\ standing' = [standing EXCEPT ![s] = "due"]
     \/ /\ standing[s] # "paid" /\ tenant[s] \notin {"closing", "closed"}
        /\ \E now \in {"paid", "suspended"} : standing' = [standing EXCEPT ![s] = now]
  /\ UNCHANGED <<job, tenant, vm, work, late, faults>>

-----------------------------------------------------------------------------
(* The worker: runOnce and the stages of provision, activate and archive.    *)
(* The health, identity and map checks only read: they are among the reasons *)
(* a step may fail.                                                          *)

FirstStep == [provision |-> "credentials", activate |-> "search", archive |-> "stop"]

\* Mutant: archive forgets to move the files away.
FollowingStepShort ==
  [credentials |-> "database", database |-> "filesystem",
   filesystem |-> "runtime", runtime |-> "routing", routing |-> "complete",
   search |-> "complete",
   stop |-> "unroute", unroute |-> "clean", clean |-> "complete",
   archiveFiles |-> "complete"]

FollowingStep ==
  [credentials |-> "database", database |-> "filesystem",
   filesystem |-> "runtime", runtime |-> "routing", routing |-> "complete",
   search |-> "complete",
   stop |-> "unroute", unroute |-> "clean", clean |-> "archiveFiles",
   archiveFiles |-> "complete"]

StepAfter(kind, step) ==
  IF step = "load" THEN FirstStep[kind] ELSE FollowingStep[step]

\* Mutant: an archived store is not marked as archived in its state file.
EffectUnmarked(step, m) ==
  CASE step = "load"         -> [m EXCEPT !.state = TRUE]
    [] step = "database"     -> [m EXCEPT !.db = "live"]
    [] step = "filesystem"   -> [m EXCEPT !.files = "live"]
    [] step = "runtime"      -> [m EXCEPT !.running = TRUE]
    [] step = "routing"      -> [m EXCEPT !.routed = TRUE]
    [] step = "search"       -> [m EXCEPT !.index = TRUE]
    [] step = "stop"         -> [m EXCEPT !.running = FALSE]
    [] step = "unroute"      -> [m EXCEPT !.routed = FALSE]
    [] step = "clean"        -> [m EXCEPT !.db = "cleared", !.index = FALSE]
    [] step = "archiveFiles" -> [m EXCEPT !.files = "archived"]
    [] OTHER                 -> m

\* What a step leaves on the machine.  Each reconciles: it may be repeated.
Effect(step, m) ==
  CASE step = "load"         -> [m EXCEPT !.state = TRUE]
    [] step = "database"     -> [m EXCEPT !.db = "live"]
    [] step = "filesystem"   -> [m EXCEPT !.files = "live"]
    [] step = "runtime"      -> [m EXCEPT !.running = TRUE]
    [] step = "routing"      -> [m EXCEPT !.routed = TRUE]
    [] step = "search"       -> [m EXCEPT !.index = TRUE]
    [] step = "stop"         -> [m EXCEPT !.running = FALSE]
    [] step = "unroute"      -> [m EXCEPT !.routed = FALSE]
    [] step = "clean"        -> [m EXCEPT !.db = "cleared", !.index = FALSE]
    [] step = "archiveFiles" -> [m EXCEPT !.files = "archived", !.archived = TRUE]
    [] OTHER                 -> m

\* assertLease
LeaseAsserted == ~work.lost /\ work.left > Margin

\* archive re-checks the lease before `stop', `clean' and `complete' only.
NeedsLease(step) == step \notin {"unroute", "archiveFiles"}

\* The longer steps re-check it as they go.
ChecksLease(step) ==
  step \in {"database", "runtime", "routing", "search", "clean"}

\* loadOrCreateState, and the refusals provision and activate start with
States == {s \in Store : vm[s].state /\ ~vm[s].archived}

MayLoad(s, kind) ==
  /\ ~vm[s].state => kind = "provision" /\ Cardinality(States) < Capacity
  /\ vm[s].archived => kind = "archive"
  /\ vm[s].db = "cleared" => kind # "activate"

\* The stages whose own checks may refuse to go on
MayDo(s, kind, step) ==
  CASE step = "load"        -> MayLoad(s, kind)
    [] step = "credentials" -> Leased(s, kind, work.token)
    [] step = "search"      -> vm[s].running /\ vm[s].db = "live"
    [] step = "complete"    -> Leased(s, kind, work.token) /\ MayFinish(s, kind)
    [] OTHER                -> TRUE

\* What a step may leave on the machine when it is cut short.
Partial(s, step) ==
  LET m == vm[s] IN
  {m} \cup
  (IF ~MayDo(s, work.kind, step) THEN {}
   ELSE {Effect(step, m)} \cup
        (IF step = "archiveFiles" THEN {[m EXCEPT !.files = "archived"]} ELSE {}))

RequestOf(op, retryable) ==
  [op |-> op, kind |-> work.kind, store |-> work.store, token |-> work.token,
   retryable |-> retryable]

Delayed(r) == Cardinality(late \cup {r}) <= MaxLate

\* The catch block of runOnce, after n faults and with the rows as the failed
\* step left them: unless it thinks its lease gone the worker reports the
\* failure, in a call that arrives at once, never, or later.
GiveUp(rows, retryable, n) ==
  /\ work' = Idle
  /\ faults + n <= MaxFaults
  /\ \/ /\ faults' = faults + n
        /\ job' = IF /\ ~work.lost /\ work.left > 0
                     /\ Leased(work.store, work.kind, work.token)
                    THEN FailJob(rows, work.store, retryable)
                    ELSE rows
        /\ UNCHANGED late
     \/ /\ ~work.lost /\ work.left > 0
        /\ faults + n < MaxFaults /\ faults' = faults + n + 1
        /\ \/ UNCHANGED late
           \/ /\ Delayed(RequestOf("fail", retryable))
              /\ late' = late \cup {RequestOf("fail", retryable)}
        /\ job' = rows

BeginStep ==
  /\ work # Idle /\ ~work.busy
  /\ NeedsLease(work.step) => LeaseAsserted
  /\ work' = [work EXCEPT !.busy = TRUE]
  /\ UNCHANGED <<job, tenant, standing, vm, late, faults>>

\* assertLease throws LEASE_LOST.
StopWithoutLease ==
  /\ work # Idle /\ ~work.busy
  /\ NeedsLease(work.step) /\ ~LeaseAsserted
  /\ GiveUp(job, TRUE, 0)
  /\ UNCHANGED <<tenant, standing, vm>>

FinishStep ==
  /\ work # Idle /\ work.busy
  /\ work.step # "complete"
  /\ MayDo(work.store, work.kind, work.step)
  /\ vm' = [vm EXCEPT ![work.store] = Effect(work.step, @)]
  /\ job' = IF work.step = "credentials"      \* registerRuntimeCredentials
              THEN Register(job, work.store)
              ELSE job
  /\ work' = [work EXCEPT !.step = StepAfter(work.kind, work.step),
                          !.busy = FALSE]
  /\ UNCHANGED <<tenant, standing, late, faults>>

\* The step's own checks, or the platform, refuse.
StepRefused ==
  /\ work # Idle /\ work.busy
  /\ ~MayDo(work.store, work.kind, work.step)
  /\ GiveUp(job, work.step # "load", 0)
  /\ UNCHANGED <<tenant, standing, vm>>

CutShort ==
  \E m \in Partial(work.store, work.step) : vm' = [vm EXCEPT ![work.store] = m]

\* The step finds its lease gone on the way.
StepLosesLease ==
  /\ work # Idle /\ work.busy
  /\ ChecksLease(work.step) /\ ~LeaseAsserted
  /\ CutShort
  /\ GiveUp(job, TRUE, 0)
  /\ UNCHANGED <<tenant, standing>>

\* A command, Atlas or the network fails: the step is cut short.  The answer to
\* registerRuntimeCredentials may be what is lost.
StepFails(retryable) ==
  /\ work # Idle /\ work.busy
  /\ CutShort
  /\ \/ GiveUp(job, retryable, 1)
     \/ /\ work.step = "credentials"
        /\ MayDo(work.store, work.kind, work.step)
        /\ GiveUp(Register(job, work.store), retryable, 1)
  /\ UNCHANGED <<tenant, standing>>

\* The acknowledgement arrives; its answer may not, and then the failure the
\* worker reports is refused.
Complete ==
  /\ work # Idle /\ work.busy /\ work.step = "complete"
  /\ MayDo(work.store, work.kind, "complete")
  /\ FinishJob(work.store, work.kind)
  /\ work' = Idle
  /\ UNCHANGED <<standing, vm, late, faults>>

\* A call that changes the row is delayed: the worker sees an error, and its
\* report may be first.
CallDelayed ==
  /\ work # Idle /\ work.busy
  /\ work.step \in {"credentials", "complete"}
  /\ Delayed(RequestOf(work.step, FALSE))
  /\ late' = late \cup {RequestOf(work.step, FALSE)}
  /\ Fault
  /\ work' = Idle
  /\ \/ /\ ~work.lost /\ work.left > 0
        /\ Leased(work.store, work.kind, work.token)
        /\ job' = FailJob(job, work.store, TRUE)
     \/ UNCHANGED job
  /\ UNCHANGED <<tenant, standing, vm>>

\* The process or the machine dies.
Crash ==
  /\ work # Idle
  /\ Fault
  /\ IF work.busy THEN CutShort ELSE UNCHANGED vm
  /\ work' = Idle
  /\ UNCHANGED <<job, tenant, standing, late>>

\* The timer's call of renewStoreLease.
Heartbeat ==
  /\ work # Idle
  /\ Leased(work.store, work.kind, work.token)
  /\ job' = [job EXCEPT ![work.store].left = Lease]
  /\ work' = [work EXCEPT !.left = Lease]
  /\ UNCHANGED <<tenant, standing, vm, late, faults>>

\* One failure is final for this run, though the timer goes on renewing.
HeartbeatRefused ==
  /\ work # Idle
  /\ ~Leased(work.store, work.kind, work.token)
  /\ work' = [work EXCEPT !.lost = TRUE]
  /\ UNCHANGED <<job, tenant, standing, vm, late, faults>>

\* The answer is lost, or the call is, or it is delayed.
HeartbeatLost ==
  /\ work # Idle
  /\ Fault
  /\ work' = [work EXCEPT !.lost = TRUE]
  /\ \/ /\ Leased(work.store, work.kind, work.token)
        /\ job' = [job EXCEPT ![work.store].left = Lease]
        /\ UNCHANGED late
     \/ UNCHANGED <<job, late>>
     \/ /\ Delayed(RequestOf("heartbeat", FALSE))
        /\ late' = late \cup {RequestOf("heartbeat", FALSE)}
        /\ UNCHANGED job
  /\ UNCHANGED <<tenant, standing, vm>>

\* A late call is refused unless the lease it names is still current.
Arrive(r) ==
  /\ late' = late \ {r}
  /\ IF ~Leased(r.store, r.kind, r.token) THEN UNCHANGED <<job, tenant>>
     ELSE \/ /\ r.op = "heartbeat"
             /\ job' = [job EXCEPT ![r.store].left = Lease]
             /\ UNCHANGED tenant
          \/ /\ r.op = "complete"
             /\ IF MayFinish(r.store, r.kind) THEN FinishJob(r.store, r.kind)
                                              ELSE UNCHANGED <<job, tenant>>
          \/ /\ r.op \in {"credentials", "fail"}
             /\ job' = IF r.op = "fail" THEN FailJob(job, r.store, r.retryable)
                                        ELSE Register(job, r.store)
             /\ UNCHANGED tenant
  /\ UNCHANGED <<standing, vm, work, faults>>

Less(n) == IF n = 0 THEN 0 ELSE n - 1

TimePasses ==
  /\ job' = [s \in Store |-> [job[s] EXCEPT !.left = Less(@), !.next = Less(@)]]
  /\ work' = IF work = Idle THEN Idle ELSE [work EXCEPT !.left = Less(@)]
  /\ UNCHANGED <<tenant, standing, vm, late>>

\* A unit of time.  The timer renews ten times in a lease: a unit in which a
\* sound worker did not is a fault.
Renewed == work # Idle => work.lost \/ work.left = Lease

Tick == Renewed /\ TimePasses /\ UNCHANGED faults

TickUnrenewed == ~Renewed /\ Fault /\ TimePasses

ClaimOf(s) == \E refused \in SUBSET Unpayable, k \in Token : Claim(s, refused, k)

ClaimLostOf(s) ==
  \E refused \in SUBSET Unpayable, k \in Token : ClaimLost(s, refused, k)

Next ==
  \/ \E s \in Store :
       \/ CreateStore(s) \/ ClaimOf(s) \/ ClaimLostOf(s)
       \/ ActivateStoreSearch(s) \/ RequestStoreCleanup(s)
       \/ RetryStoreProvisioning(s) \/ ChangeStanding(s)
  \/ ClaimNothing
  \/ BeginStep \/ StopWithoutLease \/ FinishStep \/ StepRefused
  \/ StepLosesLease
  \/ \E retryable \in BOOLEAN : StepFails(retryable)
  \/ Complete \/ CallDelayed \/ Crash
  \/ Heartbeat \/ HeartbeatRefused \/ HeartbeatLost
  \/ \E r \in late : Arrive(r)
  \/ Tick \/ TickUnrenewed

Spec == Init /\ [][Next]_vars

\* Claims go through the queue in the order jobs were due: the turn of s comes,
\* to be leased or to be refused on the way to the job that is.
Turn(s) ==
  \E x \in Store, refused \in SUBSET Unpayable, k \in Token :
    s \in {x} \cup refused /\ Claim(x, refused, k)

\* systemd restarts the worker, which asks for a job every fifteen seconds; a
\* claim takes the job that waits longest.
Fairness ==
  /\ WF_vars(BeginStep) /\ WF_vars(StopWithoutLease) /\ WF_vars(FinishStep)
  /\ WF_vars(StepRefused) /\ WF_vars(Complete)
  /\ WF_vars(Heartbeat) /\ WF_vars(HeartbeatRefused)
  /\ WF_vars(Tick) /\ WF_vars(ClaimNothing)
  /\ \A s \in Store : SF_vars(Turn(s))

FairSpec == Spec /\ Fairness

-----------------------------------------------------------------------------
(* Properties *)

\* A worker that still believes in its lease has it: the row names its job and
\* its token, and lasts at least as long as the worker thinks.  What assertLease
\* concludes from its own clock and its last heartbeat is true, whatever calls
\* were lost or late and whatever an administrator asked for meanwhile.
LeaseBelief ==
  (work # Idle /\ ~work.lost /\ work.left > 0) =>
       /\ Leased(work.store, work.kind, work.token)
       /\ work.left <= job[work.store].left

Serving(m) == m.running /\ m.routed /\ m.db = "live" /\ m.files = "live"

Cleaned(m) ==
  /\ ~m.running /\ ~m.routed /\ ~m.index
  /\ m.db = "cleared" /\ m.files = "archived" /\ m.archived

\* A store whose job is ready really serves, with its search indexes when the
\* job was the activation: "Confirm failure never marks a paid customer as ready"
\* (AUTOMATED-STORES.md).
ReadyIsServing ==
  \A s \in Store :
    job[s].status = "ready" =>
      /\ Serving(vm[s]) /\ job[s].creds
      /\ job[s].kind = "activate" => vm[s].index

\* A closed store is entirely cleaned, and stays so: no run of an earlier job,
\* no late acknowledgement and no crash between two steps of archive leaves a
\* closed store with data, a route or a process.
ClosedIsClean ==
  \A s \in Store :
    tenant[s] = "closed" => Cleaned(vm[s]) /\ job[s].status = "archived"

\* Nothing of a store that was ready is stopped, dropped or moved away unless an
\* administrator confirmed the cleanup of that store.
CleanupConfirmed ==
  \A s \in Store :
    (job[s].ready /\ ~Serving(vm[s])) =>
      job[s].cleanup /\ job[s].kind = "archive" /\ tenant[s] \in {"closing", "closed"}

\* The platform counts the stores that are not closed, the machine the state
\* files without archivedAt.  The two counts are kept by different programs, but
\* agree where it matters: unless the platform admitted more stores than the
\* machine was reviewed for, no store it admitted finds the machine full, neither
\* by the files of closed stores nor by those of runs that gave up.
Admitted == {s \in Store : tenant[s] \in {"open", "closing"}}

AdmittedFits ==
  Cardinality(Admitted) <= Capacity =>
    \A s \in Admitted : vm[s].state \/ Cardinality(States) < Capacity

\* Cleanup is final: once confirmed, the job of the store stays an archive job,
\* and nothing starts, routes or fills the store again.
CleanupFinal ==
  [][\A s \in Store :
       job[s].cleanup =>
         /\ job'[s].cleanup /\ job'[s].kind = "archive"
         /\ tenant'[s] # "open"
         /\ vm'[s].running => vm[s].running
         /\ vm'[s].routed => vm[s].routed
         /\ vm[s].db = "cleared" => vm'[s].db = "cleared"
         /\ vm[s].files = "archived" => vm'[s].files = "archived"]_vars

\* What the machine and Atlas have of a store.
PartsOf(m) ==
  {p \in {"database", "files", "process", "route", "index"} :
     \/ p = "database" /\ m.db = "live"
     \/ p = "files" /\ m.files = "live"
     \/ p = "process" /\ m.running
     \/ p = "route" /\ m.routed
     \/ p = "index" /\ m.index}

Life == INSTANCE StoreLife WITH
          delivered <- {s \in Store : job[s].ready},
          parts     <- [s \in Store |-> PartsOf(vm[s])]

\* The leased jobs, whatever is lost, late or done twice, keep what StoreLife
\* promises of a store: it is delivered when all of it is there, keeps all of it
\* until its cleanup was requested, and is closed when nothing is left.
LifeKept == Life!Spec

\* Every job that waits or runs is decided in the end, whatever the worker lost:
\* the lease of a dead run expires, and a retry is due after its pause.
Undecided(s) == job[s].status \in {"queued", "retry", "provisioning"}

JobDecided == \A s \in Store : Undecided(s) ~> ~Undecided(s)
=============================================================================
