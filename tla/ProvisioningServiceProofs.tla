---------------------- MODULE ProvisioningServiceProofs ----------------------
(***************************************************************************)
(* A store that is ready serves, and only a confirmed cleanup ends that.   *)
(*                                                                         *)
(* The argument: while a store is being set up or taken down nobody else   *)
(* touches its machine, because the run of a job is replaced only by a     *)
(* claim, and a claim changes the token of the row.  So what a run has     *)
(* done so far is still done when its acknowledgement is taken, however    *)
(* late, if the token of the row is still its own.                         *)
(***************************************************************************)
EXTENDS StoreProvisioningProofs

\* What is set up when a provisioning is at a step.
SetUpSoFar(step, m) ==
  /\ step \in {"filesystem", "runtime", "routing", "complete"} => m.db = "live"
  /\ step \in {"runtime", "routing", "complete"} => m.files = "live"
  /\ step \in {"routing", "complete"} => m.running
  /\ step = "complete" => m.routed

\* A provisioning runs only while its store was never ready, ...
ProvisionProgress ==
  (work # Idle /\ work.kind = "provision") =>
    /\ job[work.store].kind = "provision" /\ ~job[work.store].ready
    /\ SetUpSoFar(work.step, vm[work.store])

\* ... which its row shows.
ProvisionedOnce ==
  \A s \in Store :
    job[s].kind = "provision" /\ job[s].ready => job[s].status = "ready"

ActivateProgress ==
  (work # Idle /\ work.kind = "activate" /\ work.step = "complete") =>
    vm[work.store].index

\* An acknowledgement whose token is still the row's is of a run that is over,
\* and the next has not begun.
LateIsAlone ==
  work # Idle =>
    \A r \in late :
      r.op = "complete" /\ r.store = work.store => r.token # job[r.store].token

LateIsServing ==
  \A r \in late :
    r.op = "complete" /\ r.token = job[r.store].token =>
      /\ r.kind = "provision" => Serving(vm[r.store])
      /\ r.kind = "activate" => vm[r.store].index

ReadyServes ==
  \A s \in Store :
    job[s].ready /\ job[s].kind # "archive" => Serving(vm[s]) /\ job[s].creds

ReadyStatus ==
  \A s \in Store :
    job[s].status = "ready" =>
      /\ job[s].ready /\ job[s].kind # "archive"
      /\ job[s].kind = "activate" => vm[s].index

ArchiveIsConfirmed ==
  \A s \in Store :
    /\ job[s].kind = "archive" <=> job[s].cleanup
    /\ job[s].cleanup => tenant[s] \in {"closing", "closed"}

ServiceInv ==
  /\ ProvisionProgress /\ ActivateProgress
  /\ ProvisionedOnce
  /\ LateIsAlone /\ LateIsServing
  /\ ReadyServes /\ ReadyStatus
  /\ ArchiveIsConfirmed

-----------------------------------------------------------------------------
(* What the steps of a set-up do to a machine *)

LEMMA SetUpAdvances ==
  ASSUME NEW step \in StepsOf("provision"), step # "complete", NEW m \in Machine,
         SetUpSoFar(step, m)
  PROVE  SetUpSoFar(StepAfter("provision", step), Effect(step, m))
<1>a. CASE step = "load"
  BY <1>a DEF StepAfter, FirstStep, SetUpSoFar
<1>b. CASE step = "credentials"
  BY <1>b DEF StepAfter, FollowingStep, SetUpSoFar
<1>c. CASE step = "database"
  BY <1>c DEF StepAfter, FollowingStep, Effect, Machine, SetUpSoFar
<1>d. CASE step = "filesystem"
  BY <1>d DEF StepAfter, FollowingStep, Effect, Machine, SetUpSoFar
<1>e. CASE step = "runtime"
  BY <1>e DEF StepAfter, FollowingStep, Effect, Machine, SetUpSoFar
<1>f. CASE step = "routing"
  BY <1>f DEF StepAfter, FollowingStep, Effect, Machine, SetUpSoFar
<1> QED
  BY <1>a, <1>b, <1>c, <1>d, <1>e, <1>f DEF StepsOf

\* Setting up and turning the search on take nothing away, and turning it on and
\* taking down start nothing.
Gains(m, n) ==
  /\ Serving(m) => Serving(n)
  /\ m.index => n.index

Starts(m, n) ==
  \/ n.running /\ ~m.running
  \/ n.routed /\ ~m.routed
  \/ m.db = "cleared" /\ n.db # "cleared"
  \/ m.files = "archived" /\ n.files # "archived"

LEMMA EffectGains ==
  ASSUME NEW m \in Machine, NEW kind \in {"provision", "activate"},
         NEW step \in StepsOf(kind)
  PROVE  Gains(m, Effect(step, m))
<1>a. CASE step \in {"load", "credentials", "database", "filesystem"}
  BY <1>a DEF Effect, Gains, Serving, Machine
<1>b. CASE step \in {"runtime", "routing", "complete", "search"}
  BY <1>b DEF Effect, Gains, Serving, Machine
<1> QED
  BY <1>a, <1>b DEF StepsOf

LEMMA EffectStarts ==
  ASSUME NEW m \in Machine, NEW kind \in {"activate", "archive"},
         NEW step \in StepsOf(kind)
  PROVE  ~Starts(m, Effect(step, m))
<1>a. CASE step \in {"load", "complete", "search", "stop"}
  BY <1>a DEF Effect, Starts, Machine
<1>b. CASE step \in {"unroute", "clean", "archiveFiles"}
  BY <1>b DEF Effect, Starts, Machine
<1> QED
  BY <1>a, <1>b DEF StepsOf

\* A step of the worker touches the machine of its own store, by the effect of
\* the step or a part of it.
LEMMA WorkerTouches ==
  ASSUME TypeOK, OwnSteps, WorkerStep
  PROVE  /\ work \in Work /\ work # Idle
         /\ \A s \in Store : s # work.store => vm'[s] = vm[s]
         /\ work.kind # "archive" =>
              vm'[work.store] \in {vm[work.store], Effect(work.step, vm[work.store])}
         /\ work.kind # "provision" => ~Starts(vm[work.store], vm'[work.store])
<1>1. /\ work \in Work /\ work # Idle /\ work.store \in Store
      /\ work.kind \in Kind /\ work.step \in StepsOf(work.kind)
      /\ vm \in [Store -> Machine] /\ vm[work.store] \in Machine
  BY DEF WorkerStep, BeginStep, StopWithoutLease, FinishStep,
     StepRefused, StepLosesLease, StepFails, CallDelayed, Crash, Heartbeat,
     HeartbeatRefused, HeartbeatLost, TypeOK, Work, OwnSteps
<1>2. ~Starts(vm[work.store], vm[work.store])
  BY DEF Starts
<1>3. work.kind # "provision" =>
        ~Starts(vm[work.store], Effect(work.step, vm[work.store]))
  BY <1>1, EffectStarts DEF Kind
<1>4. CASE UNCHANGED vm
  BY <1>1, <1>2, <1>4
<1>5. CASE FinishStep
  BY <1>1, <1>3, <1>5 DEF FinishStep
<1>6. CASE CutShort
  <2>1. PICK m \in Partial(work.store, work.step) :
          vm' = [vm EXCEPT ![work.store] = m]
    BY <1>6 DEF CutShort
  <2>2. \/ m = vm[work.store]
        \/ m = Effect(work.step, vm[work.store])
        \/ work.step = "archiveFiles" /\ m = [vm[work.store] EXCEPT !.files = "archived"]
    BY <2>1 DEF Partial
  <2>3. work.step = "archiveFiles" => work.kind = "archive"
    BY <1>1 DEF StepsOf, Kind
  <2>4. ~Starts(vm[work.store], [vm[work.store] EXCEPT !.files = "archived"])
    BY <1>1 DEF Starts, Machine
  <2> QED
    BY <1>1, <1>2, <1>3, <2>1, <2>2, <2>3, <2>4
<1> QED
  BY <1>4, <1>5, <1>6 DEF WorkerStep, BeginStep, StopWithoutLease, StepRefused,
     StepLosesLease, StepFails, CallDelayed, Crash, Heartbeat, HeartbeatRefused,
     HeartbeatLost

-----------------------------------------------------------------------------
(* What a step does to a row: nothing the service depends on, or a request of *)
(* an administrator, or the acknowledgement of a cleanup or of a set-up.      *)

RegisteredStays(x) == job[x].creds => job'[x].creds

LEMMA FailedRegistered ==
  ASSUME NEW rows \in [Store -> Job], NEW s \in Store, NEW retryable \in BOOLEAN,
         NEW x \in Store
  PROVE  FailJob(rows, s, retryable)[x].creds = rows[x].creds
<1>1. rows[x] \in Job
  OBVIOUS
<1>2. CASE x = s
  <2>1. FailJob(rows, s, retryable)[x]
          = [NoLease(rows[x], IF retryable THEN "retry" ELSE "failed") EXCEPT !.next = 1]
    BY <1>2 DEF FailJob
  <2> QED
    BY <1>1, <2>1 DEF NoLease, Job
<1>3. CASE x # s
  BY <1>3 DEF FailJob
<1> QED
  BY <1>2, <1>3

LEMMA RegisterRegistered ==
  ASSUME TypeOK, NEW s \in Store, NEW x \in Store, job[x].creds
  PROVE  Register(job, s)[x].creds
<1>1. job \in [Store -> Job] /\ job[x] \in Job
  BY DEF TypeOK
<1> QED
  BY <1>1 DEF Register, Job

LEMMA GiveUpRegistered ==
  ASSUME TypeOK, work # Idle, NEW rows, NEW retryable \in BOOLEAN, NEW n,
         rows = job \/ rows = Register(job, work.store),
         GiveUp(rows, retryable, n), NEW x \in Store
  PROVE  RegisteredStays(x)
<1>1. /\ work.store \in Store /\ job \in [Store -> Job]
      /\ Register(job, work.store) \in [Store -> Job]
  BY RegisterType DEF TypeOK, Work
<1>2. job[x].creds => rows[x].creds
  BY <1>1, RegisterRegistered
<1>3. FailJob(rows, work.store, retryable)[x].creds = rows[x].creds
  BY <1>1, FailedRegistered
<1>4. job' = rows \/ job' = FailJob(rows, work.store, retryable)
  BY DEF GiveUp
<1> QED
  BY <1>2, <1>3, <1>4 DEF RegisteredStays

LEMMA WorkerRegistered ==
  ASSUME TypeOK, WorkerStep, NEW x \in Store
  PROVE  RegisteredStays(x)
<1>1. /\ work # Idle /\ job \in [Store -> Job] /\ job[x] \in Job
      /\ work.store \in Store
  BY DEF WorkerStep, BeginStep, StopWithoutLease, FinishStep, StepRefused,
     StepLosesLease, StepFails, CallDelayed, Crash, Heartbeat, HeartbeatRefused,
     HeartbeatLost, TypeOK, Work
<1>2. (work.step # "load") \in BOOLEAN /\ TRUE \in BOOLEAN
  OBVIOUS
<1>a. CASE UNCHANGED job
  BY <1>a DEF RegisteredStays
<1>b. CASE StopWithoutLease \/ StepLosesLease
  BY <1>b, <1>1, GiveUpRegistered DEF StopWithoutLease, StepLosesLease
<1>c. CASE FinishStep
  BY <1>c, <1>1, RegisterRegistered DEF FinishStep, RegisteredStays
<1>d. CASE StepRefused
  BY <1>d, <1>1, <1>2, GiveUpRegistered DEF StepRefused
<1>e. CASE \E retryable \in BOOLEAN : StepFails(retryable)
  BY <1>e, <1>1, GiveUpRegistered DEF StepFails
<1>f. CASE CallDelayed
  BY <1>f, <1>1, <1>2, FailedRegistered DEF CallDelayed, RegisteredStays
<1>g. CASE job' = [job EXCEPT ![work.store].left = Lease]
  BY <1>g, <1>1 DEF RegisteredStays, Job
<1> QED
  BY <1>a, <1>b, <1>c, <1>d, <1>e, <1>f, <1>g
     DEF WorkerStep, BeginStep, Crash, Heartbeat, HeartbeatRefused, HeartbeatLost

LEMMA PlatformRegistered ==
  ASSUME TypeOK, NEW s \in Store,
         \/ CreateStore(s) \/ ActivateStoreSearch(s) \/ RequestStoreCleanup(s)
         \/ RetryStoreProvisioning(s) \/ ChangeStanding(s),
         NEW x \in Store
  PROVE  RegisteredStays(x)
<1>1. job \in [Store -> Job] /\ job[x] \in Job
  BY DEF TypeOK
<1>2. NoLease(job[x], "queued") \in Job /\ NoLease(job[x], "queued").creds = job[x].creds
  BY <1>1, TokenAssumption DEF NoLease, Job
<1>a. CASE CreateStore(s)
  BY <1>1, <1>a DEF CreateStore, RegisteredStays, Job
<1>b. CASE ActivateStoreSearch(s)
  BY <1>1, <1>2, <1>b DEF ActivateStoreSearch, RegisteredStays, Job
<1>c. CASE RequestStoreCleanup(s)
  BY <1>1, <1>2, <1>c DEF RequestStoreCleanup, RegisteredStays, Job
<1>d. CASE RetryStoreProvisioning(s)
  BY <1>1, <1>2, <1>d DEF RetryStoreProvisioning, RegisteredStays, Job
<1>e. CASE ChangeStanding(s)
  BY <1>e DEF ChangeStanding, RegisteredStays
<1> QED
  BY <1>a, <1>b, <1>c, <1>d, <1>e

LEMMA LendRegistered ==
  ASSUME TypeOK, NEW s \in Store, NEW refused \in SUBSET Unpayable, NEW k \in Token,
         Lend(s, refused, k), NEW x \in Store
  PROVE  RegisteredStays(x)
<1>1. job[x] \in Job
  BY DEF TypeOK
<1> QED
  BY <1>1 DEF Lend, ClaimRow, NoLease, RegisteredStays, Job

RowKept(x) ==
  /\ SameJob(x) /\ RegisteredStays(x)
  /\ job'[x].status = "ready" <=> job[x].status = "ready"
  /\ job'[x].token = job[x].token \/ \A r \in late : r.token # job'[x].token
  /\ tenant'[x] = tenant[x] \/ tenant[x] = "none"

RowAdministered(x) ==
  Administered(x) /\ RegisteredStays(x)

RowCleaned(x) ==
  /\ job[x].kind = "archive" /\ SameJob(x)
  /\ job'[x].status = "archived" /\ job'[x].token = NoToken
  /\ tenant'[x] = "closed"

RowReady(x) ==
  /\ job[x].kind # "archive" /\ job'[x].kind = job[x].kind
  /\ job'[x].cleanup = job[x].cleanup
  /\ job'[x].status = "ready" /\ job'[x].ready /\ job'[x].creds
  /\ job'[x].token = NoToken
  /\ tenant'[x] = tenant[x] /\ vm' = vm
  /\ Serving(vm[x])
  /\ job[x].kind = "activate" => vm[x].index

RowStep(x) == RowKept(x) \/ RowAdministered(x) \/ RowCleaned(x) \/ RowReady(x)

LEMMA SameRow ==
  ASSUME NEW x, job'[x] = job[x], tenant'[x] = tenant[x]
  PROVE  RowKept(x)
BY DEF RowKept, SameJob, RegisteredStays

\* No request carries NoToken.
LEMMA LateTokens ==
  ASSUME TypeOK
  PROVE  \A r \in late : r.token # NoToken /\ r.store \in Store /\ r.kind \in Kind
BY TokenAssumption DEF TypeOK, Request

\* The row of an acknowledgement, early or late.
LEMMA FinishedRow ==
  ASSUME TypeOK, NEW s \in Store, NEW kind \in Kind, NEW k,
         Leased(s, kind, k), MayFinish(s, kind), FinishJob(s, kind), vm' = vm,
         kind # "archive" => Serving(vm[s]),
         kind = "activate" => vm[s].index,
         NEW x \in Store
  PROVE  RowStep(x)
<1>1. /\ job \in [Store -> Job] /\ job[x] \in Job
      /\ tenant \in [Store -> {"none", "open", "closing", "closed"}]
  BY DEF TypeOK
<1>2. CASE x # s
  <2>1. job'[x] = job[x] /\ tenant'[x] = tenant[x]
    BY <1>1, <1>2 DEF FinishJob
  <2> QED
    BY <2>1, SameRow DEF RowStep
<1>3. CASE x = s /\ kind = "archive"
  <2>1. /\ job'[x] = [NoLease(job[x], "archived") EXCEPT !.creds = FALSE]
        /\ tenant'[x] = "closed"
    BY <1>1, <1>3 DEF FinishJob
  <2>2. RowCleaned(x)
    BY <1>1, <1>3, <2>1 DEF RowCleaned, NoLease, SameJob, Leased, Job
  <2> QED
    BY <2>2 DEF RowStep
<1>4. CASE x = s /\ kind # "archive"
  <2>1. /\ job'[x] = [NoLease(job[x], "ready") EXCEPT !.ready = TRUE]
        /\ tenant'[x] = tenant[x]
    BY <1>1, <1>4 DEF FinishJob
  <2>2. RowReady(x)
    BY <1>1, <1>4, <2>1 DEF RowReady, NoLease, Leased, MayFinish, Job
  <2> QED
    BY <2>2 DEF RowStep
<1> QED
  BY <1>2, <1>3, <1>4

LEMMA WorkerRowStep ==
  ASSUME TypeOK, WorkerStep, NEW x \in Store
  PROVE  RowKept(x)
<1>1. SameJob(x) /\ RegisteredStays(x)
  BY WorkerRow, WorkerRegistered
<1>2. tenant'[x] = tenant[x]
  BY DEF WorkerStep, BeginStep, StopWithoutLease, FinishStep, StepRefused,
     StepLosesLease, StepFails, CallDelayed, Crash, Heartbeat, HeartbeatRefused,
     HeartbeatLost
<1>3. /\ job'[x].status = "ready" <=> job[x].status = "ready"
      /\ job'[x].token = job[x].token \/ job'[x].token = NoToken
  BY WorkerRow DEF SameLease, Renewal, Released, Leased
<1> QED
  BY <1>1, <1>2, <1>3, LateTokens DEF RowKept

LEMMA LendRowStep ==
  ASSUME TypeOK, NEW s \in Store, NEW refused \in SUBSET Unpayable, NEW k \in Token,
         Lend(s, refused, k), tenant' = tenant, NEW x \in Store
  PROVE  RowKept(x)
<1>1. SameJob(x) /\ RegisteredStays(x)
  BY LendRow, LendRegistered
<1>2. \A r \in late : r.token # k
  BY DEF Lend, FreshToken
<1>a. CASE x = s
  <2>1. /\ s \in Claimable /\ job'[x].status = "provisioning" /\ job'[x].token = k
    BY <1>a, LendRow
  <2> QED
    BY <1>a, <1>1, <1>2, <2>1 DEF RowKept, Claimable
<1>b. CASE x # s /\ x \in Claimable /\ Released(x)
  BY <1>b, <1>1, LateTokens DEF RowKept, Claimable, Released
<1>c. CASE job'[x] = job[x]
  BY <1>c, SameRow
<1> QED
  BY <1>a, <1>b, <1>c, LendRow

LEMMA ClaimNothingRowStep ==
  ASSUME TypeOK, ClaimNothing, NEW x \in Store
  PROVE  RowKept(x)
<1>1. job[x] \in Job /\ tenant' = tenant
  BY DEF TypeOK, ClaimNothing
<1>2. CASE x \in Unpayable
  <2>1. job'[x] = NoLease(job[x], "failed") /\ x \in Claimable
    BY <1>2 DEF ClaimNothing, Unpayable
  <2> QED
    BY <1>1, <2>1, LateTokens
       DEF NoLease, RowKept, RegisteredStays, SameJob, Claimable, Job
<1>3. CASE x \notin Unpayable
  BY <1>1, <1>3, SameRow DEF ClaimNothing
<1> QED
  BY <1>2, <1>3

LEMMA PlatformRowStep ==
  ASSUME TypeOK, NotYetCreated, NEW s \in Store,
         \/ CreateStore(s) \/ ActivateStoreSearch(s) \/ RequestStoreCleanup(s)
         \/ RetryStoreProvisioning(s) \/ ChangeStanding(s),
         NEW x \in Store
  PROVE  RowStep(x)
<1>1. RegisteredStays(x)
  BY PlatformRegistered
<1>a. CASE job'[x] = job[x] /\ tenant'[x] = tenant[x]
  BY <1>a, SameRow DEF RowStep
<1>b. CASE Administered(x)
  BY <1>1, <1>b DEF RowStep, RowAdministered
<1>c. CASE /\ tenant[x] = "none" /\ tenant'[x] = "open"
           /\ job'[x].status = "queued"
  <2>1. CreateStore(s) /\ x = s
    BY <1>c DEF CreateStore, ActivateStoreSearch, RequestStoreCleanup,
                RetryStoreProvisioning, ChangeStanding, TypeOK
  <2>2. job[x] \in Job /\ job'[x] = [job[x] EXCEPT !.status = "queued"]
    BY <2>1 DEF TypeOK, CreateStore
  <2> QED
    BY <1>1, <1>c, <2>2 DEF RowStep, RowKept, SameJob, NotYetCreated, Job
<1> QED
  BY <1>a, <1>b, <1>c, PlatformRow

LEMMA TimeRowStep ==
  ASSUME TypeOK, TimePasses, NEW x \in Store
  PROVE  RowKept(x)
<1>1. job[x] \in Job /\ tenant' = tenant
  BY DEF TypeOK, TimePasses
<1>2. job'[x].creds = job[x].creds
  BY <1>1 DEF TimePasses, Job
<1> QED
  BY <1>1, <1>2, TimeRow DEF RowKept, RegisteredStays

LEMMA ServingAtEnd ==
  ASSUME NEW m, SetUpSoFar("complete", m)
  PROVE  Serving(m)
BY DEF SetUpSoFar, Serving

LEMMA CompleteRowStep ==
  ASSUME LeaseInv, ServiceInv, Complete, NEW x \in Store
  PROVE  RowStep(x)
<1>1. /\ TypeOK /\ work \in Work /\ work # Idle /\ work.step = "complete"
      /\ work.store \in Store /\ work.kind \in Kind
  BY DEF LeaseInv, TypeOK, Complete, Work
<1>2. /\ Leased(work.store, work.kind, work.token) /\ MayFinish(work.store, work.kind)
      /\ FinishJob(work.store, work.kind) /\ vm' = vm
  BY DEF Complete, MayDo
<1>3. work.kind = "provision" => Serving(vm[work.store])
  BY <1>1, ServingAtEnd DEF ServiceInv, ProvisionProgress
<1>4. work.kind = "activate" => Serving(vm[work.store]) /\ vm[work.store].index
  BY <1>1, <1>2
     DEF ServiceInv, ReadyServes, ActivateProgress, MayFinish, Leased
<1>5. work.kind # "archive" => Serving(vm[work.store])
  BY <1>1, <1>3, <1>4 DEF Kind
<1> QED
  BY <1>1, <1>2, <1>4, <1>5, FinishedRow

LEMMA ArriveRegistered ==
  ASSUME TypeOK, NEW r \in late, Arrive(r), r.op # "complete", NEW x \in Store
  PROVE  RegisteredStays(x)
<1>1. /\ job \in [Store -> Job] /\ job[x] \in Job
      /\ r.store \in Store /\ r.retryable \in BOOLEAN
  BY DEF TypeOK, Request
<1>a. CASE UNCHANGED job
  BY <1>a DEF RegisteredStays
<1>b. CASE job' = [job EXCEPT ![r.store].left = Lease]
  BY <1>1, <1>b DEF RegisteredStays, Job
<1>c. CASE job' = FailJob(job, r.store, r.retryable)
  BY <1>1, <1>c, FailedRegistered DEF RegisteredStays
<1>d. CASE job' = Register(job, r.store)
  BY <1>1, <1>d, RegisterRegistered DEF RegisteredStays
<1> QED
  BY <1>a, <1>b, <1>c, <1>d DEF Arrive

LEMMA ArriveRowStep ==
  ASSUME LeaseInv, ServiceInv, NEW r \in late, Arrive(r), NEW x \in Store
  PROVE  RowStep(x)
<1>1. TypeOK /\ r.store \in Store /\ r.kind \in Kind /\ vm' = vm
  BY LateTokens DEF LeaseInv, Arrive
<1>2. CASE r.op # "complete"
  <2>1. RegisteredStays(x)
    BY <1>1, <1>2, ArriveRegistered
  <2>2. \/ job'[x] = job[x] /\ tenant'[x] = tenant[x]
        \/ /\ Leased(r.store, r.kind, r.token) /\ x = r.store
           /\ SameJob(x) /\ tenant'[x] = tenant[x]
           /\ Renewal(x) \/ SameLease(x) \/ Released(x)
    BY <1>1, <1>2, ArriveRow
  <2>3. RowKept(x)
    BY <1>1, <2>1, <2>2, SameRow, LateTokens
       DEF RowKept, Renewal, SameLease, Released, Leased
  <2> QED
    BY <2>3 DEF RowStep
<1>3. CASE r.op = "complete"
  <2>1. CASE UNCHANGED <<job, tenant>>
    BY <2>1, SameRow DEF RowStep
  <2>2. CASE /\ Leased(r.store, r.kind, r.token) /\ MayFinish(r.store, r.kind)
             /\ FinishJob(r.store, r.kind)
    <3>1. /\ r.kind = "provision" => Serving(vm[r.store])
          /\ r.kind = "activate" => vm[r.store].index
      BY <1>3, <2>2 DEF ServiceInv, LateIsServing, Leased
    <3>2. r.kind = "activate" => Serving(vm[r.store])
      BY <1>1, <2>2 DEF ServiceInv, ReadyServes, MayFinish, Leased
    <3>3. r.kind # "archive" => Serving(vm[r.store])
      BY <1>1, <3>1, <3>2 DEF Kind
    <3> QED
      BY <1>1, <2>2, <3>1, <3>3, FinishedRow
  <2> QED
    BY <1>3, <2>1, <2>2 DEF Arrive
<1> QED
  BY <1>2, <1>3

\* Every step, for every row.
LEMMA EveryRow ==
  ASSUME LeaseInv, ServiceInv, Next, NEW x \in Store
  PROVE  RowStep(x)
<1>1. TypeOK /\ NotYetCreated
  BY DEF LeaseInv
<1>a. ASSUME NEW s \in Store,
             \/ CreateStore(s) \/ ActivateStoreSearch(s) \/ RequestStoreCleanup(s)
             \/ RetryStoreProvisioning(s) \/ ChangeStanding(s)
      PROVE  RowStep(x)
  BY <1>1, <1>a, PlatformRowStep
<1>b. ASSUME NEW s \in Store, ClaimOf(s) \/ ClaimLostOf(s)
      PROVE  RowStep(x)
  <2>1. PICK refused \in SUBSET Unpayable, k \in Token :
          Lend(s, refused, k) /\ tenant' = tenant
    BY <1>b DEF ClaimOf, ClaimLostOf, Claim, ClaimLost
  <2> QED
    BY <1>1, <2>1, LendRowStep DEF RowStep
<1>c. CASE ClaimNothing
  BY <1>1, <1>c, ClaimNothingRowStep DEF RowStep
<1>d. CASE WorkerStep
  BY <1>1, <1>d, WorkerRowStep DEF RowStep
<1>e. CASE Complete
  BY <1>e, CompleteRowStep
<1>f. ASSUME NEW r \in late, Arrive(r)
      PROVE  RowStep(x)
  BY <1>f, ArriveRowStep
<1>g. CASE Tick \/ TickUnrenewed
  BY <1>1, <1>g, TimeRowStep DEF Tick, TickUnrenewed, RowStep
<1> QED
  BY <1>a, <1>b, <1>c, <1>d, <1>e, <1>f, <1>g DEF Next, WorkerStep

-----------------------------------------------------------------------------
(* What a step does to the machine of a store that is ready, or cleaned up *)

MachineKept(x) ==
  /\ job[x].ready /\ job[x].kind # "archive" => Gains(vm[x], vm'[x])
  /\ job[x].kind = "archive" => ~Starts(vm[x], vm'[x])

LEMMA SameMachine ==
  ASSUME NEW x, vm'[x] = vm[x]
  PROVE  MachineKept(x)
BY DEF MachineKept, Gains, Starts

LEMMA WorkerMachineKept ==
  ASSUME LeaseInv, CleanInv, ServiceInv, WorkerStep, NEW x \in Store
  PROVE  MachineKept(x)
<1>1. TypeOK /\ OwnSteps
  BY DEF LeaseInv, CleanInv
<1>2. /\ work \in Work /\ work # Idle
      /\ work.store \in Store /\ work.kind \in Kind
      /\ work.step \in StepsOf(work.kind) /\ vm[work.store] \in Machine
  BY <1>1, WorkerTouches DEF Work, OwnSteps, TypeOK
<1>a. CASE x # work.store
  BY <1>a, <1>1, WorkerTouches, SameMachine
<1>b. CASE x = work.store /\ work.kind = "provision"
  BY <1>b, <1>2 DEF ServiceInv, ProvisionProgress, MachineKept
<1>c. CASE x = work.store /\ work.kind = "activate"
  <2>1. vm'[x] \in {vm[x], Effect(work.step, vm[x])} /\ ~Starts(vm[x], vm'[x])
    BY <1>c, <1>1, WorkerTouches
  <2>2. Gains(vm[x], Effect(work.step, vm[x]))
    BY <1>c, <1>2, EffectGains
  <2>3. Gains(vm[x], vm[x])
    BY DEF Gains
  <2> QED
    BY <2>1, <2>2, <2>3 DEF MachineKept
<1>d. CASE x = work.store /\ work.kind = "archive"
  <2>1. ~Starts(vm[x], vm'[x])
    BY <1>d, <1>1, WorkerTouches
  <2>2. job[x].kind = "archive"
    BY <1>d, <1>2 DEF CleanInv, ArchiveProgress
  <2> QED
    BY <2>1, <2>2 DEF MachineKept
<1> QED
  BY <1>2, <1>a, <1>b, <1>c, <1>d DEF Kind

LEMMA EveryMachine ==
  ASSUME LeaseInv, CleanInv, ServiceInv, Next, NEW x \in Store
  PROVE  MachineKept(x)
<1>1. CASE WorkerStep
  BY <1>1, WorkerMachineKept
<1>2. CASE vm' = vm
  BY <1>2, SameMachine
<1> QED
  BY <1>1, <1>2
     DEF Next, WorkerStep, CreateStore, ActivateStoreSearch, RequestStoreCleanup,
         RetryStoreProvisioning, ChangeStanding, ClaimOf, ClaimLostOf, Claim, ClaimLost,
         ClaimNothing, Complete, Arrive, Tick, TickUnrenewed, TimePasses

-----------------------------------------------------------------------------
(* The parts of the invariant that speak of rows *)

RowInv ==
  ProvisionedOnce /\ ReadyServes /\ ReadyStatus /\ ArchiveIsConfirmed

LEMMA RowsKept ==
  ASSUME LeaseInv, CleanInv, ServiceInv, Next
  PROVE  RowInv'
<1> SUFFICES ASSUME NEW x \in Store
             PROVE  /\ job'[x].kind = "provision" /\ job'[x].ready
                         => job'[x].status = "ready"
                    /\ job'[x].ready /\ job'[x].kind # "archive"
                         => Serving(vm'[x]) /\ job'[x].creds
                    /\ job'[x].status = "ready" =>
                         /\ job'[x].ready /\ job'[x].kind # "archive"
                         /\ job'[x].kind = "activate" => vm'[x].index
                    /\ job'[x].kind = "archive" <=> job'[x].cleanup
                    /\ job'[x].cleanup => tenant'[x] \in {"closing", "closed"}
  BY DEF RowInv, ProvisionedOnce, ReadyServes, ReadyStatus, ArchiveIsConfirmed
<1>1. /\ job[x].kind = "provision" /\ job[x].ready => job[x].status = "ready"
      /\ job[x].ready /\ job[x].kind # "archive" => Serving(vm[x]) /\ job[x].creds
      /\ job[x].status = "ready" =>
           /\ job[x].ready /\ job[x].kind # "archive"
           /\ job[x].kind = "activate" => vm[x].index
      /\ job[x].kind = "archive" <=> job[x].cleanup
      /\ job[x].cleanup => tenant[x] \in {"closing", "closed"}
  BY DEF ServiceInv, ProvisionedOnce, ReadyServes, ReadyStatus, ArchiveIsConfirmed
<1>2. MachineKept(x)
  BY EveryMachine
<1>a. CASE RowKept(x)
  BY <1>1, <1>2, <1>a DEF RowKept, SameJob, RegisteredStays, MachineKept, Gains
<1>b. CASE RowAdministered(x)
  <2>1. Administered(x) /\ RegisteredStays(x)
    BY <1>b DEF RowAdministered
  <2>2. job'[x].status = "queued"
    BY <2>1 DEF Administered
  <2>3. job'[x].kind = "provision" => ~job'[x].ready
    BY <1>1, <2>1 DEF Administered
  <2>4. job'[x].ready /\ job'[x].kind # "archive" => Serving(vm'[x]) /\ job'[x].creds
    BY <1>1, <1>2, <2>1 DEF Administered, RegisteredStays, MachineKept, Gains
  <2>a. /\ job'[x].kind = "archive" <=> job'[x].cleanup
        /\ job'[x].cleanup => tenant'[x] \in {"closing", "closed"}
    BY <1>1, <2>1 DEF Administered
  <2> QED
    BY <2>2, <2>3, <2>4, <2>a
<1>c. CASE RowCleaned(x)
  BY <1>1, <1>c DEF RowCleaned, SameJob
<1>d. CASE RowReady(x)
  BY <1>1, <1>d DEF RowReady
<1> QED
  BY <1>a, <1>b, <1>c, <1>d, EveryRow DEF RowStep

-----------------------------------------------------------------------------
(* The parts that speak of the running job and of late acknowledgements *)

RunInv ==
  ProvisionProgress /\ ActivateProgress /\ LateIsAlone /\ LateIsServing

\* A row never takes the token of a request back.
TokenSpent(x) ==
  job'[x].token = job[x].token \/ \A r \in late : r.token # job'[x].token

LEMMA TokensSpent ==
  ASSUME LeaseInv, ServiceInv, Next, NEW x \in Store
  PROVE  TokenSpent(x)
<1>1. TypeOK
  BY DEF LeaseInv
<1>2. CASE job'[x].token = NoToken
  BY <1>1, <1>2, LateTokens DEF TokenSpent
<1>3. CASE RowKept(x)
  BY <1>3 DEF RowKept, TokenSpent
<1> QED
  BY <1>2, <1>3, EveryRow
     DEF RowStep, RowAdministered, Administered, RowCleaned, RowReady

\* While a set-up runs its row stays that of a store that was never ready.
StillNew ==
  (work # Idle /\ work.kind = "provision") =>
    job'[work.store].kind = "provision" /\ ~job'[work.store].ready

LEMMA OthersKeepRun ==
  ASSUME LeaseInv, ServiceInv, Next, vm' = vm, late' \subseteq late,
         work' = Idle \/ SameRun, StillNew
  PROVE  RunInv'
<1>1. TypeOK /\ \A r \in late : r.store \in Store
  BY LateTokens DEF LeaseInv
<1>2. ProvisionProgress' /\ ActivateProgress'
  BY DEF ServiceInv, ProvisionProgress, ActivateProgress, StillNew, SameRun
<1>3. ASSUME NEW r \in late', r.token = job'[r.store].token
      PROVE  r \in late /\ r.token = job[r.store].token
  BY <1>1, <1>3, TokensSpent DEF TokenSpent
<1>4. LateIsAlone'
  BY <1>3 DEF ServiceInv, LateIsAlone, SameRun
<1>5. LateIsServing'
  BY <1>3 DEF ServiceInv, LateIsServing
<1> QED
  BY <1>2, <1>4, <1>5 DEF RunInv

LEMMA RunPlatform ==
  ASSUME LeaseInv, ServiceInv, Next, NEW s \in Store,
         \/ CreateStore(s) \/ ActivateStoreSearch(s) \/ RequestStoreCleanup(s)
         \/ RetryStoreProvisioning(s) \/ ChangeStanding(s)
  PROVE  RunInv'
<1>1. TypeOK /\ NotYetCreated /\ (work # Idle => work.store \in Store)
  BY DEF LeaseInv, TypeOK, Work
<1>2. work' = work /\ late' = late /\ vm' = vm
  BY DEF CreateStore, ActivateStoreSearch, RequestStoreCleanup,
         RetryStoreProvisioning, ChangeStanding
<1>3. ASSUME work # Idle, work.kind = "provision"
      PROVE  job'[work.store].kind = "provision" /\ ~job'[work.store].ready
  <2>1. job[work.store].kind = "provision" /\ ~job[work.store].ready
    BY <1>3 DEF ServiceInv, ProvisionProgress
  <2>2. job[work.store].status # "ready"
    BY <1>1, <1>3, <2>1 DEF ServiceInv, ReadyStatus
  <2> QED
    BY <1>1, <1>3, <2>1, <2>2, PlatformRow DEF Administered, SameJob
<1>4. StillNew
  BY <1>3 DEF StillNew
<1> QED
  BY <1>2, <1>4, OthersKeepRun DEF SameRun

LEMMA RunClaim ==
  ASSUME LeaseInv, ServiceInv, Next, NEW s \in Store, ClaimOf(s) \/ ClaimLostOf(s)
  PROVE  RunInv'
<1>1. /\ TypeOK /\ (work # Idle => work.store \in Store)
      /\ \A r \in late : r.store \in Store
  BY LateTokens DEF LeaseInv, TypeOK, Work
<1>2. PICK refused \in SUBSET Unpayable, k \in Token :
        Claim(s, refused, k) \/ ClaimLost(s, refused, k)
  BY DEF ClaimOf, ClaimLostOf
<1>3. Lend(s, refused, k) /\ late' = late /\ vm' = vm
  BY <1>2 DEF Claim, ClaimLost
<1>4. \A x \in Store : SameJob(x)
  BY <1>1, <1>3, LendRow
<1>5. CASE work' = work
  <2>1. StillNew
    BY <1>1, <1>4 DEF StillNew, SameJob, ServiceInv, ProvisionProgress
  <2> QED
    BY <1>3, <1>5, <2>1, OthersKeepRun DEF SameRun
<1>6. CASE Claim(s, refused, k)
  <2>1. /\ work'.kind = job[s].kind /\ work'.store = s /\ work'.step = "load"
        /\ s \in Claimable /\ \A r \in late : r.token # k
    BY <1>3, <1>6 DEF Claim, Lend, FreshToken
  <2>2. job'[s].token = k
    BY <1>1, <1>3, LendRow
  <2>3. job[s].kind = "provision" => ~job[s].ready
    BY <2>1 DEF ServiceInv, ProvisionedOnce, Claimable
  <2>4. ProvisionProgress' /\ ActivateProgress'
    BY <1>4, <2>1, <2>3 DEF ProvisionProgress, ActivateProgress, SetUpSoFar, SameJob
  <2>a. LateIsAlone'
    BY <1>3, <2>1, <2>2 DEF LateIsAlone
  <2>6. ASSUME NEW r \in late, r.token = job'[r.store].token
        PROVE  r.token = job[r.store].token
    BY <1>1, <2>6, TokensSpent DEF TokenSpent
  <2>7. LateIsServing'
    BY <1>3, <2>6 DEF ServiceInv, LateIsServing
  <2> QED
    BY <2>4, <2>a, <2>7 DEF RunInv
<1> QED
  BY <1>2, <1>5, <1>6 DEF ClaimLost

LEMMA RunEnds ==
  ASSUME LeaseInv, ServiceInv, Next, ClaimNothing \/ Complete
  PROVE  RunInv'
<1>1. work' = Idle /\ vm' = vm /\ late' = late
  BY DEF ClaimNothing, Complete
<1>2. /\ TypeOK /\ \A r \in late : r.store \in Store
  BY LateTokens DEF LeaseInv
<1>3. ASSUME NEW r \in late, r.token = job'[r.store].token
      PROVE  r.token = job[r.store].token
  BY <1>2, <1>3, TokensSpent DEF TokenSpent
<1>4. LateIsServing'
  BY <1>1, <1>3 DEF ServiceInv, LateIsServing
<1> QED
  BY <1>1, <1>4 DEF RunInv, ProvisionProgress, ActivateProgress, LateIsAlone

LEMMA RunArrive ==
  ASSUME LeaseInv, ServiceInv, Next, NEW r \in late, Arrive(r)
  PROVE  RunInv'
<1>1. /\ TypeOK /\ work' = work /\ vm' = vm /\ late' \subseteq late
      /\ work # Idle => work.store \in Store
  BY DEF LeaseInv, TypeOK, Work, Arrive
<1>2. ASSUME work # Idle, work.kind = "provision"
      PROVE  job'[work.store].kind = "provision" /\ ~job'[work.store].ready
  <2>1. job[work.store].kind = "provision" /\ ~job[work.store].ready
    BY <1>2 DEF ServiceInv, ProvisionProgress
  <2>2. ~(r.op = "complete" /\ r.store = work.store /\ r.token = job[r.store].token)
    BY <1>2 DEF ServiceInv, LateIsAlone
  <2>3. job'[work.store] = job[work.store] \/ SameJob(work.store)
    BY <1>1, <1>2, <2>2, ArriveRow DEF Leased
  <2> QED
    BY <2>1, <2>3 DEF SameJob
<1> QED
  BY <1>1, <1>2, OthersKeepRun DEF StillNew, SameRun

LEMMA RunTime ==
  ASSUME LeaseInv, ServiceInv, Next, Tick \/ TickUnrenewed
  PROVE  RunInv'
<1>1. /\ TypeOK /\ TimePasses /\ vm' = vm /\ late' = late
      /\ work # Idle => work.store \in Store
  BY DEF LeaseInv, Tick, TickUnrenewed, TimePasses, TypeOK, Work
<1>2. work' = Idle \/ SameRun
  <2>1. CASE work = Idle
    BY <1>1, <2>1 DEF TimePasses
  <2>2. CASE work # Idle
    BY <1>1, <2>2 DEF TimePasses, SameRun, TypeOK, Work
  <2> QED
    BY <2>1, <2>2
<1>3. StillNew
  BY <1>1, TimeRow DEF StillNew, SameJob, ServiceInv, ProvisionProgress
<1> QED
  BY <1>1, <1>2, <1>3, OthersKeepRun

\* An activation that reached its end has turned the search on.
LEMMA ActivationAdvances ==
  ASSUME NEW step \in StepsOf("activate"), NEW m \in Machine,
         step # "complete", StepAfter("activate", step) = "complete"
  PROVE  Effect(step, m).index
BY DEF StepsOf, StepAfter, FirstStep, FollowingStep, Effect, Machine

LEMMA RunWorker ==
  ASSUME LeaseInv, CleanInv, ServiceInv, Next, WorkerStep
  PROVE  RunInv'
<1>1. /\ TypeOK /\ OwnSteps /\ work \in Work /\ work # Idle
      /\ work.store \in Store /\ work.kind \in Kind /\ work.step \in StepsOf(work.kind)
      /\ vm \in [Store -> Machine] /\ vm[work.store] \in Machine
      /\ \A r \in late : r.store \in Store
  BY WorkerTouches, LateTokens DEF LeaseInv, CleanInv, TypeOK, Work, OwnSteps
<1>2. \A x \in Store : SameJob(x) /\ (x # work.store => vm'[x] = vm[x])
  BY <1>1, WorkerRow, WorkerTouches
<1>3. ASSUME NEW r \in late, r.token = job'[r.store].token
      PROVE  r.token = job[r.store].token
  BY <1>1, <1>3, TokensSpent DEF TokenSpent
<1>4. work' = Idle \/ FinishStep \/ (UNCHANGED vm /\ SameRun)
  BY <1>1 DEF WorkerStep, BeginStep, StopWithoutLease, StepRefused, StepLosesLease,
     StepFails, CallDelayed, Crash, Heartbeat, HeartbeatRefused, HeartbeatLost,
     GiveUp, SameRun, Work
<1>5. ProvisionProgress' /\ ActivateProgress'
  <2>1. CASE work' = Idle
    BY <2>1 DEF ProvisionProgress, ActivateProgress
  <2>2. CASE FinishStep
    <3>1. /\ work.step # "complete"
          /\ work'.step = StepAfter(work.kind, work.step)
          /\ work'.kind = work.kind /\ work'.store = work.store
          /\ vm'[work.store] = Effect(work.step, vm[work.store])
      BY <1>1, <2>2 DEF FinishStep, Work
    <3>2. ProvisionProgress'
      BY <1>1, <1>2, <3>1, SetUpAdvances DEF ServiceInv, ProvisionProgress, SameJob
    <3>3. ActivateProgress'
      BY <1>1, <3>1, ActivationAdvances DEF ActivateProgress
    <3> QED
      BY <3>2, <3>3
  <2>3. CASE UNCHANGED vm /\ SameRun
    BY <1>1, <1>2, <2>3
       DEF ServiceInv, ProvisionProgress, ActivateProgress, SameRun, SameJob
  <2> QED
    BY <1>4, <2>1, <2>2, <2>3
<1>6. ASSUME NEW r \in late', r \notin late, r.op = "complete"
      PROVE  CallDelayed /\ r = RequestOf("complete", FALSE) /\ work.step = "complete"
  <2>1. CallDelayed
    BY <1>6, NewRequest
  <2>2. r = RequestOf(work.step, FALSE)
    BY <1>6, <2>1 DEF CallDelayed
  <2>3. work.step = "complete"
    BY <1>6, <2>2 DEF RequestOf
  <2> QED
    BY <2>1, <2>2, <2>3
<1>7. LateIsAlone'
  <2> SUFFICES ASSUME work' # Idle, NEW r \in late', r.op = "complete",
                      r.store = work'.store
               PROVE  r.token # job'[r.store].token
    BY DEF LateIsAlone
  <2>1. work'.store = work.store
    BY <1>1, <1>4 DEF FinishStep, SameRun, Work
  <2>2. r \in late
    BY <1>6 DEF CallDelayed
  <2> QED
    BY <1>1, <1>3, <2>1, <2>2 DEF ServiceInv, LateIsAlone
<1>8. LateIsServing'
  <2> SUFFICES ASSUME NEW r \in late', r.op = "complete", r.token = job'[r.store].token
               PROVE  /\ r.kind = "provision" => Serving(vm'[r.store])
                      /\ r.kind = "activate" => vm'[r.store].index
    BY DEF LateIsServing
  <2>1. CASE r \in late
    <3>1. r.token = job[r.store].token /\ r.store # work.store
      BY <1>1, <1>3, <2>1 DEF ServiceInv, LateIsAlone
    <3> QED
      BY <1>1, <1>2, <2>1, <3>1 DEF ServiceInv, LateIsServing
  <2>2. CASE r \notin late
    <3>1. /\ r = RequestOf("complete", FALSE) /\ work.step = "complete"
          /\ vm' = vm
      BY <1>6, <2>2 DEF CallDelayed
    <3>2. r.store = work.store /\ r.kind = work.kind
      BY <3>1 DEF RequestOf
    <3> QED
      BY <1>1, <3>1, <3>2, ServingAtEnd
         DEF ServiceInv, ProvisionProgress, ActivateProgress
  <2> QED
    BY <2>1, <2>2
<1> QED
  BY <1>5, <1>7, <1>8 DEF RunInv

-----------------------------------------------------------------------------
(* The theorems *)

LEMMA ServiceInit == Init => ServiceInv
  BY DEF Init, NoJob, ServiceInv, ProvisionProgress, ActivateProgress, ProvisionedOnce,
         LateIsAlone, LateIsServing, ReadyServes, ReadyStatus, ArchiveIsConfirmed

LEMMA ServiceNext ==
  ASSUME LeaseInv, CleanInv, ServiceInv, [Next]_vars
  PROVE  ServiceInv'
<1>1. CASE Next
  <2>1. RowInv'
    BY <1>1, RowsKept
  <2>2. RunInv'
    BY <1>1, RunPlatform, RunClaim, RunEnds, RunWorker, RunArrive, RunTime
       DEF Next, WorkerStep
  <2> QED
    BY <2>1, <2>2 DEF RowInv, RunInv, ServiceInv
<1>2. CASE UNCHANGED vars
  BY <1>2 DEF vars, ServiceInv, ProvisionProgress, ActivateProgress, ProvisionedOnce,
         LateIsAlone, LateIsServing, ReadyServes, ReadyStatus, ArchiveIsConfirmed
<1> QED
  BY <1>1, <1>2

\* The inductive invariant of service: what a run has done is still done when it
\* is acknowledged, and a row that says ready or archive says the truth.
THEOREM ServiceInvariant == Spec => [](LeaseInv /\ CleanInv /\ ServiceInv)
<1>1. CleanInv /\ LeaseInv /\ [Next]_vars => CleanInv'
  BY CleanNext
<1>2. ServiceInv /\ LeaseInv /\ CleanInv /\ [Next]_vars => ServiceInv'
  BY ServiceNext
<1> QED
  BY <1>1, <1>2, CleanInit, ServiceInit, LeaseInvariant, PTL DEF Spec

\* "Confirm failure never marks a paid customer as ready": a row is ready only
\* while its store runs, is routed and has its data and its identity, and after
\* an activation its search indexes, however late the acknowledgement came.
THEOREM ReadyStoresServe == Spec => []ReadyIsServing
<1>1. ServiceInv => ReadyIsServing
  BY DEF ServiceInv, ReadyStatus, ReadyServes, ReadyIsServing
<1> QED
  BY <1>1, ServiceInvariant, PTL

\* A store that was ready stops serving only after an administrator confirmed its
\* cleanup: no retry, activation, crash or run of an older job takes it down.
THEOREM OnlyConfirmedCleanup == Spec => []CleanupConfirmed
<1>1. ServiceInv => CleanupConfirmed
  BY DEF ServiceInv, ReadyServes, ArchiveIsConfirmed, CleanupConfirmed
<1> QED
  BY <1>1, ServiceInvariant, PTL

\* A confirmed cleanup is not undone: the row stays that of an archive, the store
\* stays closing or closed, and nothing is started, routed or filled again.
LEMMA CleanupStep ==
  ASSUME LeaseInv, CleanInv, ServiceInv, Next, NEW s \in Store, job[s].cleanup
  PROVE  /\ job'[s].cleanup /\ job'[s].kind = "archive"
         /\ tenant'[s] # "open"
         /\ vm'[s].running => vm[s].running
         /\ vm'[s].routed => vm[s].routed
         /\ vm[s].db = "cleared" => vm'[s].db = "cleared"
         /\ vm[s].files = "archived" => vm'[s].files = "archived"
<1>1. job[s].kind = "archive" /\ tenant[s] \in {"closing", "closed"}
  BY DEF ServiceInv, ArchiveIsConfirmed
<1>2. ~Starts(vm[s], vm'[s])
  BY <1>1, EveryMachine DEF MachineKept
<1>3. CASE RowKept(s)
  BY <1>1, <1>2, <1>3 DEF RowKept, SameJob, Starts
<1>4. CASE RowAdministered(s)
  BY <1>1, <1>2, <1>4 DEF RowAdministered, Administered, Starts
<1>5. CASE RowCleaned(s)
  BY <1>1, <1>2, <1>5 DEF RowCleaned, SameJob, Starts
<1> QED
  BY <1>1, <1>3, <1>4, <1>5, EveryRow DEF RowStep, RowReady

\* Once a cleanup is confirmed its job stays an archive job, and nothing starts,
\* routes or fills the store again (requestStoreCleanup, retryStoreProvisioning).
THEOREM CleanupIsFinal == Spec => CleanupFinal
<1>1. LeaseInv /\ CleanInv /\ ServiceInv /\ [Next]_vars =>
        [\A s \in Store :
           job[s].cleanup =>
             /\ job'[s].cleanup /\ job'[s].kind = "archive"
             /\ tenant'[s] # "open"
             /\ vm'[s].running => vm[s].running
             /\ vm'[s].routed => vm[s].routed
             /\ vm[s].db = "cleared" => vm'[s].db = "cleared"
             /\ vm[s].files = "archived" => vm'[s].files = "archived"]_vars
  BY CleanupStep
<1> QED
  BY <1>1, ServiceInvariant, PTL DEF Spec, CleanupFinal

-----------------------------------------------------------------------------
(* The jobs and the worker implement StoreLife: what a step does to a row and  *)
(* to a machine is a step of the life of the store, or nothing it knows of.    *)

\* Cleanup is requested of delivered stores only, and a run is of a store that
\* exists.
LifeInv ==
  /\ \A s \in Store :
       tenant[s] \in {"closing", "closed"} => job[s].cleanup /\ job[s].ready
  /\ work # Idle => tenant[work.store] # "none"

\* A cleanup is requested of a delivered store, and a row, once there, stays.
LEMMA LifeRow ==
  ASSUME LeaseInv, ServiceInv, LifeInv, Next, NEW x \in Store
  PROVE  /\ tenant'[x] \in {"closing", "closed"} => job'[x].cleanup /\ job'[x].ready
         /\ tenant[x] # "none" => tenant'[x] # "none"
<1>1. /\ tenant[x] \in {"closing", "closed"} => job[x].cleanup /\ job[x].ready
      /\ job[x].kind = "archive" <=> job[x].cleanup
      /\ job[x].cleanup => tenant[x] \in {"closing", "closed"}
  BY DEF LifeInv, ServiceInv, ArchiveIsConfirmed
<1>2. tenant[x] = "none" => tenant'[x] \in {"none", "open"}
  <2>1. TypeOK /\ (tenant[x] = "none" => job[x].status = "none")
    BY DEF LeaseInv, NotYetCreated
  <2>2. CASE tenant'[x] = tenant[x]
    BY <2>2
  <2>3. ASSUME NEW s \in Store, CreateStore(s) PROVE tenant'[x] \in {tenant[x], "open"}
    BY <2>1, <2>3 DEF CreateStore, TypeOK
  <2>4. CASE RowAdministered(x) \/ RowCleaned(x)
    BY <1>1, <2>4 DEF RowAdministered, Administered, RowCleaned
  <2>a. ASSUME NEW s \in Store, RequestStoreCleanup(s), tenant[x] = "none"
        PROVE  tenant'[x] = "none"
    BY <2>1, <2>a DEF RequestStoreCleanup, TypeOK
  <2>6. \/ tenant' = tenant
        \/ \E s \in Store : CreateStore(s) \/ RequestStoreCleanup(s)
        \/ Complete \/ \E r \in late : Arrive(r)
    BY DEF Next, ClaimOf, ClaimLostOf, Claim, ClaimLost, ActivateStoreSearch,
       RetryStoreProvisioning, ChangeStanding, ClaimNothing, BeginStep,
       StopWithoutLease, FinishStep, StepRefused, StepLosesLease, StepFails,
       CallDelayed, Crash, Heartbeat, HeartbeatRefused, HeartbeatLost, Tick,
       TickUnrenewed, TimePasses
  <2>7. CASE Complete
    BY <2>1, <2>7, CompleteRow DEF Leased
  <2>8. ASSUME NEW r \in late, Arrive(r), tenant[x] = "none" PROVE tenant'[x] = "none"
    BY <2>1, <2>8, ArriveRow DEF Leased
  <2> QED
    BY <2>2, <2>3, <2>a, <2>6, <2>7, <2>8
<1>a. CASE RowKept(x)
  BY <1>1, <1>2, <1>a DEF RowKept, SameJob
<1>b. CASE RowAdministered(x)
  BY <1>1, <1>b DEF RowAdministered, Administered
<1>c. CASE RowCleaned(x)
  BY <1>1, <1>c DEF RowCleaned, SameJob
<1>d. CASE RowReady(x)
  BY <1>1, <1>d DEF RowReady
<1> QED
  BY <1>a, <1>b, <1>c, <1>d, EveryRow DEF RowStep

\* Every step keeps what the map to StoreLife needs.
LEMMA LifeNext ==
  ASSUME LeaseInv, CleanInv, ServiceInv, LifeInv, [Next]_vars
  PROVE  LifeInv'
<1>1. CASE UNCHANGED vars
  BY <1>1 DEF vars, LifeInv
<1>2. CASE Next
  <2>1. \A x \in Store : tenant'[x] \in {"closing", "closed"} => job'[x].cleanup /\ job'[x].ready
    BY <1>2, LifeRow
  <2>2. ASSUME work' # Idle PROVE tenant'[work'.store] # "none"
    <3>1. CASE \E s \in Store : ClaimOf(s) /\ work' # work
      <4>1. PICK s \in Store, refused \in SUBSET Unpayable, k \in Token : Claim(s, refused, k)
        BY <3>1 DEF ClaimOf
      <4>2. work'.store = s /\ job[s].status # "none" /\ tenant' = tenant
        BY <4>1 DEF Claim, Lend, Claimable
      <4> QED
        BY <4>1, <4>2 DEF LeaseInv, NotYetCreated
    <3>2. CASE work # Idle /\ work'.store = work.store
      BY <1>2, <3>2, LifeRow DEF LifeInv, LeaseInv, TypeOK, Work
    <3>3. \/ \E s \in Store : ClaimOf(s) /\ work' # work
          \/ work' = work \/ work' = Idle
          \/ SameRun \/ FinishStep
      <4>1. ASSUME NEW s \in Store, ClaimLostOf(s) PROVE work' = work
        BY <4>1 DEF ClaimLostOf, ClaimLost
      <4>2. CASE WorkerStep
        BY <4>2 DEF WorkerStep, BeginStep, StopWithoutLease, StepRefused, StepLosesLease,
           StepFails, CallDelayed, Crash, Heartbeat, HeartbeatRefused, HeartbeatLost,
           GiveUp, SameRun, Work, LeaseInv, TypeOK
      <4>3. CASE Tick \/ TickUnrenewed
        BY <4>3 DEF Tick, TickUnrenewed, TimePasses, SameRun, Work, LeaseInv, TypeOK
      <4> QED
        BY <1>2, <4>1, <4>2, <4>3 DEF Next, WorkerStep, CreateStore, ActivateStoreSearch,
           RequestStoreCleanup, RetryStoreProvisioning, ChangeStanding, ClaimNothing,
           Complete, Arrive
    <3>4. CASE FinishStep
      BY <3>4, <3>2 DEF FinishStep, LeaseInv, TypeOK, Work
    <3> QED
      BY <2>2, <3>1, <3>2, <3>3, <3>4 DEF SameRun
  <2> QED
    BY <2>1, <2>2 DEF LifeInv
<1> QED
  BY <1>1, <1>2

\* No store, no work.
LEMMA LifeInit == Init => LifeInv
BY DEF Init, LifeInv

\* What the parts of a machine depend on.
LEMMA PartsOfMachine ==
  ASSUME NEW m, NEW n
  PROVE  /\ PartsOf(m) \subseteq Life!Part
         /\ Serving(m) => Life!Serves \subseteq PartsOf(m)
         /\ Cleaned(m) => PartsOf(m) = {}
         /\ /\ n.db = m.db /\ n.files = m.files
            /\ n.running = m.running /\ n.routed = m.routed /\ n.index = m.index
            => PartsOf(n) = PartsOf(m)
BY DEF PartsOf, Life!Part, Life!Serves, Serving, Cleaned

\* Set-up only adds parts, an activation the index, and archive only removes.
LEMMA EffectParts ==
  ASSUME NEW m \in Machine, NEW kind \in Kind, NEW step \in StepsOf(kind)
  PROVE  /\ kind = "provision" => PartsOf(m) \subseteq PartsOf(Effect(step, m))
         /\ kind = "activate" =>
              PartsOf(Effect(step, m)) \in {PartsOf(m), PartsOf(m) \cup {"index"}}
         /\ kind = "archive" => PartsOf(Effect(step, m)) \subseteq PartsOf(m)
<1>1. CASE kind = "provision"
  <2>1. CASE step \in {"load", "credentials", "database", "filesystem"}
    BY <1>1, <2>1 DEF Effect, Machine, PartsOf
  <2>2. CASE step \in {"runtime", "routing", "complete"}
    BY <1>1, <2>2 DEF Effect, Machine, PartsOf
  <2> QED
    BY <1>1, <2>1, <2>2 DEF StepsOf
<1>2. CASE kind = "activate"
  <2>1. CASE step \in {"load", "complete"}
    BY <1>2, <2>1 DEF Effect, Machine, PartsOf
  <2>2. CASE step = "search"
    <3>1. PartsOf([m EXCEPT !.index = TRUE]) = PartsOf(m) \cup {"index"}
      BY DEF Machine, PartsOf
    <3> QED
      BY <1>2, <2>2, <3>1 DEF Effect
  <2> QED
    BY <1>2, <2>1, <2>2 DEF StepsOf
<1>3. CASE kind = "archive"
  <2>1. CASE step \in {"load", "complete", "stop"}
    BY <1>3, <2>1 DEF Effect, Machine, PartsOf
  <2>2. CASE step \in {"unroute", "clean", "archiveFiles"}
    BY <1>3, <2>2 DEF Effect, Machine, PartsOf
  <2> QED
    BY <1>3, <2>1, <2>2 DEF StepsOf
<1> QED
  BY <1>1, <1>2, <1>3 DEF Kind

\* A cleanup only takes parts away, also when a step of it is cut short.
LEMMA ArchiveTouches ==
  ASSUME TypeOK, OwnSteps, WorkerStep, work.kind = "archive"
  PROVE  PartsOf(vm'[work.store]) \subseteq PartsOf(vm[work.store])
<1> DEFINE m == vm[work.store]
<1>1. /\ work # Idle /\ work.store \in Store /\ work.kind \in Kind
      /\ work.step \in StepsOf(work.kind)
      /\ vm \in [Store -> Machine] /\ m \in Machine
  BY DEF WorkerStep, BeginStep, StopWithoutLease, FinishStep,
     StepRefused, StepLosesLease, StepFails, CallDelayed, Crash, Heartbeat,
     HeartbeatRefused, HeartbeatLost, TypeOK, Work, OwnSteps
<1>2. PartsOf(Effect(work.step, m)) \subseteq PartsOf(m)
  BY <1>1, EffectParts
<1>3. PartsOf([m EXCEPT !.files = "archived"]) \subseteq PartsOf(m)
  BY <1>1 DEF Machine, PartsOf
<1>4. CASE UNCHANGED vm
  BY <1>4
<1>5. CASE FinishStep
  BY <1>1, <1>2, <1>5 DEF FinishStep
<1>6. CASE CutShort
  <2>1. PICK n \in Partial(work.store, work.step) :
          vm' = [vm EXCEPT ![work.store] = n]
    BY <1>6 DEF CutShort
  <2>2. n \in {m, Effect(work.step, m), [m EXCEPT !.files = "archived"]}
    BY <2>1 DEF Partial
  <2> QED
    BY <1>1, <1>2, <1>3, <2>1, <2>2
<1> QED
  BY <1>4, <1>5, <1>6 DEF WorkerStep, BeginStep, StopWithoutLease, StepRefused,
     StepLosesLease, StepFails, CallDelayed, Crash, Heartbeat, HeartbeatRefused,
     HeartbeatLost

\* A step that changes neither what billing and the row say nor what is delivered
\* nor any part of a machine.
LEMMA LifeStutters ==
  ASSUME UNCHANGED <<tenant, standing>>,
         \A x \in Store : job'[x].ready = job[x].ready /\ PartsOf(vm'[x]) = PartsOf(vm[x])
  PROVE  UNCHANGED Life!lifeVars
BY DEF Life!lifeVars

\* What owners, administrators and billing do is a step of StoreLife.
LEMMA LifePlatform ==
  ASSUME LeaseInv, ServiceInv, LifeInv, NEW s \in Store,
         \/ CreateStore(s) \/ ActivateStoreSearch(s) \/ RequestStoreCleanup(s)
         \/ RetryStoreProvisioning(s) \/ ChangeStanding(s)
  PROVE  [Life!Next]_(Life!lifeVars)
<1>1. TypeOK /\ NotYetCreated
  BY DEF LeaseInv
<1>2. vm' = vm
  BY DEF CreateStore, ActivateStoreSearch, RequestStoreCleanup,
         RetryStoreProvisioning, ChangeStanding
<1>3. \A x \in Store : job'[x].ready = job[x].ready
  BY <1>1, PlatformRow DEF SameJob, Administered
<1>4. UNCHANGED Life!machineVars
  BY <1>2, <1>3 DEF Life!machineVars
<1>a. CASE CreateStore(s)
  BY <1>4, <1>a DEF CreateStore, Life!Next, Life!Open, Life!Contract!Open
<1>b. CASE RequestStoreCleanup(s)
  <2>1. tenant[s] = "open"
    BY <1>1, <1>b DEF RequestStoreCleanup, LifeInv, TypeOK
  <2> QED
    BY <1>4, <1>b, <2>1
       DEF RequestStoreCleanup, Life!Next, Life!RequestCleanup, Life!Contract!RequestCleanup
<1>c. CASE ChangeStanding(s)
  <2>1. standing' \in [Store -> {"paid", "suspended", "due"}]
    BY <1>1, <1>c DEF ChangeStanding, TypeOK
  <2>2. \A x \in Store : Life!Contract!Turns(x)
    BY <1>1, <1>c DEF ChangeStanding, TypeOK, Life!Contract!Turns
  <2> QED
    BY <1>4, <1>c, <2>1, <2>2 DEF ChangeStanding, Life!Next, Life!Settle, Life!Contract!Settle
<1>d. CASE UNCHANGED <<tenant, standing>>
  BY <1>2, <1>3, <1>d, LifeStutters
<1> QED
  BY <1>a, <1>b, <1>c, <1>d DEF ActivateStoreSearch, RetryStoreProvisioning

\* A step of a run, finished or cut short, grows or clears its own store.
LEMMA LifeWorker ==
  ASSUME LeaseInv, CleanInv, ServiceInv, LifeInv, WorkerStep
  PROVE  [Life!Next]_(Life!lifeVars)
<1> DEFINE s == work.store
           m == vm[work.store]
           n == vm'[work.store]
<1>1. /\ TypeOK /\ OwnSteps /\ work \in Work /\ work # Idle
      /\ s \in Store /\ work.kind \in Kind /\ work.step \in StepsOf(work.kind)
      /\ vm \in [Store -> Machine] /\ m \in Machine
      /\ \A x \in Store : x # s => vm'[x] = vm[x]
  BY WorkerTouches DEF LeaseInv, CleanInv, TypeOK, Work, OwnSteps
<1>2. /\ UNCHANGED <<tenant, standing>>
      /\ tenant[s] \in {"open", "closing", "closed"}
  BY <1>1 DEF WorkerStep, BeginStep, StopWithoutLease, FinishStep, StepRefused,
     StepLosesLease, StepFails, CallDelayed, Crash, Heartbeat, HeartbeatRefused,
     HeartbeatLost, LifeInv, TypeOK
<1>3. \A x \in Store : job'[x].ready = job[x].ready
  BY <1>1, WorkerRow DEF SameJob
<1>4. PartsOf(n) \subseteq Life!Part
  BY PartsOfMachine
<1>5. CASE PartsOf(n) = PartsOf(m)
  BY <1>1, <1>2, <1>3, <1>5, LifeStutters
<1>6. [x \in Store |-> PartsOf(vm[x])]'
        = [[x \in Store |-> PartsOf(vm[x])] EXCEPT ![s] = PartsOf(n)]
  BY <1>1
<1>7. UNCHANGED <<tenant, standing, {x \in Store : job[x].ready}>>
  BY <1>2, <1>3
<1>8. ASSUME NEW more \in SUBSET Life!Part, PartsOf(n) = PartsOf(m) \cup more,
             tenant[s] = "open" \/ (tenant[s] = "closing" /\ more = {"index"})
      PROVE  Life!Next
  <2>1. Life!Grow(s, more)
    BY <1>1, <1>6, <1>7, <1>8 DEF Life!Grow
  <2> QED
    BY <1>1, <2>1 DEF Life!Next
<1>9. ASSUME NEW less \in SUBSET Life!Part, PartsOf(n) = PartsOf(m) \ less,
             tenant[s] = "closing"
      PROVE  Life!Next
  <2>1. Life!Clear(s, less)
    BY <1>1, <1>6, <1>7, <1>9 DEF Life!Clear
  <2> QED
    BY <1>1, <2>1 DEF Life!Next
<1>a. CASE work.kind = "provision"
  <2>1. tenant[s] = "open"
    BY <1>1, <1>2, <1>a DEF ServiceInv, ProvisionProgress, LifeInv
  <2>2. PartsOf(m) \subseteq PartsOf(n)
    BY <1>1, <1>a, EffectParts, WorkerTouches
  <2> QED
    BY <1>4, <1>8, <2>1, <2>2
<1>b. CASE work.kind = "activate"
  <2>1. tenant[s] \in {"open", "closing"}
    BY <1>1, <1>2, <1>b DEF CleanInv, ArchivesAlone
  <2>2. PartsOf(n) \in {PartsOf(m), PartsOf(m) \cup {"index"}}
    BY <1>1, <1>b, EffectParts, WorkerTouches
  <2>3. {"index"} \in SUBSET Life!Part
    BY DEF Life!Part
  <2> QED
    BY <1>5, <1>8, <2>1, <2>2, <2>3
<1>c. CASE work.kind = "archive"
  <2>1. tenant[s] \in {"closing", "closed"}
    BY <1>1, <1>c DEF CleanInv, ArchiveProgress, ServiceInv, ArchiveIsConfirmed
  <2>2. CASE tenant[s] = "closed"
    <3>1. Cleaned(m)
      BY <1>1, <2>2 DEF CleanInv, ClosedIsClean
    <3>2. Cleaned(n)
      BY <1>1, <1>c, <3>1, WorkerMachine
    <3> QED
      BY <1>5, <3>1, <3>2, PartsOfMachine
  <2>3. CASE tenant[s] = "closing"
    <3>1. PartsOf(n) \subseteq PartsOf(m)
      BY <1>1, <1>c, ArchiveTouches
    <3>2. /\ PartsOf(m) \ PartsOf(n) \in SUBSET Life!Part
          /\ PartsOf(n) = PartsOf(m) \ (PartsOf(m) \ PartsOf(n))
      BY <3>1, PartsOfMachine
    <3> QED
      BY <1>9, <2>3, <3>2
  <2> QED
    BY <2>1, <2>2, <2>3
<1> QED
  BY <1>1, <1>a, <1>b, <1>c DEF Kind

\* A completed job delivers its store or closes it.
LEMMA LifeFinishes ==
  ASSUME LeaseInv, CleanInv, ServiceInv, LifeInv, TypeOK', CleanInv', NEW s \in Store,
         Leased(s, job[s].kind, job[s].token), RowCleaned(s) \/ RowReady(s),
         \A x \in Store : x # s => job'[x] = job[x],
         \/ tenant' = tenant
         \/ tenant' = [tenant EXCEPT ![s] = "closed"],
         UNCHANGED <<standing, vm>>
  PROVE  [Life!Next]_(Life!lifeVars)
<1>1. /\ TypeOK /\ tenant[s] # "none"
      /\ job[s].status = "provisioning"
  BY DEF LeaseInv, NotYetCreated, Leased
<1>2. UNCHANGED [x \in Store |-> PartsOf(vm[x])]
  OBVIOUS
<1>a. CASE RowCleaned(s)
  <2>1. tenant'[s] = "closed" /\ tenant' = [tenant EXCEPT ![s] = "closed"]
    BY <1>1, <1>a DEF RowCleaned, TypeOK
  <2>2. tenant[s] = "closing"
    BY <1>1, <1>a DEF RowCleaned, ServiceInv, ArchiveIsConfirmed, CleanInv, ClosedIsClean
  <2>3. PartsOf(vm[s]) = {}
    BY <2>1, PartsOfMachine DEF CleanInv, ClosedIsClean
  <2>4. UNCHANGED {x \in Store : job[x].ready}
    BY <1>a DEF RowCleaned, SameJob
  <2>a. Life!Close(s)
    BY <1>2, <2>1, <2>2, <2>3, <2>4 DEF Life!Close, Life!Contract!Close, Life!machineVars
  <2> QED
    BY <2>a DEF Life!Next
<1>b. CASE RowReady(s)
  <2>1. tenant' = tenant
    BY <1>1, <1>b DEF RowReady, TypeOK
  <2>2. CASE job[s].ready
    <3>1. job[s].ready \in BOOLEAN /\ job'[s].ready \in BOOLEAN
      BY <1>1 DEF TypeOK, Job
    <3>2. \A x \in Store : job'[x].ready = job[x].ready
      BY <1>b, <2>2, <3>1 DEF RowReady
    <3> QED
      BY <2>1, <3>2, LifeStutters
  <2>3. CASE ~job[s].ready
    <3>1. tenant[s] = "open"
      BY <1>1, <2>3 DEF LifeInv, TypeOK
    <3>2. Life!Serves \subseteq PartsOf(vm[s])
      BY <1>b, PartsOfMachine DEF RowReady
    <3>3. {x \in Store : job'[x].ready} = {x \in Store : job[x].ready} \cup {s}
      BY <1>b DEF RowReady
    <3>4. Life!Deliver(s)
      BY <1>2, <2>1, <3>1, <3>2, <3>3 DEF Life!Deliver
    <3> QED
      BY <3>4 DEF Life!Next
  <2> QED
    BY <2>2, <2>3
<1> QED
  BY <1>a, <1>b

\* An acknowledgement is taken: the row shows that it is.
LEMMA FinishedHow ==
  ASSUME TypeOK, NEW s \in Store, NEW kind \in Kind, NEW k, Leased(s, kind, k),
         FinishJob(s, kind), RowStep(s)
  PROVE  (RowCleaned(s) \/ RowReady(s)) /\ job' # job
<1>1. /\ job \in [Store -> Job] /\ job[s] \in Job
      /\ tenant \in [Store -> {"none", "open", "closing", "closed"}]
      /\ job[s].status = "provisioning" /\ job[s].kind = kind
  BY DEF TypeOK, Leased
<1>2. CASE kind = "archive"
  <2>1. /\ job'[s] = [NoLease(job[s], "archived") EXCEPT !.creds = FALSE]
        /\ tenant'[s] = "closed"
    BY <1>1, <1>2 DEF FinishJob
  <2>2. RowCleaned(s)
    BY <1>1, <1>2, <2>1 DEF RowCleaned, NoLease, SameJob, Job
  <2> QED
    BY <1>1, <2>2 DEF RowCleaned
<1>3. CASE kind # "archive"
  <2>1. job'[s] = [NoLease(job[s], "ready") EXCEPT !.ready = TRUE]
    BY <1>1, <1>3 DEF FinishJob
  <2>2. job'[s].status = "ready"
    BY <1>1, <2>1 DEF NoLease, Job
  <2> QED
    BY <1>1, <2>2 DEF RowStep, RowKept, RowCleaned, RowAdministered, Administered
<1> QED
  BY <1>2, <1>3

\* Every step is a step of StoreLife or changes nothing of it.
LEMMA LifeStep ==
  ASSUME LeaseInv, CleanInv, ServiceInv, LifeInv, [Next]_vars, LeaseInv', CleanInv'
  PROVE  [Life!Next]_(Life!lifeVars)
<1>1. TypeOK /\ TypeOK'
  BY DEF LeaseInv
<1>2. CASE UNCHANGED vars
  BY <1>2 DEF vars, Life!lifeVars
<1>3. ASSUME NEW s \in Store,
             \/ CreateStore(s) \/ ActivateStoreSearch(s) \/ RequestStoreCleanup(s)
             \/ RetryStoreProvisioning(s) \/ ChangeStanding(s)
      PROVE  [Life!Next]_(Life!lifeVars)
  BY <1>3, LifePlatform
<1>4. ASSUME UNCHANGED <<tenant, standing, vm>>,
             \A x \in Store : job'[x].ready = job[x].ready
      PROVE  [Life!Next]_(Life!lifeVars)
  BY <1>4, LifeStutters
<1>5. ASSUME NEW s \in Store, ClaimOf(s) \/ ClaimLostOf(s)
      PROVE  [Life!Next]_(Life!lifeVars)
  <2>1. PICK refused \in SUBSET Unpayable, k \in Token :
          Lend(s, refused, k) /\ UNCHANGED <<tenant, standing, vm>>
    BY <1>5 DEF ClaimOf, ClaimLostOf, Claim, ClaimLost
  <2> QED
    BY <1>1, <1>4, <2>1, LendRow DEF SameJob
<1>6. CASE ClaimNothing
  <2>1. \A x \in Store : job'[x].ready = job[x].ready
    <3>1. ASSUME NEW x \in Store PROVE job'[x].ready = job[x].ready
      BY <1>1, <1>6, ClaimNothingRowStep DEF RowKept, SameJob
    <3> QED
      BY <3>1
  <2> QED
    BY <1>4, <1>6, <2>1 DEF ClaimNothing
<1>7. CASE WorkerStep
  BY <1>7, LifeWorker
<1>8. CASE Complete
  <2>1. /\ work \in Work /\ work # Idle /\ work.store \in Store
        /\ Leased(work.store, work.kind, work.token)
        /\ FinishJob(work.store, work.kind) /\ UNCHANGED <<standing, vm>>
    BY <1>1, <1>8 DEF TypeOK, Work, Complete, MayDo
  <2>2. RowCleaned(work.store) \/ RowReady(work.store)
    <3>1. RowStep(work.store) /\ work.kind \in Kind
      BY <1>8, <2>1, CompleteRowStep DEF Work
    <3> QED
      BY <1>1, <2>1, <3>1, FinishedHow
  <2>3. \A x \in Store : x # work.store => job'[x] = job[x]
    BY <1>1, <2>1 DEF FinishJob, TypeOK
  <2>4. tenant' = tenant \/ tenant' = [tenant EXCEPT ![work.store] = "closed"]
    BY <2>1 DEF FinishJob
  <2> QED
    BY <1>1, <2>1, <2>2, <2>3, <2>4, LifeFinishes DEF Leased
<1>9. ASSUME NEW r \in late, Arrive(r)
      PROVE  [Life!Next]_(Life!lifeVars)
  <2>1. r.store \in Store /\ r.kind \in Kind /\ UNCHANGED <<standing, vm>>
    BY <1>1, <1>9, LateTokens DEF Arrive
  <2>a. ASSUME Leased(r.store, r.kind, r.token), FinishJob(r.store, r.kind)
        PROVE  (RowCleaned(r.store) \/ RowReady(r.store)) /\ job' # job
    <3>1. RowStep(r.store)
      BY <1>9, <2>1, ArriveRowStep
    <3> QED
      BY <1>1, <2>1, <2>a, <3>1, FinishedHow
  <2>2. CASE r.op = "complete" /\ job' # job
    <3>1. Leased(r.store, r.kind, r.token) /\ FinishJob(r.store, r.kind)
      BY <1>9, <2>2 DEF Arrive
    <3>2. RowCleaned(r.store) \/ RowReady(r.store)
      BY <2>a, <3>1
    <3>3. \A x \in Store : x # r.store => job'[x] = job[x]
      BY <1>1, <3>1 DEF FinishJob, TypeOK
    <3>4. tenant' = tenant \/ tenant' = [tenant EXCEPT ![r.store] = "closed"]
      BY <3>1 DEF FinishJob
    <3> QED
      BY <1>1, <2>1, <3>1, <3>2, <3>3, <3>4, LifeFinishes DEF Leased
  <2>3. CASE job' = job
    <3>1. tenant' = tenant
      BY <1>9, <2>1, <2>3, <2>a DEF Arrive
    <3> QED
      BY <1>4, <2>1, <2>3, <3>1
  <2>4. CASE r.op # "complete"
    <3>1. \A x \in Store : job'[x].ready = job[x].ready
      BY <1>1, <1>9, <2>4, ArriveRow DEF SameJob
    <3>2. tenant' = tenant
      BY <1>9, <2>4 DEF Arrive
    <3> QED
      BY <1>4, <2>1, <3>1, <3>2
  <2> QED
    BY <2>2, <2>3, <2>4
<1>10. CASE Tick \/ TickUnrenewed
  <2>1. TimePasses
    BY <1>10 DEF Tick, TickUnrenewed
  <2> QED
    BY <1>1, <1>4, <2>1, TimeRow DEF TimePasses, SameJob
<1> QED
  BY <1>2, <1>3, <1>5, <1>6, <1>7, <1>8, <1>9, <1>10 DEF Next, WorkerStep

\* Set-up, activation and cleanup implement StoreLife, for any stores, lease and
\* losses: a delivered store keeps all that it needs to serve until its cleanup
\* was requested, and a store is closed only when nothing of it is left.
THEOREM StoresLiveByContract == Spec => LifeKept
<1>1. Init => Life!Init
  BY DEF Init, Life!Init, Life!Contract!Init, PartsOf, NoJob, NoMachine
<1>2. LeaseInv /\ CleanInv /\ ServiceInv /\ LifeInv /\ [Next]_vars => LifeInv'
  BY LifeNext
<1>3. /\ LeaseInv /\ CleanInv /\ ServiceInv /\ LifeInv /\ [Next]_vars
      /\ LeaseInv' /\ CleanInv'
      => [Life!Next]_(Life!lifeVars)
  BY LifeStep
<1> QED
  BY <1>1, <1>2, <1>3, LifeInit, ServiceInvariant, PTL DEF Spec, LifeKept, Life!Spec
=============================================================================
