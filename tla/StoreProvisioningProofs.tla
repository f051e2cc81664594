----------------------- MODULE StoreProvisioningProofs -----------------------
(***************************************************************************)
(* Theorems of StoreProvisioning for every number of stores, every lease   *)
(* length and every bound on faults, checked by TLAPS.                     *)
(***************************************************************************)
EXTENDS StoreProvisioning, FiniteSetTheorems, TLAPS

-----------------------------------------------------------------------------
(* What the helpers return *)

LEMMA IdleIsNoWork == Idle \notin Work
  BY DEF Idle, Work, Kind

LEMMA LessType == \A n \in Nat : Less(n) \in Nat /\ Less(n) <= n
  BY DEF Less

LEMMA NoLeaseType ==
  ASSUME NEW row \in Job,
         NEW status \in {"none", "queued", "provisioning", "retry", "ready",
                         "failed", "archived"}
  PROVE  NoLease(row, status) \in Job
  BY DEF NoLease, Job

LEMMA FailJobType ==
  ASSUME NEW rows \in [Store -> Job], NEW s \in Store, NEW retryable \in BOOLEAN
  PROVE  FailJob(rows, s, retryable) \in [Store -> Job]
<1> DEFINE row == NoLease(rows[s], IF retryable THEN "retry" ELSE "failed")
<1>1. row \in Job
  BY NoLeaseType
<1>2. [row EXCEPT !.next = 1] \in Job
  BY <1>1 DEF Job
<1> QED
  BY <1>2 DEF FailJob

LEMMA RegisterType ==
  ASSUME NEW rows \in [Store -> Job], NEW s \in Store
  PROVE  Register(rows, s) \in [Store -> Job]
  BY DEF Register, Job

LEMMA EffectType ==
  ASSUME NEW step \in StepName, NEW m \in Machine
  PROVE  Effect(step, m) \in Machine
<1>1. /\ [m EXCEPT !.state = TRUE] \in Machine
      /\ [m EXCEPT !.db = "live"] \in Machine
      /\ [m EXCEPT !.files = "live"] \in Machine
      /\ [m EXCEPT !.running = TRUE] \in Machine
      /\ [m EXCEPT !.routed = TRUE] \in Machine
      /\ [m EXCEPT !.index = TRUE] \in Machine
  BY DEF Machine
<1>2. /\ [m EXCEPT !.running = FALSE] \in Machine
      /\ [m EXCEPT !.routed = FALSE] \in Machine
      /\ [m EXCEPT !.db = "cleared", !.index = FALSE] \in Machine
      /\ [m EXCEPT !.files = "archived", !.archived = TRUE] \in Machine
  BY DEF Machine
<1> QED
  BY <1>1, <1>2 DEF Effect, StepName

LEMMA StepAfterType ==
  ASSUME NEW kind \in Kind, NEW step \in StepName \ {"complete"}
  PROVE  StepAfter(kind, step) \in StepName
  BY DEF StepAfter, FirstStep, FollowingStep, Kind, StepName

LEMMA RequestType ==
  ASSUME work \in Work, NEW retryable \in BOOLEAN,
         NEW op \in {"credentials", "heartbeat", "complete", "fail"}
  PROVE  RequestOf(op, retryable) \in Request
  BY DEF RequestOf, Work, Request

LEMMA ClaimRowType ==
  ASSUME TypeOK, NEW s \in Store, NEW refused \in SUBSET Unpayable, NEW k \in Token
  PROVE  ClaimRow(s, refused, k) \in [Store -> Job]
<1> SUFFICES ASSUME NEW x \in Store
             PROVE  ClaimRow(s, refused, k)[x] \in Job
  BY DEF ClaimRow
<1>1. job[x] \in Job
  BY DEF TypeOK
<1>2. NoLease(job[x], "failed") \in Job
  BY <1>1, NoLeaseType
<1>3. [job[x] EXCEPT !.status = "provisioning", !.token = k, !.left = Lease] \in Job
  BY <1>1, NumberAssumption DEF Job
<1> QED
  BY <1>1, <1>2, <1>3 DEF ClaimRow

LEMMA CutShortType ==
  ASSUME TypeOK, work # Idle, CutShort
  PROVE  vm' \in [Store -> Machine]
<1>1. work \in Work /\ work.store \in Store /\ work.step \in StepName
  BY DEF TypeOK, Work
<1>2. vm[work.store] \in Machine
  BY <1>1 DEF TypeOK
<1>3. Effect(work.step, vm[work.store]) \in Machine
  BY <1>1, <1>2, EffectType
<1>4. [vm[work.store] EXCEPT !.files = "archived"] \in Machine
  BY <1>2 DEF Machine
<1>5. \A m \in Partial(work.store, work.step) : m \in Machine
  BY <1>2, <1>3, <1>4 DEF Partial
<1> QED
  BY <1>1, <1>5 DEF CutShort, TypeOK

LEMMA GiveUpType ==
  ASSUME TypeOK, work # Idle, NEW rows \in [Store -> Job],
         NEW retryable \in BOOLEAN, NEW n \in Nat, GiveUp(rows, retryable, n)
  PROVE  /\ job' \in [Store -> Job]
         /\ work' = Idle
         /\ late' \subseteq Request
         /\ faults' \in Nat
<1>1. work \in Work /\ work.store \in Store
  BY DEF TypeOK, Work
<1>2. FailJob(rows, work.store, retryable) \in [Store -> Job]
  BY <1>1, FailJobType
<1>3. RequestOf("fail", retryable) \in Request
  BY <1>1, RequestType
<1> QED
  BY <1>2, <1>3, NumberAssumption DEF GiveUp, TypeOK

LEMMA FinishJobType ==
  ASSUME TypeOK, NEW s \in Store, NEW kind \in Kind, FinishJob(s, kind)
  PROVE  /\ job' \in [Store -> Job]
         /\ tenant' \in [Store -> {"none", "open", "closing", "closed"}]
<1>1. job[s] \in Job
  BY DEF TypeOK
<1>2. NoLease(job[s], "archived") \in Job /\ NoLease(job[s], "ready") \in Job
  BY <1>1, NoLeaseType
<1>3. /\ [NoLease(job[s], "archived") EXCEPT !.creds = FALSE] \in Job
      /\ [NoLease(job[s], "ready") EXCEPT !.ready = TRUE] \in Job
  BY <1>2 DEF Job
<1> QED
  BY <1>3 DEF FinishJob, TypeOK

-----------------------------------------------------------------------------
(* Type correctness *)

LEMMA TypeInit == Init => TypeOK
  BY DEF Init, TypeOK, NoJob, NoMachine, Job, Machine, Kind

LEMMA TypePlatform ==
  ASSUME TypeOK, NEW s \in Store,
         \/ CreateStore(s) \/ ClaimOf(s) \/ ClaimLostOf(s)
         \/ ActivateStoreSearch(s) \/ RequestStoreCleanup(s)
         \/ RetryStoreProvisioning(s) \/ ChangeStanding(s)
  PROVE  TypeOK'
<1>1. job[s] \in Job
  BY DEF TypeOK
<1>2. NoLease(job[s], "queued") \in Job
  BY <1>1, NoLeaseType
<1>a. CASE CreateStore(s)
  <2>1. [job[s] EXCEPT !.status = "queued"] \in Job
    BY <1>1 DEF Job
  <2> QED
    BY <1>a, <2>1 DEF CreateStore, TypeOK
<1>b. CASE ClaimOf(s)
  <2>1. PICK refused \in SUBSET Unpayable, k \in Token : Claim(s, refused, k)
    BY <1>b DEF ClaimOf
  <2>2. job' \in [Store -> Job]
    BY <2>1, ClaimRowType DEF Claim, Lend
  <2>3. work' \in Work
    BY <2>1, <1>1, NumberAssumption DEF Claim, Work, Job, StepName
  <2> QED
    BY <2>1, <2>2, <2>3 DEF Claim, TypeOK
<1>c. CASE ClaimLostOf(s)
  <2>1. PICK refused \in SUBSET Unpayable, k \in Token : ClaimLost(s, refused, k)
    BY <1>c DEF ClaimLostOf
  <2>2. job' \in [Store -> Job]
    BY <2>1, ClaimRowType DEF ClaimLost, Lend
  <2> QED
    BY <2>1, <2>2 DEF ClaimLost, Fault, TypeOK
<1>d. CASE ActivateStoreSearch(s)
  <2>1. [NoLease(job[s], "queued") EXCEPT !.kind = "activate", !.next = 0] \in Job
    BY <1>2 DEF Job, Kind
  <2> QED
    BY <1>d, <2>1 DEF ActivateStoreSearch, TypeOK
<1>e. CASE RequestStoreCleanup(s)
  <2>1. [NoLease(job[s], "queued") EXCEPT !.kind = "archive", !.next = 0,
                                          !.cleanup = TRUE] \in Job
    BY <1>2 DEF Job, Kind
  <2> QED
    BY <1>e, <2>1 DEF RequestStoreCleanup, TypeOK
<1>f. CASE RetryStoreProvisioning(s)
  <2>1. [NoLease(job[s], "queued") EXCEPT !.next = 0] \in Job
    BY <1>2 DEF Job
  <2> QED
    BY <1>f, <2>1 DEF RetryStoreProvisioning, TypeOK
<1>g. CASE ChangeStanding(s)
  BY <1>g DEF ChangeStanding, TypeOK
<1> QED
  BY <1>a, <1>b, <1>c, <1>d, <1>e, <1>f, <1>g

LEMMA TypeClaimNothing ==
  ASSUME TypeOK, ClaimNothing
  PROVE  TypeOK'
<1>1. \A x \in Store : job[x] \in Job /\ NoLease(job[x], "failed") \in Job
  BY NoLeaseType DEF TypeOK
<1> QED
  BY <1>1 DEF ClaimNothing, TypeOK

LEMMA TypeSteps ==
  ASSUME TypeOK,
         \/ BeginStep \/ StopWithoutLease \/ FinishStep \/ StepRefused
         \/ StepLosesLease
         \/ \E retryable \in BOOLEAN : StepFails(retryable)
  PROVE  TypeOK'
<1>1. work # Idle => work \in Work /\ work.store \in Store /\ work.kind \in Kind
                                  /\ work.step \in StepName
  BY DEF TypeOK, Work
<1>2. job \in [Store -> Job]
  BY DEF TypeOK
<1>a. CASE BeginStep
  <2>1. [work EXCEPT !.busy = TRUE] \in Work
    BY <1>a, <1>1 DEF BeginStep, Work
  <2> QED
    BY <1>a, <2>1 DEF BeginStep, TypeOK
<1>b. CASE StopWithoutLease
  BY <1>b, <1>2, GiveUpType DEF StopWithoutLease, TypeOK
<1>c. CASE FinishStep
  <2>1. work \in Work /\ work.step \in StepName \ {"complete"}
    BY <1>c, <1>1 DEF FinishStep
  <2>2. StepAfter(work.kind, work.step) \in StepName
    BY <2>1, <1>1, <1>c, StepAfterType DEF FinishStep
  <2>3. [work EXCEPT !.step = StepAfter(work.kind, work.step), !.busy = FALSE] \in Work
    BY <2>1, <2>2 DEF Work
  <2>4. Register(job, work.store) \in [Store -> Job]
    BY <1>1, <1>2, <1>c, RegisterType DEF FinishStep
  <2>5. Effect(work.step, vm[work.store]) \in Machine
    BY <1>1, <1>c, EffectType DEF FinishStep, TypeOK
  <2> QED
    BY <1>1, <1>2, <1>c, <2>3, <2>4, <2>5 DEF FinishStep, TypeOK
<1>d. CASE StepRefused
  <2>1. (work.step # "load") \in BOOLEAN
    OBVIOUS
  <2> QED
    BY <1>d, <1>2, <2>1, GiveUpType DEF StepRefused, TypeOK
<1>e. CASE StepLosesLease
  BY <1>e, <1>2, GiveUpType, CutShortType DEF StepLosesLease, TypeOK
<1>f. CASE \E retryable \in BOOLEAN : StepFails(retryable)
  <2>1. PICK retryable \in BOOLEAN : StepFails(retryable)
    BY <1>f
  <2>2. vm' \in [Store -> Machine]
    BY <2>1, CutShortType DEF StepFails
  <2>3. CASE GiveUp(job, retryable, 1)
    BY <2>1, <2>2, <2>3, <1>2, GiveUpType DEF StepFails, TypeOK
  <2>4. CASE GiveUp(Register(job, work.store), retryable, 1)
    <3>1. Register(job, work.store) \in [Store -> Job]
      BY <2>1, <1>1, <1>2, RegisterType DEF StepFails
    <3> QED
      BY <2>1, <2>2, <2>4, <3>1, GiveUpType DEF StepFails, TypeOK
  <2> QED
    BY <2>1, <2>3, <2>4 DEF StepFails
<1> QED
  BY <1>a, <1>b, <1>c, <1>d, <1>e, <1>f

LEMMA TypeEnds ==
  ASSUME TypeOK,
         \/ Complete \/ CallDelayed \/ Crash
         \/ Heartbeat \/ HeartbeatRefused \/ HeartbeatLost
  PROVE  TypeOK'
<1>1. work \in Work /\ work.store \in Store /\ work.kind \in Kind
  BY DEF TypeOK, Work, Complete, CallDelayed, Crash, Heartbeat, HeartbeatRefused,
         HeartbeatLost
<1>2. [job EXCEPT ![work.store].left = Lease] \in [Store -> Job]
  BY <1>1, NumberAssumption DEF TypeOK, Job
<1>3. [work EXCEPT !.lost = TRUE] \in Work
  BY <1>1 DEF Work
<1>a. CASE Complete
  BY <1>1, <1>a, FinishJobType DEF Complete, TypeOK
<1>b. CASE CallDelayed
  <2>1. RequestOf(work.step, FALSE) \in Request
    BY <1>1, <1>b, RequestType DEF CallDelayed
  <2>2. FailJob(job, work.store, TRUE) \in [Store -> Job]
    BY <1>1, FailJobType DEF TypeOK
  <2>3. late' \subseteq Request
    BY <1>b, <2>1 DEF CallDelayed, TypeOK
  <2>4. faults' \in Nat
    BY <1>b DEF CallDelayed, Fault, TypeOK
  <2> QED
    BY <1>b, <2>2, <2>3, <2>4 DEF CallDelayed, TypeOK
<1>c. CASE Crash
  <2>1. vm' \in [Store -> Machine]
    BY <1>c, CutShortType DEF Crash, TypeOK
  <2> QED
    BY <1>c, <2>1 DEF Crash, Fault, TypeOK
<1>d. CASE Heartbeat
  <2>1. [work EXCEPT !.left = Lease] \in Work
    BY <1>1, NumberAssumption DEF Work
  <2> QED
    BY <1>d, <1>2, <2>1 DEF Heartbeat, TypeOK
<1>e. CASE HeartbeatRefused
  BY <1>e, <1>3 DEF HeartbeatRefused, TypeOK
<1>f. CASE HeartbeatLost
  <2>1. RequestOf("heartbeat", FALSE) \in Request
    BY <1>1, RequestType
  <2>2. late' \subseteq Request
    BY <1>f, <2>1 DEF HeartbeatLost, TypeOK
  <2>3. faults' \in Nat
    BY <1>f DEF HeartbeatLost, Fault, TypeOK
  <2>4. job' \in [Store -> Job]
    BY <1>f, <1>2 DEF HeartbeatLost, TypeOK
  <2> QED
    BY <1>f, <1>3, <2>2, <2>3, <2>4 DEF HeartbeatLost, TypeOK
<1> QED
  BY <1>a, <1>b, <1>c, <1>d, <1>e, <1>f

LEMMA TypeArrive ==
  ASSUME TypeOK, NEW r \in late, Arrive(r)
  PROVE  TypeOK'
<1>1. /\ r.store \in Store /\ r.kind \in Kind /\ r.retryable \in BOOLEAN
      /\ job \in [Store -> Job]
  BY DEF TypeOK, Request
<1>2. [job EXCEPT ![r.store].left = Lease] \in [Store -> Job]
  BY <1>1, NumberAssumption DEF Job
<1>3. /\ FailJob(job, r.store, r.retryable) \in [Store -> Job]
      /\ Register(job, r.store) \in [Store -> Job]
  BY <1>1, FailJobType, RegisterType
<1>4. CASE FinishJob(r.store, r.kind)
  BY <1>1, <1>4, FinishJobType DEF Arrive, TypeOK
<1> QED
  BY <1>2, <1>3, <1>4 DEF Arrive, TypeOK

LEMMA TypeTime ==
  ASSUME TypeOK, Tick \/ TickUnrenewed
  PROVE  TypeOK'
<1>1. TimePasses /\ faults' \in Nat
  BY DEF Tick, TickUnrenewed, Fault, TypeOK
<1>2. ASSUME NEW s \in Store
      PROVE  [job[s] EXCEPT !.left = Less(@), !.next = Less(@)] \in Job
  BY LessType DEF TypeOK, Job
<1>3. work # Idle => [work EXCEPT !.left = Less(@)] \in Work
  BY LessType DEF TypeOK, Work
<1> QED
  BY <1>1, <1>2, <1>3 DEF TimePasses, TypeOK

\* Every variable keeps its type: the timers never run below zero, and no call,
\* however late, leaves a row, a store or a machine in a state of no meaning.
THEOREM TypeCorrect == Spec => []TypeOK
<1>1. TypeOK /\ [Next]_vars => TypeOK'
  <2> SUFFICES ASSUME TypeOK, [Next]_vars PROVE TypeOK'
    OBVIOUS
  <2>1. CASE UNCHANGED vars
    BY <2>1 DEF vars, TypeOK
  <2>2. CASE Next
    BY <2>2, TypePlatform, TypeClaimNothing, TypeSteps, TypeEnds, TypeArrive,
       TypeTime DEF Next
  <2> QED
    BY <2>1, <2>2
<1> QED
  BY <1>1, TypeInit, PTL DEF Spec

-----------------------------------------------------------------------------
(* What a step of the worker does to the rows: it leaves every row as it was, *)
(* but for the registration, unless its lease on that row is current.         *)

SameJob(s) ==
  /\ job'[s].kind = job[s].kind
  /\ job'[s].ready = job[s].ready
  /\ job'[s].cleanup = job[s].cleanup

SameLease(s) ==
  /\ job'[s].status = job[s].status
  /\ job'[s].token = job[s].token
  /\ job'[s].left = job[s].left

Renewal(s) ==
  /\ job'[s].status = job[s].status
  /\ job'[s].token = job[s].token
  /\ job'[s].left = Lease

Released(s) ==
  /\ job'[s].status \in {"retry", "failed"}
  /\ job'[s].token = NoToken
  /\ job'[s].left = 0

WorkerStep ==
  \/ BeginStep \/ StopWithoutLease \/ FinishStep \/ StepRefused
  \/ StepLosesLease
  \/ \E retryable \in BOOLEAN : StepFails(retryable)
  \/ CallDelayed \/ Crash
  \/ Heartbeat \/ HeartbeatRefused \/ HeartbeatLost

LEMMA FailedRow ==
  ASSUME NEW rows \in [Store -> Job], NEW x \in Store, NEW retryable \in BOOLEAN,
         NEW s \in Store, job' = FailJob(rows, x, retryable), job \in [Store -> Job],
         rows = job \/ rows = Register(job, x)
  PROVE  SameJob(s) /\ IF s = x THEN Released(s) ELSE SameLease(s)
<1>1. rows[s] \in Job /\ job[s] \in Job
  OBVIOUS
<1>2. /\ rows[s].kind = job[s].kind /\ rows[s].ready = job[s].ready
      /\ rows[s].cleanup = job[s].cleanup /\ rows[s].status = job[s].status
      /\ rows[s].token = job[s].token /\ rows[s].left = job[s].left
  BY <1>1 DEF Register, Job
<1>3. CASE s # x
  BY <1>2, <1>3 DEF FailJob, SameJob, SameLease
<1>4. CASE s = x
  <2>1. job'[s] = [NoLease(rows[s], IF retryable THEN "retry" ELSE "failed")
                     EXCEPT !.next = 1]
    BY <1>4 DEF FailJob
  <2> QED
    BY <1>1, <1>2, <1>4, <2>1 DEF NoLease, SameJob, Released, Job
<1> QED
  BY <1>3, <1>4

LEMMA GiveUpRow ==
  ASSUME TypeOK, work # Idle, NEW rows \in [Store -> Job], NEW s \in Store,
         rows = job \/ rows = Register(job, work.store),
         NEW retryable \in BOOLEAN, NEW n, GiveUp(rows, retryable, n)
  PROVE  /\ SameJob(s)
         /\ \/ SameLease(s)
            \/ /\ s = work.store
               /\ Leased(work.store, work.kind, work.token)
               /\ Released(s)
<1>1. job \in [Store -> Job] /\ work.store \in Store
  BY DEF TypeOK, Work
<1>2. CASE job' = rows
  BY <1>1, <1>2 DEF Register, SameJob, SameLease, Job
<1>3. CASE /\ job' = FailJob(rows, work.store, retryable)
           /\ Leased(work.store, work.kind, work.token)
  BY <1>1, <1>3, FailedRow
<1> QED
  BY <1>2, <1>3 DEF GiveUp

LEMMA WorkerRow ==
  ASSUME TypeOK, WorkerStep, NEW s \in Store
  PROVE  /\ SameJob(s)
         /\ \/ SameLease(s)
            \/ /\ s = work.store
               /\ Leased(work.store, work.kind, work.token)
               /\ \/ Renewal(s)
                  \/ Released(s) /\ work' = Idle
<1>1. /\ work # Idle
      /\ job \in [Store -> Job] /\ job[s] \in Job
      /\ work.store \in Store /\ Register(job, work.store) \in [Store -> Job]
  BY RegisterType DEF WorkerStep, BeginStep, StopWithoutLease, FinishStep,
     StepRefused, StepLosesLease, StepFails, CallDelayed, Crash, Heartbeat,
     HeartbeatRefused, HeartbeatLost, TypeOK, Work
<1>2. (work.step # "load") \in BOOLEAN
  OBVIOUS
<1>a. CASE UNCHANGED job
  BY <1>a DEF SameJob, SameLease
<1>b. CASE StopWithoutLease
  BY <1>b, <1>1, GiveUpRow DEF StopWithoutLease, GiveUp
<1>c. CASE FinishStep
  BY <1>c, <1>1 DEF FinishStep, Register, SameJob, SameLease, Job
<1>d. CASE StepRefused
  <2>1. GiveUp(job, work.step # "load", 0)
    BY <1>d DEF StepRefused
  <2> QED
    BY <2>1, <1>1, <1>2, GiveUpRow DEF GiveUp
<1>e. CASE StepLosesLease
  BY <1>e, <1>1, GiveUpRow DEF StepLosesLease, GiveUp
<1>f. CASE \E retryable \in BOOLEAN : StepFails(retryable)
  <2>1. PICK retryable \in BOOLEAN :
          GiveUp(job, retryable, 1) \/ GiveUp(Register(job, work.store), retryable, 1)
    BY <1>f DEF StepFails
  <2> QED
    BY <2>1, <1>1, GiveUpRow DEF GiveUp
<1>g. CASE CallDelayed
  BY <1>g, <1>1, <1>a, FailedRow DEF CallDelayed
<1>h. CASE Heartbeat \/ HeartbeatLost
  <2>1. CASE /\ job' = [job EXCEPT ![work.store].left = Lease]
             /\ Leased(work.store, work.kind, work.token)
    BY <2>1, <1>1 DEF SameJob, SameLease, Renewal, Job
  <2> QED
    BY <1>h, <1>a, <2>1 DEF Heartbeat, HeartbeatLost
<1> QED
  BY <1>a, <1>b, <1>c, <1>d, <1>e, <1>f, <1>g, <1>h
     DEF WorkerStep, BeginStep, Crash, HeartbeatRefused

\* The same for a call that arrives late.
LEMMA ArriveRow ==
  ASSUME TypeOK, NEW r \in late, Arrive(r), NEW s \in Store
  PROVE  \/ job'[s] = job[s] /\ tenant'[s] = tenant[s]
         \/ /\ s = r.store
            /\ Leased(r.store, r.kind, r.token)
            /\ \/ /\ r.op = "heartbeat"
                  /\ SameJob(s) /\ Renewal(s) /\ tenant'[s] = tenant[s]
               \/ /\ r.op = "credentials"
                  /\ SameJob(s) /\ SameLease(s) /\ tenant'[s] = tenant[s]
               \/ /\ r.op = "fail"
                  /\ SameJob(s) /\ Released(s) /\ tenant'[s] = tenant[s]
               \/ /\ r.op = "complete" /\ r.kind = "archive"
                  /\ SameJob(s) /\ job'[s].status = "archived"
                  /\ job'[s].left = 0 /\ tenant'[s] = "closed"
               \/ /\ r.op = "complete" /\ r.kind # "archive"
                  /\ job'[s].kind = job[s].kind /\ job'[s].cleanup = job[s].cleanup
                  /\ job'[s].status = "ready" /\ job'[s].ready
                  /\ job'[s].left = 0 /\ tenant'[s] = tenant[s]
<1>1. /\ job \in [Store -> Job] /\ job[s] \in Job /\ job[r.store] \in Job
      /\ r.store \in Store /\ r.retryable \in BOOLEAN
      /\ tenant \in [Store -> {"none", "open", "closing", "closed"}]
  BY DEF TypeOK, Request
<1>a. CASE UNCHANGED <<job, tenant>>
  BY <1>a
<1>2. CASE s # r.store
  BY <1>1, <1>2 DEF Arrive, FinishJob, FailJob, Register
<1>b. CASE /\ s = r.store /\ Leased(r.store, r.kind, r.token)
           /\ r.op = "heartbeat" /\ UNCHANGED tenant
           /\ job' = [job EXCEPT ![r.store].left = Lease]
  BY <1>1, <1>b DEF SameJob, Renewal, Job
<1>c. CASE /\ s = r.store /\ Leased(r.store, r.kind, r.token)
           /\ r.op = "complete" /\ FinishJob(r.store, r.kind)
  <2>1. CASE r.kind = "archive"
    <3>1. /\ job'[s] = [NoLease(job[s], "archived") EXCEPT !.creds = FALSE]
          /\ tenant'[s] = "closed"
      BY <1>1, <1>c, <2>1 DEF FinishJob
    <3> QED
      BY <1>1, <1>c, <2>1, <3>1 DEF NoLease, SameJob, Job
  <2>2. CASE r.kind # "archive"
    <3>1. /\ job'[s] = [NoLease(job[s], "ready") EXCEPT !.ready = TRUE]
          /\ tenant'[s] = tenant[s]
      BY <1>1, <1>c, <2>2 DEF FinishJob
    <3> QED
      BY <1>1, <1>c, <2>2, <3>1 DEF NoLease, SameJob, Job
  <2> QED
    BY <2>1, <2>2
<1>d. CASE /\ s = r.store /\ Leased(r.store, r.kind, r.token)
           /\ r.op = "fail" /\ UNCHANGED tenant
           /\ job' = FailJob(job, r.store, r.retryable)
  BY <1>1, <1>d, FailedRow
<1>e. CASE /\ s = r.store /\ Leased(r.store, r.kind, r.token)
           /\ r.op = "credentials" /\ UNCHANGED tenant
           /\ job' = Register(job, r.store)
  BY <1>1, <1>e DEF Register, SameJob, SameLease, Job
<1> QED
  BY <1>a, <1>2, <1>b, <1>c, <1>d, <1>e DEF Arrive

\* The rows after a claim: the one it lends, those it refuses on the way, and
\* the others.
LEMMA LendRow ==
  ASSUME TypeOK, NEW s \in Store, NEW refused \in SUBSET Unpayable, NEW k \in Token,
         Lend(s, refused, k), NEW x \in Store
  PROVE  /\ SameJob(x)
         /\ \/ /\ x = s /\ s \in Claimable
               /\ job'[x].status = "provisioning" /\ job'[x].token = k
               /\ job'[x].left = Lease
            \/ /\ x # s /\ x \in Claimable
               /\ Released(x)
            \/ x # s /\ job'[x] = job[x]
<1>1. job[x] \in Job
  BY DEF TypeOK
<1>2. job'[x] = ClaimRow(s, refused, k)[x] /\ s \in Claimable /\ s \notin refused
  BY DEF Lend
<1>3. CASE x = s
  <2>1. job'[x] = [job[x] EXCEPT !.status = "provisioning", !.token = k,
                                 !.left = Lease]
    BY <1>2, <1>3 DEF ClaimRow
  <2> QED
    BY <1>1, <1>2, <1>3, <2>1 DEF SameJob, Job
<1>4. CASE x # s /\ x \in refused
  <2>1. x \in Claimable
    BY <1>4 DEF Unpayable
  <2>2. job'[x] = NoLease(job[x], "failed")
    BY <1>2, <1>4 DEF ClaimRow
  <2> QED
    BY <1>1, <1>4, <2>1, <2>2 DEF NoLease, SameJob, Released, Job
<1>5. CASE x # s /\ x \notin refused
  BY <1>2, <1>5 DEF ClaimRow, SameJob
<1> QED
  BY <1>3, <1>4, <1>5

\* The rows after an administrator's request, or a billing change.  No request
\* touches a row whose lease is current.
Administered(x) ==
  /\ tenant[x] # "none"
  /\ ~LeaseHeld(x)
  /\ job'[x].ready = job[x].ready
  /\ job[x].cleanup => job'[x].cleanup
  /\ job'[x].status = "queued" /\ job'[x].token = NoToken /\ job'[x].left = 0
  /\ \/ /\ job[x].kind = "provision" /\ job[x].status = "ready"
        /\ job'[x].kind = "activate" /\ job'[x].cleanup = job[x].cleanup
        /\ tenant'[x] = tenant[x] /\ tenant[x] # "closing" /\ tenant[x] # "closed"
     \/ /\ job[x].kind # "archive" /\ job'[x].kind = "archive" /\ job'[x].cleanup
        /\ job[x].ready /\ tenant'[x] = "closing"
     \/ /\ job[x].status = "failed"
        /\ job'[x].kind = job[x].kind /\ job'[x].cleanup = job[x].cleanup
        /\ tenant'[x] = tenant[x]

NotYetCreated ==
  \A s \in Store :
    tenant[s] = "none" =>
      /\ job[s].status = "none" /\ job[s].kind = "provision" /\ job[s].left = 0
      /\ ~job[s].ready /\ ~job[s].cleanup

LEMMA PlatformRow ==
  ASSUME TypeOK, NotYetCreated, NEW s \in Store,
         \/ CreateStore(s) \/ ActivateStoreSearch(s) \/ RequestStoreCleanup(s)
         \/ RetryStoreProvisioning(s) \/ ChangeStanding(s),
         NEW x \in Store
  PROVE  \/ job'[x] = job[x] /\ tenant'[x] = tenant[x]
         \/ /\ tenant[x] = "none" /\ tenant'[x] = "open"
            /\ SameJob(x) /\ job[x].status = "none" /\ job'[x].status = "queued"
            /\ job'[x].left = 0
         \/ Administered(x)
<1>1. /\ job \in [Store -> Job] /\ job[s] \in Job
      /\ tenant \in [Store -> {"none", "open", "closing", "closed"}]
  BY DEF TypeOK
<1>2. job[s].status \in {"failed", "ready"} \/ job[s].ready => tenant[s] # "none"
  BY DEF NotYetCreated
<1>a. CASE CreateStore(s)
  BY <1>1, <1>a DEF CreateStore, NotYetCreated, SameJob, Job
<1>b. CASE ActivateStoreSearch(s)
  <2>1. CASE x = s
    <3>1. job'[x] = [NoLease(job[x], "queued") EXCEPT !.kind = "activate", !.next = 0]
      BY <1>1, <1>b, <2>1 DEF ActivateStoreSearch
    <3> QED
      BY <1>1, <1>2, <1>b, <2>1, <3>1
         DEF ActivateStoreSearch, MayActivate, NoLease, Administered, Job
  <2> QED
    BY <1>1, <1>b, <2>1 DEF ActivateStoreSearch
<1>c. CASE RequestStoreCleanup(s)
  <2>1. CASE x = s
    <3>1. job'[x] = [NoLease(job[x], "queued") EXCEPT !.kind = "archive", !.next = 0,
                                                      !.cleanup = TRUE]
      BY <1>1, <1>c, <2>1 DEF RequestStoreCleanup
    <3> QED
      BY <1>1, <1>2, <1>c, <2>1, <3>1
         DEF RequestStoreCleanup, NoLease, Administered, Job
  <2> QED
    BY <1>1, <1>c, <2>1 DEF RequestStoreCleanup
<1>d. CASE RetryStoreProvisioning(s)
  <2>1. CASE x = s
    <3>1. job'[x] = [NoLease(job[x], "queued") EXCEPT !.next = 0]
      BY <1>1, <1>d, <2>1 DEF RetryStoreProvisioning
    <3> QED
      BY <1>1, <1>2, <1>d, <2>1, <3>1
         DEF RetryStoreProvisioning, NoLease, Administered, Job
  <2> QED
    BY <1>1, <1>d, <2>1 DEF RetryStoreProvisioning
<1>e. CASE ChangeStanding(s)
  BY <1>e DEF ChangeStanding
<1> QED
  BY <1>a, <1>b, <1>c, <1>d, <1>e

\* The rows after the worker's acknowledgement.
LEMMA CompleteRow ==
  ASSUME TypeOK, Complete, NEW x \in Store
  PROVE  \/ x # work.store /\ job'[x] = job[x] /\ tenant'[x] = tenant[x]
         \/ /\ x = work.store
            /\ Leased(work.store, work.kind, work.token)
            /\ job'[x].kind = job[x].kind /\ job'[x].cleanup = job[x].cleanup
            /\ job'[x].left = 0
            /\ \/ /\ work.kind = "archive" /\ job'[x].ready = job[x].ready
                  /\ job'[x].status = "archived" /\ tenant'[x] = "closed"
               \/ /\ work.kind # "archive" /\ job'[x].ready
                  /\ job'[x].status = "ready" /\ tenant'[x] = tenant[x]
<1>1. /\ job \in [Store -> Job] /\ job[x] \in Job /\ work.store \in Store
      /\ tenant \in [Store -> {"none", "open", "closing", "closed"}]
      /\ FinishJob(work.store, work.kind)
  BY DEF TypeOK, Complete, Work
<1>2. Leased(work.store, work.kind, work.token)
  BY DEF Complete, MayDo
<1>3. CASE x # work.store
  BY <1>1, <1>3 DEF FinishJob
<1>4. CASE x = work.store /\ work.kind = "archive"
  <2>1. /\ job'[x] = [NoLease(job[x], "archived") EXCEPT !.creds = FALSE]
        /\ tenant'[x] = "closed"
    BY <1>1, <1>4 DEF FinishJob
  <2> QED
    BY <1>1, <1>2, <1>4, <2>1 DEF NoLease, Job
<1>5. CASE x = work.store /\ work.kind # "archive"
  <2>1. /\ job'[x] = [NoLease(job[x], "ready") EXCEPT !.ready = TRUE]
        /\ tenant'[x] = tenant[x]
    BY <1>1, <1>5 DEF FinishJob
  <2> QED
    BY <1>1, <1>2, <1>5, <2>1 DEF NoLease, Job
<1> QED
  BY <1>3, <1>4, <1>5

LEMMA TimeRow ==
  ASSUME TypeOK, TimePasses, NEW x \in Store
  PROVE  /\ SameJob(x)
         /\ job'[x].status = job[x].status /\ job'[x].token = job[x].token
         /\ job'[x].left = Less(job[x].left)
         /\ tenant' = tenant
  BY DEF TypeOK, TimePasses, SameJob, Job

-----------------------------------------------------------------------------
(* What the worker believes of its lease *)

\* No one waits for an answer of the running worker but itself: a late failure
\* or acknowledgement is of a run that is over.
RequestsSpent ==
  work # Idle =>
    \A r \in late : r.op \in {"complete", "fail"} => r.token # work.token

LeaseBounded == work # Idle => work.left <= Lease

\* LeaseBelief is not inductive by itself: a late acknowledgement carrying the
\* worker's own token would end its lease, and a late heartbeat would shorten
\* one the worker thinks longer than a lease can be.
LeaseInv ==
  /\ TypeOK
  /\ NotYetCreated
  /\ RequestsSpent
  /\ LeaseBounded
  /\ LeaseBelief

LEMMA LeaseInit == Init => LeaseInv
<1>1. Init => TypeOK
  BY TypeInit
<1>2. Init => NotYetCreated /\ RequestsSpent /\ LeaseBounded /\ LeaseBelief
  BY DEF Init, NotYetCreated, RequestsSpent, LeaseBounded, LeaseBelief, NoJob
<1> QED
  BY <1>1, <1>2 DEF LeaseInv

\* A step that leaves the worker idle keeps whatever is said of its work.
LEMMA IdleKeeps ==
  work' = Idle => (RequestsSpent /\ LeaseBounded /\ LeaseBelief)'
  BY DEF RequestsSpent, LeaseBounded, LeaseBelief

\* So does one that leaves its work, the requests and its row alone.
LEMMA OthersKeep ==
  ASSUME LeaseInv, work' = work, late' \subseteq late,
         \A x \in Store : \/ SameJob(x) /\ SameLease(x)
                          \/ ~LeaseHeld(x)
                          \/ x \in Claimable
  PROVE  (RequestsSpent /\ LeaseBounded /\ LeaseBelief)'
<1>1. RequestsSpent' /\ LeaseBounded'
  BY DEF LeaseInv, RequestsSpent, LeaseBounded
<1>2. ASSUME work # Idle, ~work.lost, work.left > 0
      PROVE  /\ Leased(work.store, work.kind, work.token)'
             /\ work.left <= job'[work.store].left
  <2>1. /\ Leased(work.store, work.kind, work.token)
        /\ work.left <= job[work.store].left
        /\ work.store \in Store
    BY <1>2 DEF LeaseInv, LeaseBelief, TypeOK, Work
  <2>2. SameJob(work.store) /\ SameLease(work.store)
    BY <1>2, <2>1 DEF LeaseHeld, Leased, Claimable
  <2> QED
    BY <2>1, <2>2 DEF Leased, SameJob, SameLease
<1>3. LeaseBelief'
  BY <1>2 DEF LeaseBelief
<1> QED
  BY <1>1, <1>3

LEMMA LeasePlatform ==
  ASSUME LeaseInv, NEW s \in Store,
         \/ CreateStore(s) \/ ActivateStoreSearch(s) \/ RequestStoreCleanup(s)
         \/ RetryStoreProvisioning(s) \/ ChangeStanding(s)
  PROVE  (NotYetCreated /\ RequestsSpent /\ LeaseBounded /\ LeaseBelief)'
<1>1. TypeOK /\ NotYetCreated
  BY DEF LeaseInv
<1>2. ASSUME NEW x \in Store
      PROVE  (SameJob(x) /\ SameLease(x)) \/ ~LeaseHeld(x)
  <2>1. job[x].left \in Nat
    BY <1>1 DEF TypeOK, Job
  <2> QED
    BY <1>1, <2>1, PlatformRow
       DEF SameJob, SameLease, LeaseHeld, NotYetCreated, Administered
<1>3. NotYetCreated'
  BY <1>1, PlatformRow DEF NotYetCreated, Administered
<1>4. work' = work /\ late' = late
  BY DEF CreateStore, ActivateStoreSearch, RequestStoreCleanup,
         RetryStoreProvisioning, ChangeStanding
<1> QED
  BY <1>2, <1>3, <1>4, OthersKeep

LEMMA LeaseClaim ==
  ASSUME LeaseInv, NEW s \in Store, ClaimOf(s) \/ ClaimLostOf(s)
  PROVE  (NotYetCreated /\ RequestsSpent /\ LeaseBounded /\ LeaseBelief)'
<1>1. TypeOK /\ NotYetCreated
  BY DEF LeaseInv
<1>2. PICK refused \in SUBSET Unpayable, k \in Token :
        Claim(s, refused, k) \/ ClaimLost(s, refused, k)
  BY DEF ClaimOf, ClaimLostOf
<1>3. Lend(s, refused, k) /\ UNCHANGED tenant /\ late' = late
  BY <1>2 DEF Claim, ClaimLost
<1>4. \A x \in Claimable : tenant[x] # "none"
  BY <1>1 DEF Claimable, NotYetCreated
<1>5. NotYetCreated'
  BY <1>1, <1>3, <1>4, LendRow DEF NotYetCreated, SameJob
<1>6. CASE Claim(s, refused, k)
  <2>1. /\ SameJob(s) /\ job'[s].status = "provisioning" /\ job'[s].token = k
        /\ job'[s].left = Lease
    BY <1>1, <1>3, LendRow
  <2>2. work'.store = s /\ work'.kind = job[s].kind /\ work'.token = k
                       /\ work'.left = Lease
    BY <1>6 DEF Claim
  <2>3. LeaseBelief' /\ LeaseBounded'
    BY <2>1, <2>2, NumberAssumption
       DEF LeaseBelief, LeaseBounded, Leased, SameJob
  <2>4. RequestsSpent'
    BY <1>3, <2>2 DEF Lend, FreshToken, RequestsSpent
  <2> QED
    BY <1>5, <2>3, <2>4
<1>7. CASE ClaimLost(s, refused, k)
  <2>1. work' = work
    BY <1>7 DEF ClaimLost
  <2>2. \A x \in Store : (SameJob(x) /\ SameLease(x)) \/ x \in Claimable
    BY <1>1, <1>3, LendRow DEF SameLease
  <2> QED
    BY <1>3, <1>5, <2>1, <2>2, OthersKeep
<1> QED
  BY <1>2, <1>6, <1>7

LEMMA LeaseClaimNothing ==
  ASSUME LeaseInv, ClaimNothing
  PROVE  (NotYetCreated /\ RequestsSpent /\ LeaseBounded /\ LeaseBelief)'
<1>1. TypeOK /\ NotYetCreated
  BY DEF LeaseInv
<1>2. ASSUME NEW x \in Store PROVE x \in Unpayable \/ job'[x] = job[x]
  BY DEF ClaimNothing
<1>3. \A x \in Unpayable : tenant[x] # "none"
  BY <1>1 DEF Unpayable, Claimable, NotYetCreated
<1>4. NotYetCreated' /\ work' = Idle
  BY <1>1, <1>2, <1>3 DEF ClaimNothing, NotYetCreated
<1> QED
  BY <1>4, IdleKeeps

LEMMA LeaseWorker ==
  ASSUME LeaseInv, WorkerStep
  PROVE  (NotYetCreated /\ RequestsSpent /\ LeaseBounded /\ LeaseBelief)'
<1>1. TypeOK /\ NotYetCreated
  BY DEF LeaseInv
<1>2. work # Idle /\ work \in Work /\ work.store \in Store /\ tenant' = tenant
  BY <1>1 DEF WorkerStep, BeginStep, StopWithoutLease, FinishStep,
     StepRefused, StepLosesLease, StepFails, CallDelayed, Crash, Heartbeat,
     HeartbeatRefused, HeartbeatLost, TypeOK, Work
<1>3. NotYetCreated'
  BY <1>1, <1>2, WorkerRow DEF NotYetCreated, SameJob, SameLease, Leased
<1>a. CASE work' = Idle
  BY <1>3, <1>a, IdleKeeps
<1>b. CASE BeginStep \/ FinishStep
  <2>1. /\ work'.store = work.store /\ work'.kind = work.kind
        /\ work'.token = work.token /\ work'.left = work.left
        /\ work'.lost = work.lost /\ late' = late
    BY <1>2, <1>b DEF BeginStep, FinishStep, Work
  <2>2. SameJob(work.store) /\ SameLease(work.store)
    <3>1. CASE BeginStep
      BY <3>1 DEF BeginStep, SameJob, SameLease
    <3>2. CASE FinishStep
      BY <3>2, <1>1, <1>2 DEF FinishStep, Register, SameJob, SameLease, TypeOK, Job
    <3> QED
      BY <1>b, <3>1, <3>2
  <2>3. RequestsSpent' /\ LeaseBounded'
    BY <1>2, <2>1 DEF LeaseInv, RequestsSpent, LeaseBounded
  <2>4. LeaseBelief'
    BY <1>2, <2>1, <2>2 DEF LeaseInv, LeaseBelief, Leased, SameJob, SameLease
  <2> QED
    BY <1>3, <2>3, <2>4
<1>c. CASE Heartbeat
  <2>1. /\ work'.store = work.store /\ work'.kind = work.kind
        /\ work'.token = work.token /\ work'.left = Lease /\ late' = late
    BY <1>2, <1>c DEF Heartbeat, Work
  <2>2. /\ job'[work.store].kind = work.kind
        /\ job'[work.store].status = "provisioning"
        /\ job'[work.store].token = work.token
        /\ job'[work.store].left = Lease
    BY <1>1, <1>2, <1>c DEF Heartbeat, Leased, TypeOK, Job
  <2>3. RequestsSpent' /\ LeaseBounded' /\ LeaseBelief'
    BY <1>2, <2>1, <2>2, NumberAssumption
       DEF LeaseInv, RequestsSpent, LeaseBounded, LeaseBelief, Leased
  <2> QED
    BY <1>3, <2>3
<1>d. CASE HeartbeatRefused \/ HeartbeatLost
  <2>1. /\ work'.lost /\ work'.token = work.token /\ work'.left = work.left
        /\ \A r \in late' : r \in late \/ r.op = "heartbeat"
    BY <1>2, <1>d DEF HeartbeatRefused, HeartbeatLost, RequestOf, Work
  <2>2. RequestsSpent' /\ LeaseBounded' /\ LeaseBelief'
    BY <1>2, <2>1 DEF LeaseInv, RequestsSpent, LeaseBounded, LeaseBelief
  <2> QED
    BY <1>3, <2>2
<1> QED
  BY <1>a, <1>b, <1>c, <1>d DEF WorkerStep, StopWithoutLease, StepRefused,
     StepLosesLease, StepFails, CallDelayed, Crash, GiveUp

LEMMA LeaseComplete ==
  ASSUME LeaseInv, Complete
  PROVE  (NotYetCreated /\ RequestsSpent /\ LeaseBounded /\ LeaseBelief)'
<1>1. TypeOK /\ NotYetCreated
  BY DEF LeaseInv
<1>2. NotYetCreated'
  BY <1>1, CompleteRow DEF NotYetCreated, Leased
<1>3. work' = Idle
  BY DEF Complete
<1> QED
  BY <1>2, <1>3, IdleKeeps

LEMMA LeaseArrive ==
  ASSUME LeaseInv, NEW r \in late, Arrive(r)
  PROVE  (NotYetCreated /\ RequestsSpent /\ LeaseBounded /\ LeaseBelief)'
<1>1. /\ TypeOK /\ NotYetCreated
      /\ r.op \in {"credentials", "heartbeat", "complete", "fail"}
  BY DEF LeaseInv, TypeOK, Request
<1>2. work' = work /\ late' \subseteq late
  BY DEF Arrive
<1>3. NotYetCreated'
  <2> SUFFICES ASSUME NEW x \in Store, tenant'[x] = "none"
               PROVE  /\ job'[x].status = "none" /\ job'[x].kind = "provision"
                      /\ job'[x].left = 0 /\ ~job'[x].ready /\ ~job'[x].cleanup
    BY DEF NotYetCreated
  <2>1. CASE job'[x] = job[x] /\ tenant'[x] = tenant[x]
    BY <1>1, <2>1 DEF NotYetCreated
  <2>2. CASE x = r.store /\ Leased(r.store, r.kind, r.token)
    <3>1. tenant[x] # "none"
      BY <1>1, <2>2 DEF NotYetCreated, Leased
    <3> QED
      BY <1>1, <3>1, ArriveRow
  <2> QED
    BY <1>1, <2>1, <2>2, ArriveRow
<1>4. RequestsSpent' /\ LeaseBounded'
  BY <1>2 DEF LeaseInv, RequestsSpent, LeaseBounded
<1>5. ASSUME work # Idle, ~work.lost, work.left > 0
      PROVE  /\ Leased(work.store, work.kind, work.token)'
             /\ work.left <= job'[work.store].left
  <2>1. /\ Leased(work.store, work.kind, work.token)
        /\ work.left <= job[work.store].left /\ work.left <= Lease
        /\ work.store \in Store
    BY <1>5 DEF LeaseInv, LeaseBelief, LeaseBounded, TypeOK, Work
  <2>2. CASE job'[work.store] = job[work.store]
    BY <1>2, <2>1, <2>2 DEF Leased
  <2>3. CASE r.store = work.store /\ Leased(r.store, r.kind, r.token)
    <3>1. r.token = work.token
      BY <2>1, <2>3 DEF Leased
    <3>2. r.op \notin {"complete", "fail"}
      BY <1>5, <3>1 DEF LeaseInv, RequestsSpent
    <3>3. \/ job'[work.store] = job[work.store]
          \/ SameJob(work.store) /\ Renewal(work.store)
          \/ SameJob(work.store) /\ SameLease(work.store)
      BY <1>1, <2>1, <3>2, ArriveRow
    <3> QED
      BY <1>2, <2>1, <2>2, <3>3, NumberAssumption
         DEF SameJob, SameLease, Renewal, Leased
  <2> QED
    BY <1>1, <2>1, <2>2, <2>3, ArriveRow
<1>6. LeaseBelief'
  BY <1>2, <1>5 DEF LeaseBelief
<1> QED
  BY <1>3, <1>4, <1>6

LEMMA LeaseTime ==
  ASSUME LeaseInv, Tick \/ TickUnrenewed
  PROVE  (NotYetCreated /\ RequestsSpent /\ LeaseBounded /\ LeaseBelief)'
<1>1. TypeOK /\ NotYetCreated /\ TimePasses
  BY DEF LeaseInv, Tick, TickUnrenewed
<1>2. NotYetCreated'
  <2> SUFFICES ASSUME NEW s \in Store, tenant'[s] = "none"
               PROVE  /\ job'[s].status = "none" /\ job'[s].kind = "provision"
                      /\ job'[s].left = 0
                      /\ ~job'[s].ready /\ ~job'[s].cleanup
    BY DEF NotYetCreated
  <2>1. tenant[s] = "none"
    BY <1>1, TimeRow
  <2>2. /\ job[s].status = "none" /\ job[s].kind = "provision" /\ job[s].left = 0
        /\ ~job[s].ready /\ ~job[s].cleanup
    BY <1>1, <2>1 DEF NotYetCreated
  <2>3. SameJob(s) /\ job'[s].status = job[s].status /\ job'[s].left = Less(job[s].left)
    BY <1>1, TimeRow
  <2> QED
    BY <2>2, <2>3 DEF SameJob, Less
<1>a. CASE work = Idle
  <2>1. work' = Idle
    BY <1>a, <1>1 DEF TimePasses
  <2> QED
    BY <1>2, <2>1, IdleKeeps
<1>b. CASE work # Idle
  <2>1. work \in Work /\ work.store \in Store /\ work.left \in Nat
    BY <1>1, <1>b DEF TypeOK, Work
  <2>2. /\ work'.store = work.store /\ work'.kind = work.kind
        /\ work'.token = work.token /\ work'.left = Less(work.left)
        /\ work'.lost = work.lost /\ late' = late
    BY <1>1, <1>b, <2>1 DEF TimePasses, Work
  <2>3. RequestsSpent' /\ LeaseBounded'
    BY <1>b, <2>1, <2>2, LessType, NumberAssumption
       DEF LeaseInv, RequestsSpent, LeaseBounded
  <2>4. ASSUME ~work'.lost, work'.left > 0
        PROVE  /\ Leased(work.store, work.kind, work.token)'
               /\ work'.left <= job'[work.store].left
    <3>1. work.left > 0 /\ work'.left = work.left - 1
      BY <2>1, <2>2, <2>4 DEF Less
    <3>2. /\ Leased(work.store, work.kind, work.token)
          /\ work.left <= job[work.store].left
      BY <1>b, <2>2, <2>4, <3>1 DEF LeaseInv, LeaseBelief
    <3>3. job[work.store].left \in Nat
      BY <1>1, <2>1 DEF TypeOK, Job
    <3>4. job'[work.store].left = job[work.store].left - 1
      BY <1>1, <2>1, <3>2, <3>3, TimeRow DEF Less, Leased
    <3>5. /\ SameJob(work.store) /\ job'[work.store].status = job[work.store].status
          /\ job'[work.store].token = job[work.store].token
      BY <1>1, <2>1, TimeRow
    <3>6. work'.left <= job'[work.store].left /\ job'[work.store].left > 0
      BY <2>1, <2>4, <3>1, <3>2, <3>3, <3>4
    <3> QED
      BY <2>2, <3>2, <3>5, <3>6 DEF Leased, SameJob
  <2>5. LeaseBelief'
    BY <2>2, <2>4 DEF LeaseBelief, Leased
  <2> QED
    BY <1>2, <2>3, <2>5
<1> QED
  BY <1>a, <1>b

\* The inductive invariant of the lease protocol (claimStoreJob, renewStoreLease,
\* finishStoreJob): whoever holds a token that is current holds the row.
THEOREM LeaseInvariant == Spec => []LeaseInv
<1>1. LeaseInv /\ [Next]_vars => LeaseInv'
  <2> SUFFICES ASSUME LeaseInv, [Next]_vars PROVE LeaseInv'
    OBVIOUS
  <2>1. TypeOK'
    <3>1. CASE UNCHANGED vars
      BY <3>1 DEF vars, TypeOK, LeaseInv
    <3>2. CASE Next
      BY <3>2, TypePlatform, TypeClaimNothing, TypeSteps, TypeEnds, TypeArrive,
         TypeTime DEF Next, LeaseInv
    <3> QED
      BY <3>1, <3>2
  <2>2. (NotYetCreated /\ RequestsSpent /\ LeaseBounded /\ LeaseBelief)'
    <3>1. CASE UNCHANGED vars
      BY <3>1 DEF vars, LeaseInv, NotYetCreated, RequestsSpent, LeaseBounded,
                  LeaseBelief, Leased
    <3>2. CASE Next
      BY <3>2, LeasePlatform, LeaseClaim, LeaseClaimNothing, LeaseWorker,
         LeaseComplete, LeaseArrive, LeaseTime DEF Next, WorkerStep
    <3> QED
      BY <3>1, <3>2
  <2> QED
    BY <2>1, <2>2 DEF LeaseInv
<1> QED
  BY <1>1, LeaseInit, PTL DEF Spec

\* What the worker concludes from its own clock is true, for every lease length,
\* whatever is lost, late or asked for meanwhile: as long as it believes in its
\* lease no other run, no late call and no administrator can have taken the job.
THEOREM LeaseBelieved == Spec => []LeaseBelief
<1>1. LeaseInv => LeaseBelief
  BY DEF LeaseInv
<1> QED
  BY <1>1, LeaseInvariant, PTL

-----------------------------------------------------------------------------
(* Cleanup                                                                   *)
(*                                                                           *)
(* ClosedIsClean needs to know how far the running archive job has come, that *)
(* a late acknowledgement of an archive job speaks of a clean store, and that *)
(* no other job is at work on such a store.                                  *)

StepsOf(kind) ==
  CASE kind = "provision" -> {"load", "credentials", "database", "filesystem",
                              "runtime", "routing", "complete"}
    [] kind = "activate"  -> {"load", "search", "complete"}
    [] kind = "archive"   -> {"load", "stop", "unroute", "clean", "archiveFiles",
                              "complete"}

OwnSteps == work # Idle => work.step \in StepsOf(work.kind)

ArchivedSoFar(step, m) ==
  /\ step \in {"unroute", "clean", "archiveFiles", "complete"} => ~m.running
  /\ step \in {"clean", "archiveFiles", "complete"} => ~m.routed
  /\ step \in {"archiveFiles", "complete"} => m.db = "cleared" /\ ~m.index
  /\ step = "complete" => m.files = "archived" /\ m.archived

ArchiveProgress ==
  (work # Idle /\ work.kind = "archive") =>
    /\ job[work.store].kind = "archive"
    /\ ArchivedSoFar(work.step, vm[work.store])

ArchiveAcknowledgement(r) == r.op = "complete" /\ r.kind = "archive"

LateIsClean ==
  \A r \in late :
    ArchiveAcknowledgement(r) =>
      job[r.store].kind = "archive" /\ Cleaned(vm[r.store])

ArchivesAlone ==
  (work # Idle /\ work.kind # "archive") =>
    /\ tenant[work.store] # "closed"
    /\ \A r \in late : ArchiveAcknowledgement(r) => r.store # work.store

ClosingIsArchive ==
  \A s \in Store : tenant[s] \in {"closing", "closed"} => job[s].kind = "archive"

CleanInv ==
  /\ OwnSteps
  /\ ArchiveProgress
  /\ LateIsClean
  /\ ArchivesAlone
  /\ ClosingIsArchive
  /\ ClosedIsClean

LEMMA CleanInit == Init => CleanInv
  BY DEF Init, CleanInv, OwnSteps, ArchiveProgress, LateIsClean, ArchivesAlone,
         ClosingIsArchive, ClosedIsClean

LEMMA OwnStepAfter ==
  ASSUME NEW kind \in Kind, NEW step \in StepsOf(kind), step # "complete"
  PROVE  StepAfter(kind, step) \in StepsOf(kind)
  BY DEF StepAfter, StepsOf, FirstStep, FollowingStep, Kind

LEMMA ArchiveAdvances ==
  ASSUME NEW step \in StepsOf("archive"), step # "complete", NEW m \in Machine,
         ArchivedSoFar(step, m)
  PROVE  ArchivedSoFar(StepAfter("archive", step), Effect(step, m))
<1>a. CASE step = "load"
  BY <1>a DEF StepAfter, FirstStep, ArchivedSoFar
<1>b. CASE step = "stop"
  BY <1>b DEF StepAfter, FollowingStep, Effect, Machine, ArchivedSoFar
<1>c. CASE step = "unroute"
  BY <1>c DEF StepAfter, FollowingStep, Effect, Machine, ArchivedSoFar
<1>d. CASE step = "clean"
  BY <1>d DEF StepAfter, FollowingStep, Effect, Machine, ArchivedSoFar
<1>e. CASE step = "archiveFiles"
  BY <1>e DEF StepAfter, FollowingStep, Effect, Machine, ArchivedSoFar
<1> QED
  BY <1>a, <1>b, <1>c, <1>d, <1>e DEF StepsOf

LEMMA ArchiveKeepsClean ==
  ASSUME NEW step \in StepsOf("archive"), NEW m \in Machine, Cleaned(m)
  PROVE  Cleaned(Effect(step, m)) /\ Cleaned([m EXCEPT !.files = "archived"])
<1>1. Cleaned([m EXCEPT !.files = "archived"])
  BY DEF Cleaned, Machine
<1>a. CASE step \in {"load", "stop", "unroute"}
  BY <1>a DEF Effect, Cleaned, Machine
<1>b. CASE step \in {"clean", "archiveFiles", "complete"}
  BY <1>b DEF Effect, Cleaned, Machine
<1> QED
  BY <1>1, <1>a, <1>b DEF StepsOf

\* What a step of the worker does to the machines.
LEMMA WorkerMachine ==
  ASSUME TypeOK, CleanInv, WorkerStep, NEW s \in Store, Cleaned(vm[s]),
         work.store = s => work.kind = "archive"
  PROVE  Cleaned(vm'[s])
<1>1. /\ work # Idle /\ work.store \in Store /\ work.kind \in Kind
      /\ vm \in [Store -> Machine] /\ vm[s] \in Machine
  BY DEF WorkerStep, BeginStep, StopWithoutLease, FinishStep,
     StepRefused, StepLosesLease, StepFails, CallDelayed, Crash, Heartbeat,
     HeartbeatRefused, HeartbeatLost, TypeOK, Work
<1>2. work.store = s => work.step \in StepsOf("archive")
  BY <1>1 DEF CleanInv, OwnSteps
<1>3. CASE UNCHANGED vm
  BY <1>3
<1>4. CASE FinishStep
  BY <1>1, <1>2, <1>4, ArchiveKeepsClean DEF FinishStep
<1>5. CASE CutShort
  <2>1. PICK m \in Partial(work.store, work.step) :
          vm' = [vm EXCEPT ![work.store] = m]
    BY <1>5 DEF CutShort
  <2>2. CASE work.store # s
    BY <1>1, <2>1, <2>2
  <2>3. CASE work.store = s
    <3>1. Cleaned(m)
      BY <1>1, <1>2, <2>1, <2>3, ArchiveKeepsClean DEF Partial
    <3> QED
      BY <1>1, <2>1, <2>3, <3>1
  <2> QED
    BY <2>2, <2>3
<1> QED
  BY <1>3, <1>4, <1>5 DEF WorkerStep, BeginStep, StopWithoutLease, StepRefused,
     StepLosesLease, StepFails, CallDelayed, Crash, Heartbeat, HeartbeatRefused,
     HeartbeatLost

LEMMA IdleIsClean ==
  work' = Idle => (OwnSteps /\ ArchiveProgress /\ ArchivesAlone)'
  BY DEF OwnSteps, ArchiveProgress, ArchivesAlone

\* The requests a step of the worker leaves behind.
LEMMA GivenUpRequest ==
  ASSUME NEW rows, NEW retryable, NEW n, GiveUp(rows, retryable, n),
         NEW r \in late', r \notin late
  PROVE  r.op = "fail"
  BY DEF GiveUp, RequestOf

LEMMA NewRequest ==
  ASSUME WorkerStep, NEW r \in late', r \notin late
  PROVE  r.op \in {"fail", "heartbeat"} \/ CallDelayed
<1>1. CASE UNCHANGED late
  BY <1>1
<1>2. CASE HeartbeatLost
  BY <1>2 DEF HeartbeatLost, RequestOf
<1>3. CASE StopWithoutLease
  BY <1>3, GivenUpRequest DEF StopWithoutLease
<1>4. CASE StepRefused
  BY <1>4, GivenUpRequest DEF StepRefused
<1>5. CASE StepLosesLease
  BY <1>5, GivenUpRequest DEF StepLosesLease
<1>6. CASE \E retryable \in BOOLEAN : StepFails(retryable)
  BY <1>6, GivenUpRequest DEF StepFails
<1> QED
  BY <1>1, <1>2, <1>3, <1>4, <1>5, <1>6
     DEF WorkerStep, BeginStep, FinishStep, Crash, Heartbeat, HeartbeatRefused

LEMMA CleanWorker ==
  ASSUME TypeOK, CleanInv, WorkerStep
  PROVE  CleanInv'
<1>1. /\ work # Idle /\ work \in Work /\ work.store \in Store /\ work.kind \in Kind
      /\ tenant' = tenant
      /\ vm \in [Store -> Machine] /\ \A r \in late : r.store \in Store
  BY DEF WorkerStep, BeginStep, StopWithoutLease, FinishStep,
     StepRefused, StepLosesLease, StepFails, CallDelayed, Crash, Heartbeat,
     HeartbeatRefused, HeartbeatLost, TypeOK, Work, Request
<1>2. \A s \in Store : job'[s].kind = job[s].kind
  BY WorkerRow DEF SameJob
<1>3. ClosingIsArchive'
  BY <1>1, <1>2 DEF CleanInv, ClosingIsArchive
<1>4. ClosedIsClean'
  <2> SUFFICES ASSUME NEW s \in Store, tenant[s] = "closed"
               PROVE  Cleaned(vm'[s]) /\ job'[s].status = "archived"
    BY <1>1 DEF ClosedIsClean
  <2>1. Cleaned(vm[s]) /\ job[s].status = "archived"
    BY DEF CleanInv, ClosedIsClean
  <2>2. work.store = s => work.kind = "archive"
    BY <1>1 DEF CleanInv, ArchivesAlone
  <2>3. Cleaned(vm'[s])
    BY <2>1, <2>2, WorkerMachine
  <2>4. job'[s].status = "archived"
    BY <2>1, WorkerRow DEF SameLease, Leased
  <2> QED
    BY <2>3, <2>4
<1>5. ASSUME NEW r \in late, ArchiveAcknowledgement(r)
      PROVE  job'[r.store].kind = "archive" /\ Cleaned(vm'[r.store])
  <2>1. Cleaned(vm[r.store]) /\ job[r.store].kind = "archive" /\ r.store \in Store
    BY <1>1, <1>5 DEF CleanInv, LateIsClean
  <2>2. work.store = r.store => work.kind = "archive"
    BY <1>1, <1>5 DEF CleanInv, ArchivesAlone
  <2> QED
    BY <1>2, <2>1, <2>2, WorkerMachine
<1>6. ASSUME NEW r \in late', r \notin late, ArchiveAcknowledgement(r)
      PROVE  /\ job'[r.store].kind = "archive" /\ Cleaned(vm'[r.store])
             /\ work' = Idle
  <2>1. CASE CallDelayed
    <3>1. r = RequestOf(work.step, FALSE) /\ vm' = vm /\ work' = Idle
      BY <1>6, <2>1 DEF CallDelayed
    <3>2. work.step = "complete" /\ work.kind = "archive" /\ r.store = work.store
      BY <1>6, <3>1 DEF RequestOf, ArchiveAcknowledgement
    <3>3. Cleaned(vm[work.store]) /\ job[work.store].kind = "archive"
      BY <1>1, <3>2 DEF CleanInv, ArchiveProgress, ArchivedSoFar, Cleaned
    <3> QED
      BY <1>1, <1>2, <3>1, <3>2, <3>3
  <2>2. r.op \in {"fail", "heartbeat"} \/ CallDelayed
    BY <1>6, NewRequest
  <2> QED
    BY <1>6, <2>1, <2>2 DEF ArchiveAcknowledgement
<1>7. LateIsClean'
  BY <1>5, <1>6 DEF LateIsClean, ArchiveAcknowledgement
<1>8. (OwnSteps /\ ArchiveProgress /\ ArchivesAlone)'
  <2>a. CASE work' = Idle
    BY <2>a, IdleIsClean
  <2>b. CASE FinishStep
    <3>1. /\ work.step # "complete" /\ late' = late
          /\ work'.step = StepAfter(work.kind, work.step)
          /\ work'.kind = work.kind /\ work'.store = work.store
          /\ vm'[work.store] = Effect(work.step, vm[work.store])
          /\ vm[work.store] \in Machine
      BY <1>1, <2>b DEF FinishStep, Work
    <3>2. work.step \in StepsOf(work.kind)
      BY <1>1 DEF CleanInv, OwnSteps
    <3>3. OwnSteps'
      BY <1>1, <3>1, <3>2, OwnStepAfter DEF OwnSteps
    <3>4. ArchiveProgress'
      BY <1>1, <1>2, <3>1, <3>2, ArchiveAdvances DEF CleanInv, ArchiveProgress
    <3>5. ArchivesAlone'
      BY <1>1, <3>1 DEF CleanInv, ArchivesAlone, ArchiveAcknowledgement
    <3> QED
      BY <3>3, <3>4, <3>5
  <2>c. CASE BeginStep \/ Heartbeat \/ HeartbeatRefused \/ HeartbeatLost
    <3>1. /\ work'.step = work.step /\ work'.kind = work.kind
          /\ work'.store = work.store /\ vm' = vm
      BY <1>1, <2>c DEF BeginStep, Heartbeat, HeartbeatRefused, HeartbeatLost, Work
    <3>2. \A r \in late' : ArchiveAcknowledgement(r) => r \in late \/ work' = Idle
      BY <1>6
    <3>3. OwnSteps' /\ ArchiveProgress'
      BY <1>1, <1>2, <3>1 DEF CleanInv, OwnSteps, ArchiveProgress
    <3>4. ArchivesAlone'
      BY <1>1, <3>1, <3>2
         DEF CleanInv, ArchivesAlone, ArchiveAcknowledgement
    <3> QED
      BY <3>3, <3>4
  <2> QED
    BY <2>a, <2>b, <2>c DEF WorkerStep, StopWithoutLease, StepRefused,
       StepLosesLease, StepFails, CallDelayed, Crash, GiveUp
<1> QED
  BY <1>3, <1>4, <1>7, <1>8 DEF CleanInv

\* Steps that leave the worker's run, the machines and the requests alone, keep
\* archive jobs what they are and close no store.
SameRun ==
  /\ work # Idle
  /\ work'.store = work.store /\ work'.kind = work.kind /\ work'.step = work.step

LEMMA OthersKeepClean ==
  ASSUME TypeOK, CleanInv, work' = Idle \/ SameRun, vm' = vm, late' \subseteq late,
         \A s \in Store :
           /\ job[s].kind = "archive" => job'[s].kind = "archive"
           /\ tenant'[s] = "closing" => job'[s].kind = "archive"
           /\ tenant'[s] = "closed" => tenant[s] = "closed"
           /\ tenant'[s] = "closed" /\ job[s].status = "archived"
                => job'[s].status = "archived"
  PROVE  CleanInv'
<1>1. /\ \A r \in late : r.store \in Store
      /\ work # Idle => work.store \in Store
  BY DEF TypeOK, Request, Work
<1>2. OwnSteps' /\ ArchiveProgress'
  BY <1>1 DEF CleanInv, OwnSteps, ArchiveProgress, SameRun
<1>3. LateIsClean'
  BY <1>1 DEF CleanInv, LateIsClean, ArchiveAcknowledgement
<1>4. ArchivesAlone'
  BY <1>1 DEF CleanInv, ArchivesAlone, ArchiveAcknowledgement, SameRun
<1>5. ClosingIsArchive' /\ ClosedIsClean'
  BY DEF CleanInv, ClosingIsArchive, ClosedIsClean
<1> QED
  BY <1>2, <1>3, <1>4, <1>5 DEF CleanInv

LEMMA CleanPlatform ==
  ASSUME LeaseInv, CleanInv, NEW s \in Store,
         \/ CreateStore(s) \/ ActivateStoreSearch(s) \/ RequestStoreCleanup(s)
         \/ RetryStoreProvisioning(s) \/ ChangeStanding(s)
  PROVE  CleanInv'
<1>1. TypeOK /\ NotYetCreated
  BY DEF LeaseInv
<1>2. work' = work /\ late' = late /\ vm' = vm
  BY DEF CreateStore, ActivateStoreSearch, RequestStoreCleanup,
         RetryStoreProvisioning, ChangeStanding
<1>3. ASSUME NEW x \in Store
      PROVE  /\ job[x].kind = "archive" => job'[x].kind = "archive"
             /\ tenant'[x] = "closing" => job'[x].kind = "archive"
             /\ tenant'[x] = "closed" => tenant[x] = "closed"
             /\ tenant'[x] = "closed" /\ job[x].status = "archived"
                  => job'[x].status = "archived"
  <2>1. tenant[x] \in {"closing", "closed"} => job[x].kind = "archive"
    BY DEF CleanInv, ClosingIsArchive
  <2>a. CASE job'[x] = job[x] /\ tenant'[x] = tenant[x]
    BY <2>1, <2>a
  <2>b. CASE SameJob(x) /\ tenant'[x] = "open"
    BY <2>b DEF SameJob
  <2>c. CASE Administered(x)
    BY <2>1, <2>c DEF Administered
  <2> QED
    BY <1>1, <2>a, <2>b, <2>c, PlatformRow
<1> QED
  BY <1>1, <1>2, <1>3, OthersKeepClean DEF SameRun

\* A claim, answered or not, starts nothing on a store that is being cleaned but
\* its archive job.
LEMMA CleanClaim ==
  ASSUME LeaseInv, CleanInv, NEW s \in Store, ClaimOf(s) \/ ClaimLostOf(s)
  PROVE  CleanInv'
<1>1. TypeOK
  BY DEF LeaseInv
<1>2. PICK refused \in SUBSET Unpayable, k \in Token :
        Claim(s, refused, k) \/ ClaimLost(s, refused, k)
  BY DEF ClaimOf, ClaimLostOf
<1>3. Lend(s, refused, k) /\ tenant' = tenant /\ late' = late /\ vm' = vm
  BY <1>2 DEF Claim, ClaimLost
<1>4. ASSUME NEW x \in Store
      PROVE  /\ job'[x].kind = job[x].kind
             /\ job[x].status = "archived" => job'[x].status = "archived"
  BY <1>1, <1>3, LendRow DEF SameJob, Claimable
<1>5. CASE work' = work
  BY <1>1, <1>3, <1>4, <1>5, OthersKeepClean DEF SameRun, CleanInv, ClosingIsArchive
<1>6. CASE Claim(s, refused, k)
  <2>1. work'.kind = job[s].kind /\ work'.store = s /\ work'.step = "load"
    BY <1>6 DEF Claim
  <2>2. job[s].kind \in Kind /\ \A r \in late : r.store \in Store
    BY <1>1 DEF TypeOK, Job, Request
  <2>3. OwnSteps' /\ ArchiveProgress'
    BY <1>4, <2>1, <2>2
       DEF OwnSteps, StepsOf, Kind, ArchiveProgress, ArchivedSoFar
  <2>4. LateIsClean'
    BY <1>3, <1>4, <2>2 DEF CleanInv, LateIsClean, ArchiveAcknowledgement
  <2>5. ArchivesAlone'
    BY <1>3, <2>1, <2>2
       DEF CleanInv, ArchivesAlone, LateIsClean, ClosingIsArchive, ArchiveAcknowledgement
  <2>6. ClosingIsArchive' /\ ClosedIsClean'
    BY <1>3, <1>4 DEF CleanInv, ClosingIsArchive, ClosedIsClean
  <2> QED
    BY <2>3, <2>4, <2>5, <2>6 DEF CleanInv
<1> QED
  BY <1>2, <1>5, <1>6 DEF ClaimLost

LEMMA CleanClaimNothing ==
  ASSUME LeaseInv, CleanInv, ClaimNothing
  PROVE  CleanInv'
<1>1. TypeOK /\ work' = Idle /\ vm' = vm /\ late' = late /\ tenant' = tenant
  BY DEF LeaseInv, ClaimNothing
<1>2. ASSUME NEW x \in Store
      PROVE  /\ job'[x].kind = job[x].kind
             /\ job[x].status = "archived" => job'[x].status = "archived"
  <2>1. job[x] \in Job
    BY <1>1 DEF TypeOK
  <2>a. CASE x \in Unpayable
    BY <2>1, <2>a DEF ClaimNothing, NoLease, Job, Unpayable, Claimable
  <2>b. CASE x \notin Unpayable
    BY <2>b DEF ClaimNothing
  <2> QED
    BY <2>a, <2>b
<1> QED
  BY <1>1, <1>2, OthersKeepClean DEF CleanInv, ClosingIsArchive

\* The acknowledgement of the running job: an archive job acknowledges a store
\* that is clean, any other job one that is not closed.
LEMMA CleanComplete ==
  ASSUME LeaseInv, CleanInv, Complete
  PROVE  CleanInv'
<1>1. /\ TypeOK /\ work # Idle /\ work.step = "complete" /\ work.store \in Store
      /\ work' = Idle /\ vm' = vm /\ late' = late
      /\ \A r \in late : r.store \in Store
  BY DEF LeaseInv, Complete, TypeOK, Work, Request
<1>2. \A x \in Store : job'[x].kind = job[x].kind
  BY <1>1, CompleteRow
<1>3. LateIsClean'
  BY <1>1, <1>2 DEF CleanInv, LateIsClean, ArchiveAcknowledgement
<1>4. work.kind = "archive" =>
        Cleaned(vm[work.store]) /\ job[work.store].kind = "archive"
  BY <1>1 DEF CleanInv, ArchiveProgress, ArchivedSoFar, Cleaned
<1>5. ASSUME NEW x \in Store, tenant'[x] \in {"closing", "closed"}
      PROVE  /\ job[x].kind = "archive"
             /\ tenant'[x] = "closed" =>
                  Cleaned(vm[x]) /\ job'[x].status = "archived"
  <2>1. CASE job'[x] = job[x] /\ tenant'[x] = tenant[x]
    BY <1>5, <2>1 DEF CleanInv, ClosingIsArchive, ClosedIsClean
  <2>2. CASE x = work.store /\ work.kind = "archive"
    BY <1>1, <1>4, <2>2, CompleteRow
  <2>3. CASE x = work.store /\ work.kind # "archive"
    BY <1>1, <1>5, <2>3, CompleteRow DEF CleanInv, ClosingIsArchive, ArchivesAlone
  <2> QED
    BY <1>1, <2>1, <2>2, <2>3, CompleteRow
<1> QED
  BY <1>1, <1>2, <1>3, <1>5, IdleIsClean DEF CleanInv, ClosingIsArchive, ClosedIsClean

\* A late acknowledgement of an archive job finds the store as clean as it was
\* when the worker sent it.
LEMMA CleanArrive ==
  ASSUME LeaseInv, CleanInv, NEW r \in late, Arrive(r)
  PROVE  CleanInv'
<1>1. /\ TypeOK /\ r.store \in Store
      /\ work' = work /\ vm' = vm /\ late' \subseteq late
      /\ \A q \in late : q.store \in Store
      /\ work # Idle => work.store \in Store
  BY DEF LeaseInv, TypeOK, Request, Work, Arrive
<1>2. ASSUME NEW x \in Store
      PROVE  /\ job'[x].kind = job[x].kind
             /\ \/ tenant'[x] = tenant[x] /\ job'[x] = job[x]
                \/ tenant'[x] = tenant[x] /\ job[x].status = "provisioning"
                \/ /\ x = r.store /\ ArchiveAcknowledgement(r)
                   /\ tenant'[x] = "closed" /\ job'[x].status = "archived"
  BY <1>1, ArriveRow DEF SameJob, Leased, ArchiveAcknowledgement
<1>3. OwnSteps' /\ ArchiveProgress'
  BY <1>1, <1>2 DEF CleanInv, OwnSteps, ArchiveProgress
<1>4. LateIsClean'
  BY <1>1, <1>2 DEF CleanInv, LateIsClean, ArchiveAcknowledgement
<1>5. ArchivesAlone'
  <2> SUFFICES ASSUME work # Idle, work.kind # "archive"
               PROVE  /\ tenant'[work.store] # "closed"
                      /\ \A q \in late' :
                           ArchiveAcknowledgement(q) => q.store # work.store
    BY <1>1 DEF ArchivesAlone, ArchiveAcknowledgement
  <2>1. /\ tenant[work.store] # "closed"
        /\ \A q \in late : ArchiveAcknowledgement(q) => q.store # work.store
    BY DEF CleanInv, ArchivesAlone
  <2> QED
    BY <1>1, <1>2, <2>1
<1>6. ASSUME NEW x \in Store, tenant'[x] \in {"closing", "closed"}
      PROVE  /\ job[x].kind = "archive"
             /\ tenant'[x] = "closed" =>
                  Cleaned(vm[x]) /\ job'[x].status = "archived"
  <2>1. CASE tenant'[x] = tenant[x] /\ job'[x] = job[x]
    BY <1>6, <2>1 DEF CleanInv, ClosingIsArchive, ClosedIsClean
  <2>2. CASE tenant'[x] = tenant[x] /\ job[x].status = "provisioning"
    BY <1>6, <2>2 DEF CleanInv, ClosingIsArchive, ClosedIsClean
  <2>3. CASE x = r.store /\ ArchiveAcknowledgement(r) /\ job'[x].status = "archived"
    BY <2>3 DEF CleanInv, LateIsClean
  <2> QED
    BY <1>2, <2>1, <2>2, <2>3
<1>7. ClosingIsArchive' /\ ClosedIsClean'
  BY <1>1, <1>2, <1>6 DEF ClosingIsArchive, ClosedIsClean
<1> QED
  BY <1>3, <1>4, <1>5, <1>7 DEF CleanInv

LEMMA CleanTime ==
  ASSUME LeaseInv, CleanInv, Tick \/ TickUnrenewed
  PROVE  CleanInv'
<1>1. TypeOK /\ TimePasses /\ vm' = vm /\ late' = late /\ tenant' = tenant
  BY DEF LeaseInv, Tick, TickUnrenewed, TimePasses
<1>2. work' = Idle \/ SameRun
  <2>1. CASE work = Idle
    BY <1>1, <2>1 DEF TimePasses
  <2>2. CASE work # Idle
    BY <1>1, <2>2 DEF TimePasses, SameRun, TypeOK, Work
  <2> QED
    BY <2>1, <2>2
<1>3. \A x \in Store :
        job'[x].kind = job[x].kind /\ job'[x].status = job[x].status
  BY <1>1, TimeRow DEF SameJob
<1> QED
  BY <1>1, <1>2, <1>3, OthersKeepClean DEF CleanInv, ClosingIsArchive

LEMMA CleanNext ==
  ASSUME LeaseInv, CleanInv, [Next]_vars
  PROVE  CleanInv'
<1>1. TypeOK
  BY DEF LeaseInv
<1>2. CASE UNCHANGED vars
  BY <1>2 DEF vars, CleanInv, OwnSteps, ArchiveProgress, LateIsClean, ArchivesAlone,
              ClosingIsArchive, ClosedIsClean, ArchiveAcknowledgement
<1>3. CASE Next
  BY <1>1, <1>3, CleanPlatform, CleanClaim, CleanClaimNothing, CleanWorker,
     CleanComplete, CleanArrive, CleanTime DEF Next, WorkerStep
<1> QED
  BY <1>2, <1>3

\* A closed store is entirely cleaned and stays so, whatever is lost, late or cut
\* short: archive takes its steps in their order, a run of another job is over
\* before an archive job begins, and an acknowledgement that arrives late speaks
\* of a store that nothing has touched since.
THEOREM ClosedStoresAreClean == Spec => []ClosedIsClean
<1>1. LeaseInv /\ CleanInv /\ [Next]_vars => CleanInv'
  BY CleanNext
<1>2. CleanInv => ClosedIsClean
  BY DEF CleanInv
<1> QED
  BY <1>1, <1>2, CleanInit, LeaseInvariant, PTL DEF Spec

-----------------------------------------------------------------------------
(* The two counts of the machine's places *)

\* Only stores the platform admitted are worked on, or have a state file.
Reserved ==
  /\ work # Idle => work.store \in Store /\ tenant[work.store] # "none"
  /\ \A s \in Store : vm[s].state => tenant[s] # "none"

\* A run changes no machine but that of its store, and no tenant.
LEMMA OwnWork ==
  ASSUME TypeOK, WorkerStep
  PROVE  /\ work # Idle /\ tenant' = tenant
         /\ work' = Idle \/ work'.store = work.store
<1>1. work # Idle /\ tenant' = tenant
  BY DEF WorkerStep, BeginStep, StopWithoutLease, FinishStep, StepRefused,
     StepLosesLease, StepFails, CallDelayed, Crash, Heartbeat, HeartbeatRefused,
     HeartbeatLost
<1>2. work \in Work
  BY <1>1 DEF TypeOK
<1>3. work' = Idle \/ work'.store = work.store
  BY <1>2 DEF WorkerStep, BeginStep, StopWithoutLease, FinishStep, StepRefused,
     StepLosesLease, StepFails, CallDelayed, Crash, Heartbeat, HeartbeatRefused,
     HeartbeatLost, GiveUp, Work
<1> QED
  BY <1>1, <1>3

LEMMA OwnMachine ==
  ASSUME TypeOK, WorkerStep, NEW s \in Store
  PROVE  vm'[s] = vm[s] \/ s = work.store
<1>1. vm \in [Store -> Machine]
  BY DEF TypeOK
<1>2. CASE UNCHANGED vm \/ CutShort
  BY <1>1, <1>2 DEF CutShort
<1>3. CASE FinishStep
  BY <1>1, <1>3 DEF FinishStep
<1> QED
  BY <1>2, <1>3 DEF WorkerStep, BeginStep, StopWithoutLease, StepRefused,
     StepLosesLease, StepFails, CallDelayed, Crash, Heartbeat, HeartbeatRefused,
     HeartbeatLost

\* No step takes a store back to where the platform had not admitted it, and no
\* step is of more than one store.
LEMMA TenantStep ==
  ASSUME TypeOK, [Next]_vars
  PROVE  \/ tenant' = tenant
         \/ \E x \in Store, status \in {"open", "closing", "closed"} :
              tenant' = [tenant EXCEPT ![x] = status]
<1>1. CASE UNCHANGED vars
  BY <1>1 DEF vars
<1>2. CASE \E s \in Store :
             \/ CreateStore(s) \/ ActivateStoreSearch(s) \/ RequestStoreCleanup(s)
             \/ RetryStoreProvisioning(s) \/ ChangeStanding(s)
  BY <1>2 DEF CreateStore, ActivateStoreSearch, RequestStoreCleanup,
     RetryStoreProvisioning, ChangeStanding
<1>3. CASE ClaimNothing \/ \E s \in Store : ClaimOf(s) \/ ClaimLostOf(s)
  BY <1>3 DEF ClaimNothing, ClaimOf, ClaimLostOf, Claim, ClaimLost
<1>4. CASE WorkerStep
  BY <1>4, OwnWork
<1>5. CASE Complete
  <2>1. work.store \in Store
    BY <1>5 DEF TypeOK, Complete, Work
  <2> QED
    BY <1>5, <2>1 DEF Complete, FinishJob
<1>6. CASE \E r \in late : Arrive(r)
  <2>1. PICK r \in late : Arrive(r)
    BY <1>6
  <2>2. r.store \in Store
    BY DEF TypeOK, Request
  <2> QED
    BY <2>1, <2>2 DEF Arrive, FinishJob
<1>7. CASE Tick \/ TickUnrenewed
  BY <1>7 DEF Tick, TickUnrenewed, TimePasses
<1> QED
  BY <1>1, <1>2, <1>3, <1>4, <1>5, <1>6, <1>7 DEF Next, WorkerStep

LEMMA ReservedNext ==
  ASSUME LeaseInv, Reserved, [Next]_vars
  PROVE  Reserved'
<1>1. /\ TypeOK /\ NotYetCreated
      /\ tenant \in [Store -> {"none", "open", "closing", "closed"}]
  BY DEF LeaseInv, TypeOK
<1>2. \A s \in Store : tenant[s] # "none" => tenant'[s] # "none"
  BY <1>1, TenantStep
<1>3. ASSUME vm' = vm, work' = Idle \/ work' = work \/ (work # Idle /\ work'.store = work.store)
      PROVE  Reserved'
  BY <1>2, <1>3 DEF Reserved
<1>4. CASE UNCHANGED vars
  BY <1>3, <1>4 DEF vars
<1>5. CASE \E s \in Store :
             \/ CreateStore(s) \/ ActivateStoreSearch(s) \/ RequestStoreCleanup(s)
             \/ RetryStoreProvisioning(s) \/ ChangeStanding(s) \/ ClaimLostOf(s)
  BY <1>3, <1>5 DEF CreateStore, ActivateStoreSearch, RequestStoreCleanup,
     RetryStoreProvisioning, ChangeStanding, ClaimLostOf, ClaimLost
<1>6. CASE \E s \in Store : ClaimOf(s)
  <2>1. PICK s \in Store, refused \in SUBSET Unpayable, k \in Token :
          Claim(s, refused, k)
    BY <1>6 DEF ClaimOf
  <2>2. /\ work'.store = s /\ vm' = vm /\ s \in Claimable
    BY <2>1 DEF Claim, Lend
  <2>3. tenant[s] # "none"
    BY <1>1, <2>2 DEF Claimable, NotYetCreated
  <2> QED
    BY <1>2, <2>2, <2>3 DEF Reserved
<1>7. CASE ClaimNothing \/ Complete
  BY <1>3, <1>7 DEF ClaimNothing, Complete
<1>8. CASE WorkerStep
  <2>1. /\ work # Idle /\ tenant' = tenant
        /\ work' = Idle \/ work'.store = work.store
    BY <1>1, <1>8, OwnWork
  <2>2. \A s \in Store : vm'[s] = vm[s] \/ s = work.store
    BY <1>1, <1>8, OwnMachine
  <2> QED
    BY <2>1, <2>2 DEF Reserved
<1>9. CASE \E r \in late : Arrive(r)
  BY <1>3, <1>9 DEF Arrive
<1>10. CASE Tick \/ TickUnrenewed
  <2>1. vm' = vm /\ (work' = Idle \/ (work # Idle /\ work'.store = work.store))
    BY <1>1, <1>10 DEF Tick, TickUnrenewed, TimePasses, TypeOK, Work
  <2> QED
    BY <1>3, <2>1
<1> QED
  BY <1>4, <1>5, <1>6, <1>7, <1>8, <1>9, <1>10 DEF Next, WorkerStep

LEMMA AdmittedFinite ==
  ASSUME TypeOK, IsFiniteSet(Admitted), [Next]_vars
  PROVE  IsFiniteSet(Admitted')
<1>1. CASE tenant' = tenant
  BY <1>1 DEF Admitted
<1>2. CASE \E x \in Store, status \in {"open", "closing", "closed"} :
             tenant' = [tenant EXCEPT ![x] = status]
  <2>1. PICK x \in Store, status \in {"open", "closing", "closed"} :
          tenant' = [tenant EXCEPT ![x] = status]
    BY <1>2
  <2>2. Admitted' \subseteq Admitted \cup {x}
    BY <2>1 DEF Admitted, TypeOK
  <2>3. IsFiniteSet(Admitted \cup {x})
    BY FS_AddElement
  <2> QED
    BY <2>2, <2>3, FS_Subset
<1> QED
  BY <1>1, <1>2, TenantStep

\* Every file the machine counts is of a store the platform counts, so a store
\* that still has no file is the one place of the platform's that the machine
\* does not count.
LEMMA PlacesAgree ==
  ASSUME TypeOK, ClosedIsClean, Reserved, IsFiniteSet(Admitted)
  PROVE  AdmittedFits
<1> SUFFICES ASSUME Cardinality(Admitted) <= Capacity,
                    NEW s \in Admitted, ~vm[s].state
             PROVE  Cardinality(States) < Capacity
  BY DEF AdmittedFits
<1>1. States \subseteq Admitted \ {s}
  <2> SUFFICES ASSUME NEW x \in States PROVE x \in Admitted /\ x # s
    OBVIOUS
  <2>1. x \in Store /\ vm[x].state /\ ~vm[x].archived
    BY DEF States
  <2>2. tenant[x] # "none" /\ tenant[x] # "closed"
    BY <2>1 DEF Reserved, ClosedIsClean, Cleaned
  <2> QED
    BY <2>1, <2>2 DEF Admitted, TypeOK
<1>2. /\ IsFiniteSet(Admitted \ {s})
      /\ Cardinality(Admitted \ {s}) = Cardinality(Admitted) - 1
  BY FS_RemoveElement
<1>3. Cardinality(States) <= Cardinality(Admitted \ {s})
  BY <1>1, <1>2, FS_Subset
<1>4. IsFiniteSet(States)
  BY <1>1, <1>2, FS_Subset
<1>5. /\ Cardinality(States) \in Nat /\ Cardinality(Admitted) \in Nat
  BY <1>4, FS_CardinalityType
<1> QED
  BY <1>2, <1>3, <1>5, NumberAssumption

\* The two counts agree for any number of stores: unless the platform admitted
\* more than the machine holds, no admitted store is refused for want of room,
\* whatever runs died, gave up or acknowledged late on the way.
THEOREM AdmittedStoresFit == Spec => []AdmittedFits
<1>1. Init => Reserved /\ IsFiniteSet(Admitted)
  <2> SUFFICES ASSUME Init PROVE Reserved /\ IsFiniteSet(Admitted)
    OBVIOUS
  <2>1. Admitted = {} /\ Reserved
    BY DEF Init, Admitted, Reserved, NoMachine
  <2> QED
    BY <2>1, FS_EmptySet
<1>2. LeaseInv /\ Reserved /\ IsFiniteSet(Admitted) /\ [Next]_vars
        => Reserved' /\ IsFiniteSet(Admitted')
  BY ReservedNext, AdmittedFinite DEF LeaseInv
<1>3. LeaseInv /\ ClosedIsClean /\ Reserved /\ IsFiniteSet(Admitted) => AdmittedFits
  BY PlacesAgree DEF LeaseInv
<1> DEFINE Places == Reserved /\ IsFiniteSet(Admitted)
<1>4. Spec => []Places
  <2>1. Init => Places
    BY <1>1
  <2>2. LeaseInv /\ Places /\ [Next]_vars => Places'
    BY <1>2 DEF Admitted
  <2> QED
    BY <2>1, <2>2, LeaseInvariant, PTL DEF Spec
<1>5. LeaseInv /\ ClosedIsClean /\ Places => AdmittedFits
  BY <1>3
<1> QED
  BY <1>4, <1>5, LeaseInvariant, ClosedStoresAreClean, PTL
=============================================================================
