------------------------------ MODULE WorkQueue ------------------------------
(***************************************************************************)
(* The durable hand-off queue between the Factory Cloud control plane and  *)
(* the per-application workers: the worker_jobs table (work_queue.py), the *)
(* dispatching side of it (QueuedAppAdapter.execute) and the worker        *)
(* processes that claim, renew and finish jobs (app_worker.py).            *)
(*                                                                         *)
(* Each SQLite transaction is one action.  A job is its position in the    *)
(* table's created_at order.  Clock readings are reduced to the one fact   *)
(* the code computes from them: whether a claim has expired.               *)
(*                                                                         *)
(* Definitions named Faulty... are not part of the specification: each is  *)
(* the definition after it with one plausible bug, which some property has *)
(* to detect.                                                              *)
(***************************************************************************)
EXTENDS Naturals, Sequences, Portfolio

CONSTANTS
  Worker,       \* app_worker processes
  AppOf,        \* the one application each worker serves (--app-id)
  Verdict,      \* bound: the result statuses that workers report
  MaxJobs,      \* bound: rows of worker_jobs
  MaxWorkerStalls,   \* bound: times a beating claim expires under its worker
  MaxWorkerCrashes   \* bound: worker processes killed

JobTerminal == {"DONE", "WAIT", "BLOCKED", "ERROR"}

ASSUME WorkQueueAssumption ==
  /\ AppOf \in [Worker -> App]
  /\ None \notin Worker
  /\ Verdict \subseteq JobTerminal
  /\ MaxJobs \in Nat /\ MaxWorkerStalls \in Nat /\ MaxWorkerCrashes \in Nat

VARIABLES
  jobs,         \* the worker_jobs table
  worker,       \* the worker processes
  dispatcher,   \* the calls of QueuedAppAdapter.execute in progress
  workerFaults  \* how many stalls and crashes have been spent

queueVars == <<jobs, worker, dispatcher, workerFaults>>

NoJob == 0

(* What an execute call can return: a worker's result, or PENDING, the WAIT *)
(* whose blocker is app_worker_execution_pending.                           *)
CallOutcome == JobTerminal \cup {"PENDING"}

Job ==
  [app : App, task : Task,
   status : {"QUEUED", "RUNNING"} \cup JobTerminal,
   owner : Worker \cup {None},   \* claimed_by
   live : BOOLEAN,               \* claim_expires_at is in the future
   attempt : Nat,
   consumed : BOOLEAN]           \* consumed_at is set

WorkerState ==
  [pc : {"down", "idle", "executing", "finished"},
   job : Nat, attempt : Nat,     \* the claimed row, as read by claim()
   beat : BOOLEAN,               \* the heartbeat thread is running
   stop : BOOLEAN]               \* stop_event is set

DispatcherState ==
  [pc : {"idle", "consume", "returned"}, job : Nat, out : CallOutcome \cup {None}]

QueueTypeOK ==
  /\ jobs \in Seq(Job)
  /\ worker \in [Worker -> WorkerState]
  /\ dispatcher \in [Host -> DispatcherState]
  /\ workerFaults \in [stalls : Nat, crashes : Nat]

FreshWorker ==
  [pc |-> "idle", job |-> NoJob, attempt |-> 0, beat |-> FALSE, stop |-> FALSE]

DownWorker == [FreshWorker EXCEPT !.pc = "down"]

IdleDispatcher == [pc |-> "idle", job |-> NoJob, out |-> None]

QueueInit ==
  /\ jobs = <<>>
  /\ worker = [w \in Worker |-> FreshWorker]
  /\ dispatcher = [d \in Host |-> IdleDispatcher]
  /\ workerFaults = [stalls |-> 0, crashes |-> 0]

-----------------------------------------------------------------------------
(* The dispatching side: QueuedAppAdapter.execute.                          *)

FaultyOutstandingQueued(a, t) ==   \* a claimed job is not outstanding
  {j \in DOMAIN jobs :
     jobs[j].app = a /\ jobs[j].task = t /\ jobs[j].status = "QUEUED"}

FaultyOutstandingOpen(a, t) ==     \* a finished, unread job is not outstanding
  {j \in DOMAIN jobs :
     jobs[j].app = a /\ jobs[j].task = t /\ jobs[j].status \notin JobTerminal}

Outstanding(a, t) ==
  {j \in DOMAIN jobs :
     jobs[j].app = a /\ jobs[j].task = t /\ ~jobs[j].consumed}

QueuedJob(a, t) ==
  [app |-> a, task |-> t, status |-> "QUEUED", owner |-> None,
   live |-> FALSE, attempt |-> 0, consumed |-> FALSE]

Returned(j, o) == [pc |-> "returned", job |-> j, out |-> o]

FaultySubmitNew(d, a, t) ==        \* handing the task over counts as doing it
  /\ dispatcher[d].pc = "idle"
  /\ Outstanding(a, t) = {}
  /\ Len(jobs) < MaxJobs
  /\ jobs' = Append(jobs, QueuedJob(a, t))
  /\ dispatcher' = [dispatcher EXCEPT ![d] = Returned(NoJob, "DONE")]
  /\ UNCHANGED <<worker, workerFaults>>

(* submit_or_get finds no unconsumed job of this task and inserts one.      *)
SubmitNew(d, a, t) ==
  /\ dispatcher[d].pc = "idle"
  /\ Outstanding(a, t) = {}
  /\ Len(jobs) < MaxJobs
  /\ jobs' = Append(jobs, QueuedJob(a, t))
  /\ dispatcher' = [dispatcher EXCEPT ![d] = Returned(NoJob, "PENDING")]
  /\ UNCHANGED <<worker, workerFaults>>

(* submit_or_get returns the newest unconsumed job of this task: a finished *)
(* one will be consumed, any other is reported as pending.                  *)
SubmitExisting(d, a, t) ==
  /\ dispatcher[d].pc = "idle"
  /\ \E j \in Outstanding(a, t) :
       /\ \A k \in Outstanding(a, t) : k <= j
       /\ dispatcher' =
            [dispatcher EXCEPT ![d] =
               IF jobs[j].status \in JobTerminal
               THEN [pc |-> "consume", job |-> j, out |-> None]
               ELSE Returned(NoJob, "PENDING")]
  /\ UNCHANGED <<jobs, worker, workerFaults>>

Submit(d, a, t) == SubmitNew(d, a, t) \/ SubmitExisting(d, a, t)

FaultyConsume(d) ==                \* consumed_at is not checked
  LET j == dispatcher[d].job IN
  /\ dispatcher[d].pc = "consume"
  /\ jobs[j].status \in JobTerminal
  /\ jobs' = [jobs EXCEPT ![j] = [@ EXCEPT !.consumed = TRUE]]
  /\ dispatcher' = [dispatcher EXCEPT ![d] = Returned(j, jobs[j].status)]
  /\ UNCHANGED <<worker, workerFaults>>

(* consume() commits consumed_at and hands the stored result to the caller. *)
Consume(d) ==
  LET j == dispatcher[d].job IN
  /\ dispatcher[d].pc = "consume"
  /\ jobs[j].status \in JobTerminal /\ ~jobs[j].consumed
  /\ jobs' = [jobs EXCEPT ![j] = [@ EXCEPT !.consumed = TRUE]]
  /\ dispatcher' = [dispatcher EXCEPT ![d] = Returned(j, jobs[j].status)]
  /\ UNCHANGED <<worker, workerFaults>>

(* consume() raises because another caller consumed the job first; the      *)
(* orchestrator turns the exception into an ERROR result.                   *)
ConsumeRefused(d) ==
  LET j == dispatcher[d].job IN
  /\ dispatcher[d].pc = "consume"
  /\ ~(jobs[j].status \in JobTerminal /\ ~jobs[j].consumed)
  /\ dispatcher' = [dispatcher EXCEPT ![d] = Returned(NoJob, "ERROR")]
  /\ UNCHANGED <<jobs, worker, workerFaults>>

(* The caller has taken the result, or its process died holding it.         *)
EndCall(d) ==
  /\ dispatcher[d].pc # "idle"
  /\ dispatcher' = [dispatcher EXCEPT ![d] = IdleDispatcher]
  /\ UNCHANGED <<jobs, worker, workerFaults>>

-----------------------------------------------------------------------------
(* The worker side: AppWorkerHost.                                          *)

FaultyClaimable(w) ==              \* expired claims are not taken over
  {j \in DOMAIN jobs :
     jobs[j].app = AppOf[w] /\ ~jobs[j].consumed /\ jobs[j].status = "QUEUED"}

FaultyReclaimable(w) ==            \* an expired claim need not be RUNNING
  {j \in DOMAIN jobs :
     /\ jobs[j].app = AppOf[w] /\ ~jobs[j].consumed
     /\ jobs[j].status = "QUEUED" \/ ~jobs[j].live}

Claimable(w) ==
  {j \in DOMAIN jobs :
     /\ jobs[j].app = AppOf[w] /\ ~jobs[j].consumed
     /\ \/ jobs[j].status = "QUEUED"
        \/ jobs[j].status = "RUNNING" /\ ~jobs[j].live}

FaultyClaimed(job, w) ==           \* a reclaim keeps the first owner
  [job EXCEPT !.status = "RUNNING", !.live = TRUE, !.attempt = @ + 1,
              !.owner = IF job.owner = None THEN w ELSE job.owner]

Claimed(job, w) ==
  [job EXCEPT !.status = "RUNNING", !.owner = w, !.live = TRUE, !.attempt = @ + 1]

(* claim() takes the oldest queued job or expired claim of the worker's app.*)
Claim(w) ==
  /\ worker[w].pc = "idle" /\ ~worker[w].stop
  /\ \E j \in Claimable(w) :
       /\ \A k \in Claimable(w) : j <= k
       /\ jobs' = [jobs EXCEPT ![j] = Claimed(jobs[j], w)]
       /\ worker' = [worker EXCEPT ![w] =
                       [pc |-> "executing", job |-> j,
                        attempt |-> jobs[j].attempt + 1,
                        beat |-> TRUE, stop |-> FALSE]]
  /\ UNCHANGED <<dispatcher, workerFaults>>

(* The condition of both renew_claim and finish.                            *)
HoldsClaim(w, j) == jobs[j].owner = w /\ jobs[j].status = "RUNNING"

(* The heartbeat thread.  It runs until run_once sets heartbeat_stop, which *)
(* is after finish() has committed: a beat in that gap finds the job        *)
(* finished, takes that for a lost claim and stops the worker.              *)
Renew(w) ==
  LET j == worker[w].job IN
  /\ worker[w].pc \in {"executing", "finished"} /\ worker[w].beat
  /\ IF HoldsClaim(w, j)
     THEN /\ jobs' = [jobs EXCEPT ![j] = [@ EXCEPT !.live = TRUE]]
          /\ UNCHANGED worker
     ELSE /\ worker' = [worker EXCEPT ![w] =
                          [@ EXCEPT !.beat = FALSE, !.stop = TRUE]]
          /\ UNCHANGED jobs
  /\ UNCHANGED <<dispatcher, workerFaults>>

(* The adapter has returned status s and finish() records it.               *)
Finish(w, s) ==
  LET j == worker[w].job IN
  /\ worker[w].pc = "executing"
  /\ HoldsClaim(w, j)
  /\ jobs' = [jobs EXCEPT ![j] = [@ EXCEPT !.status = s, !.live = FALSE]]
  /\ worker' = [worker EXCEPT ![w] = [@ EXCEPT !.pc = "finished"]]
  /\ UNCHANGED <<dispatcher, workerFaults>>

(* finish() raises "worker job claim lost", which nothing catches: the      *)
(* process exits and the service manager may start a new one.               *)
FinishLost(w) ==
  /\ worker[w].pc = "executing"
  /\ ~HoldsClaim(w, worker[w].job)
  /\ worker' = [worker EXCEPT ![w] = DownWorker]
  /\ UNCHANGED <<jobs, dispatcher, workerFaults>>

(* run_once joins its heartbeat; run_forever goes on unless stop is set.    *)
EndRun(w) ==
  /\ worker[w].pc = "finished"
  /\ worker' = [worker EXCEPT ![w] =
                  IF worker[w].stop THEN DownWorker ELSE FreshWorker]
  /\ UNCHANGED <<jobs, dispatcher, workerFaults>>

(* Restart=always.  A new process has a new worker_id; the model reuses w,  *)
(* which no other process holds any more.                                   *)
StartWorker(w) ==
  /\ worker[w].pc = "down"
  /\ worker' = [worker EXCEPT ![w] = FreshWorker]
  /\ UNCHANGED <<jobs, dispatcher, workerFaults>>

CrashWorker(w) ==
  /\ worker[w].pc # "down"
  /\ workerFaults.crashes < MaxWorkerCrashes
  /\ workerFaults' = [workerFaults EXCEPT !.crashes = @ + 1]
  /\ worker' = [worker EXCEPT ![w] = DownWorker]
  /\ UNCHANGED <<jobs, dispatcher>>

-----------------------------------------------------------------------------
(* Time: a claim runs out.                                                  *)

Beating(j) == \E w \in Worker : worker[w].job = j /\ worker[w].beat /\ HoldsClaim(w, j)

ClaimRunsOut(j) ==
  /\ jobs[j].status = "RUNNING" /\ jobs[j].live
  /\ jobs' = [jobs EXCEPT ![j] = [@ EXCEPT !.live = FALSE]]
  /\ UNCHANGED <<worker, dispatcher>>

(* Nobody renews the claim any more: it expires lease_seconds later.        *)
ExpireAbandoned(j) ==
  /\ ~Beating(j)
  /\ ClaimRunsOut(j)
  /\ UNCHANGED workerFaults

(* The worker is paused, or locked out of the database, for longer than its *)
(* lease: the claim expires although its process is alive.                  *)
ExpireStalled(j) ==
  /\ Beating(j)
  /\ workerFaults.stalls < MaxWorkerStalls
  /\ workerFaults' = [workerFaults EXCEPT !.stalls = @ + 1]
  /\ ClaimRunsOut(j)

-----------------------------------------------------------------------------
ExecuteStep(d) ==
  \/ \E a \in App, t \in Task : Submit(d, a, t)
  \/ Consume(d)
  \/ ConsumeRefused(d)
  \/ EndCall(d)

WorkerStep(w) ==
  \/ StartWorker(w)
  \/ Claim(w)
  \/ \E s \in Verdict : Finish(w, s)
  \/ FinishLost(w)
  \/ EndRun(w)

QueueNext ==
  \/ \E d \in Host : ExecuteStep(d)
  \/ \E w \in Worker : WorkerStep(w) \/ Renew(w) \/ CrashWorker(w)
  \/ \E j \in DOMAIN jobs : ExpireAbandoned(j) \/ ExpireStalled(j)

QueueSpec == QueueInit /\ [][QueueNext]_queueVars

(* Workers run and are restarted, and an unrenewed claim expires in the     *)
(* end.  Nothing obliges a host to call, and faults never have to           *)
(* happen.                                                                  *)
QueueFairness ==
  /\ \A w \in Worker : WF_queueVars(WorkerStep(w))
  /\ \A j \in 1..MaxJobs : WF_queueVars(j \in DOMAIN jobs /\ ExpireAbandoned(j))

QueueFairSpec == QueueSpec /\ QueueFairness

-----------------------------------------------------------------------------
(* Safety.                                                                  *)

(* submit_or_get never leaves two unconsumed jobs for one task, whatever    *)
(* control-plane hosts call it at the same time (work_queue.py:50-69).      *)
OneOutstandingJob ==
  \A i, j \in DOMAIN jobs :
    /\ jobs[i].app = jobs[j].app /\ jobs[i].task = jobs[j].task
    /\ ~jobs[i].consumed /\ ~jobs[j].consumed
    => i = j

(* claimed_by is a sound fencing token although it names a process and not  *)
(* a claim: a process that passes the check of renew_claim and finish is    *)
(* always the one that made the row's latest claim, so a worker whose claim *)
(* was reclaimed can never write its result (work_queue.py:109-132).        *)
ClaimFence ==
  \A w \in Worker :
    worker[w].pc = "executing" /\ HoldsClaim(w, worker[w].job)
      => worker[w].attempt = jobs[worker[w].job].attempt

(* A finished job's result reaches one control-plane caller only, and it    *)
(* gets the result that was recorded, even when two hosts read the same     *)
(* finished row before either consumes it (work_queue.py:134-144, 161-181). *)
SingleDelivery ==
  \A c, d \in Host :
    dispatcher[d].pc = "returned" /\ dispatcher[d].job # NoJob =>
      /\ jobs[dispatcher[d].job].consumed
      /\ dispatcher[d].out = jobs[dispatcher[d].job].status
      /\ dispatcher[c].pc = "returned" /\ dispatcher[c].job = dispatcher[d].job
           => c = d

(* What the queue implements: JobLedger, which knows nothing of workers,    *)
(* claims, leases or crashes.                                               *)
Phase(job) ==
  IF job.consumed THEN "taken"
  ELSE IF job.status \in JobTerminal THEN "settled" ELSE "open"

LedgerEntry(job) ==
  [app |-> job.app, task |-> job.task, phase |-> Phase(job),
   verdict |-> IF job.status \in JobTerminal THEN job.status ELSE None]

Ledger ==
  INSTANCE JobLedger WITH ledger <- [j \in DOMAIN jobs |-> LedgerEntry(jobs[j])],
                          Verdict <- JobTerminal

(* The queue's durable rows behave as that ledger: one outstanding entry    *)
(* per task, a result that never changes once recorded, taken only after it *)
(* was recorded and only once.                                              *)
ImplementsLedger == Ledger!Spec

(* Liveness: a submitted job is finished in the end, although workers crash,*)
(* stall, lose claims and are stopped by their own heartbeat, because an    *)
(* abandoned claim expires and is reclaimed (factory_cloud/README.md:13).   *)
EveryJobSettles ==
  \A j \in 1..MaxJobs :
    (j \in DOMAIN jobs) ~> (j \in DOMAIN jobs /\ jobs[j].status \in JobTerminal)
=============================================================================
