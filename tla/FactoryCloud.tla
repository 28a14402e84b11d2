----------------------------- MODULE FactoryCloud -----------------------------
(***************************************************************************)
(* The Factory Cloud as deployed: control-plane hosts (ControlPlane) whose *)
(* adapters hand every task to the application workers through the durable *)
(* queue (WorkQueue), as worker.py wires them together in                  *)
(* _runtime_adapters.                                                      *)
(***************************************************************************)
EXTENDS ControlPlane, WorkQueue

vars == <<lease, app, history, done, host, faults,
          jobs, worker, dispatcher, workerFaults>>

(* An adapter gives what workers report, and WAIT, PENDING and ERROR itself.*)
ASSUME FactoryCloudAssumption ==
  Verdict \cup {"WAIT", "PENDING", "ERROR"} \subseteq Result

Init == HostsInit /\ QueueInit

-----------------------------------------------------------------------------
(* A host's dispatch in its adapter: the source check of                    *)
(* VerifiedDispatchAdapter, then QueuedAppAdapter.                          *)

InAdapter(h) == host[h].pc = "adapter"

(* The request or the live branch head does not match, or cannot be read.   *)
Unverified(h) ==
  /\ dispatcher[h].pc = "idle"
  /\ AdapterReturns(h, "WAIT")
  /\ UNCHANGED queueVars

CallQueue(h) ==
  /\ InAdapter(h)
  /\ \/ Submit(h, host[h].cur.app, host[h].cur.task)
     \/ Consume(h)
     \/ ConsumeRefused(h)
  /\ UNCHANGED hostVars

Answer(h) ==
  /\ dispatcher[h].pc = "returned"
  /\ AdapterReturns(h, dispatcher[h].out)
  /\ EndCall(h)

StepHost(h) == HostStep(h) /\ UNCHANGED queueVars

(* A killed host takes the answer it was given with it.                     *)
CrashHost(h) ==
  /\ Crash(h)
  /\ IF dispatcher[h].pc = "idle" THEN UNCHANGED queueVars ELSE EndCall(h)

(* A stop signal inside submit_or_get or consume, whose transaction fails.  *)
StopInQueue(h) ==
  /\ dispatcher[h].pc \in {"idle", "consume"}
  /\ StopRaisesInAdapter(h)
  /\ IF dispatcher[h].pc = "idle" THEN UNCHANGED queueVars ELSE EndCall(h)

StepWorker(w) == WorkerStep(w) /\ UNCHANGED hostVars

WorkerFault(w) == (Renew(w) \/ CrashWorker(w)) /\ UNCHANGED hostVars

ClaimExpires(j) ==
  (ExpireAbandoned(j) \/ ExpireStalled(j)) /\ UNCHANGED hostVars

Surroundings == Environment /\ UNCHANGED queueVars

Next ==
  \/ \E h \in Host :
       \/ StepHost(h) \/ CrashHost(h) \/ StopInQueue(h)
       \/ Unverified(h) \/ CallQueue(h) \/ Answer(h)
  \/ \E w \in Worker : StepWorker(w) \/ WorkerFault(w)
  \/ \E j \in DOMAIN jobs : ClaimExpires(j)
  \/ Surroundings

Spec == Init /\ [][Next]_vars

(* Hosts and workers run and are restarted; leases and claims nobody renews *)
(* expire; retry times come.                                                *)
Fairness ==
  /\ \A h \in Host : WF_vars(StepHost(h) \/ CallQueue(h) \/ Answer(h))
  /\ \A w \in Worker : WF_vars(StepWorker(w))
  /\ \A j \in 1..MaxJobs :
       WF_vars(j \in DOMAIN jobs /\ ExpireAbandoned(j) /\ UNCHANGED hostVars)
  /\ WF_vars(LeaseExpires /\ UNCHANGED queueVars)
  /\ \A a \in App : WF_vars(RetryDue(a) /\ UNCHANGED queueVars)

FairSpec == Spec /\ Fairness

-----------------------------------------------------------------------------
JobsOf(a, t, S) ==
  {j \in DOMAIN jobs : jobs[j].app = a /\ jobs[j].task = t /\ jobs[j].status \in S}

(* The control plane never believes a task done that no worker finished:    *)
(* what it records as DONE is the verdict of a consumed job, although hosts *)
(* and workers crash, stall and repeat each other's work.                   *)
NoPhantomDone ==
  \A d \in done : \E j \in JobsOf(d[1], d[2], {"DONE"}) : jobs[j].consumed

(* No job outlives its task: whatever is queued, running or unread belongs  *)
(* to a task still in the baton, so its answer will be asked for.  Holds    *)
(* when hosts only crash.                                                   *)
NoStrandedJob ==
  \A j \in DOMAIN jobs :
    ~jobs[j].consumed => jobs[j].task \in Remaining(app[jobs[j].app])

(* A task that a worker finished is not dispatched again ("killing/         *)
(* restarting the control service records interruption/recovery without     *)
(* duplicate dispatch", runtime/README.md:57).                              *)
NoDuplicateDispatch ==
  \A a \in App, t \in Task : \A i, j \in DOMAIN jobs :
    i \in JobsOf(a, t, {"DONE"}) /\ jobs[j].app = a /\ jobs[j].task = t => j <= i

(* It is not, whatever workers do, while no host is killed.                 *)
NoDuplicateWithoutHostCrash == faults.crashes = 0 => NoDuplicateDispatch

(* Liveness: every task of every baton is finished by a worker and taken    *)
(* off its baton in the end, through crashes on both sides of the queue.    *)
EveryTaskDone == BatonsDrain
=============================================================================
