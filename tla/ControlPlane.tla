----------------------------- MODULE ControlPlane -----------------------------
(***************************************************************************)
(* The Factory Cloud control plane: WorkerHost processes (worker.py) that  *)
(* compete for the dispatch lease, recover interrupted executions, and run *)
(* dispatch cycles of PersistentFactoryOrchestrator (orchestrator.py) over *)
(* the durable batons of StateStore (state_store.py).                      *)
(*                                                                         *)
(* Each SQLite transaction is one action; the signal handler, the          *)
(* heartbeat thread and the cycle of one host interleave freely.  What an  *)
(* adapter answers is left open here; FactoryCloud connects it to the work *)
(* queue.                                                                  *)
(*                                                                         *)
(* An application's state is EXECUTING exactly when its current execution  *)
(* is set (start_execution sets both, checkpoint clears both), so only the *)
(* latter is kept.  An execution id nobody refers to any more is reused.   *)
(* Results carry no next_active or next_items of their own: the baton      *)
(* alone orders the work.                                                  *)
(*                                                                         *)
(* Definitions named Faulty... are not part of the specification: each is  *)
(* the definition after it with one plausible bug, which some property has *)
(* to detect.                                                              *)
(***************************************************************************)
EXTENDS Naturals, Sequences, Portfolio

CONSTANTS
  Rank,         \* dispatch order: portfolio score, then application id
  Plans,        \* the initial batons: [App -> [active, next]]
  Result,       \* bound: results the adapters give in an instance
  Gone,         \* the owner id of a process that no longer exists
  NoTask,       \* the empty active task
  MaxDispatches,\* max_dispatches_per_cycle
  Exec,         \* bound: execution ids in use at the same time
  MaxCrashes,   \* bound: host processes killed
  MaxStops,     \* bound: SIGTERM or SIGINT delivered
  MaxStalls,    \* bound: times a live host's lease runs out
  MaxRefusals   \* bound: WAIT, BLOCKED and ERROR results

(* PENDING is the WAIT whose blocker is app_worker_execution_pending.       *)
Outcome == {"DONE", "WAIT", "BLOCKED", "ERROR", "PENDING"}

Refusal == {"WAIT", "BLOCKED", "ERROR"}

Baton == [active : Task \cup {NoTask}, next : Seq(Task)]

ASSUME ControlPlaneAssumption ==
  /\ Rank \in [App -> Nat]
  /\ \A a, b \in App : Rank[a] = Rank[b] => a = b
  /\ \A p \in Plans : p \in [App -> Baton]
  /\ None \notin Host /\ Gone \notin Host \cup {None} /\ NoTask \notin Task
  /\ None \notin Task /\ None \notin App
  /\ Exec \subseteq Nat
  /\ MaxDispatches \in Nat \ {0}
  /\ Result \subseteq Outcome
  /\ MaxCrashes \in Nat /\ MaxStops \in Nat
  /\ MaxStalls \in Nat /\ MaxRefusals \in Nat

VARIABLES
  lease,        \* the orchestrator_lease row factory_cloud_dispatch
  app,          \* the app_state table
  history,      \* the execution_history table, by execution id
  done,         \* tasks for which some history row was closed as DONE
  host,         \* the WorkerHost processes
  faults        \* the crashes, stops, stalls and refusals spent

hostVars == <<lease, app, history, done, host, faults>>

Lease == [owner : Host \cup {None, Gone}, live : BOOLEAN]

Execution == [exec : Exec, task : Task]

AppState ==
  [active : Task \cup {NoTask}, next : Seq(Task),
   cur : Execution \cup {None},     \* current_execution
   gate : Task \cup {None}]         \* the task whose next_attempt_at is ahead

(* A row of the recovery scan's snapshot, and how far it has been handled.  *)
Interrupted ==
  [app : App, exec : Exec, task : Task, gate : Task \cup {None}, closed : BOOLEAN]

(* The dispatch in progress; next and gate are what get_app read back.      *)
Dispatch ==
  [app : App, task : Task, exec : Exec \cup {None}, result : Outcome \cup {None},
   next : Seq(Task), gate : Task \cup {None}]

HostState ==
  [pc : {"off", "idle", "scan", "recover", "choose", "start", "adapter", "finish",
         "readback", "checkpoint", "reconsider", "ending", "unwinding", "leaving"},
   recovered : BOOLEAN,             \* _recovery_done
   stop : BOOLEAN,                  \* stop_event is set
   beat : BOOLEAN,                  \* the heartbeat thread is running
   attempted : SUBSET App,
   dispatched : Nat,                \* len(dispatches)
   todo : SUBSET Interrupted,
   cur : Dispatch \cup {None}]

ASSUME NullAssumption == None \notin Execution \cup Dispatch

HostsTypeOK ==
  /\ lease \in Lease
  /\ app \in [App -> AppState]
  /\ history \in [Exec -> {"free", "EXECUTING", "INTERRUPTED"} \cup Outcome]
  /\ done \subseteq App \X Task
  /\ host \in [Host -> HostState]
  /\ faults \in [crashes : Nat, stops : Nat, stalls : Nat, refusals : Nat]

Off ==
  [pc |-> "off", recovered |-> FALSE, stop |-> FALSE, beat |-> FALSE,
   attempted |-> {}, dispatched |-> 0, todo |-> {}, cur |-> None]

(* A new process has inserted the batons of the registry that app_state did *)
(* not have yet (recover_registry) and left the others as they were.        *)
HostsInit ==
  /\ lease = [owner |-> None, live |-> FALSE]
  /\ \E p \in Plans :
       app = [a \in App |-> [active |-> p[a].active, next |-> p[a].next,
                             cur |-> None, gate |-> None]]
  /\ history = [e \in Exec |-> "free"]
  /\ done = {}
  /\ host = [h \in Host |-> Off]
  /\ faults = [crashes |-> 0, stops |-> 0, stalls |-> 0, refusals |-> 0]

-----------------------------------------------------------------------------
(* The lease.                                                               *)

FaultyCanClaim(h) == lease.owner \in {None, h} \/ lease.live   \* expiry reversed

CanClaim(h) == lease.owner \in {None, h} \/ ~lease.live

Hold(h) == lease' = [owner |-> h, live |-> TRUE]

Release(h) ==
  lease' = IF lease.owner = h THEN [owner |-> None, live |-> FALSE] ELSE lease

Goto(h, pc) == host' = [host EXCEPT ![h] = [@ EXCEPT !.pc = pc]]

StartHost(h) ==
  /\ host[h].pc = "off"
  /\ Goto(h, "idle")
  /\ UNCHANGED <<lease, app, history, done, faults>>

(* run_once takes or renews the lease.  A host that cannot stands by: it    *)
(* changes nothing and polls again.  stop_event may have been set since     *)
(* run_forever looked at it.                                                *)
Acquire(h) ==
  /\ host[h].pc = "idle"
  /\ CanClaim(h)
  /\ Hold(h)
  /\ host' = [host EXCEPT ![h] =
                 [@ EXCEPT !.pc = IF host[h].recovered THEN "choose" ELSE "scan",
                           !.beat = host[h].recovered]]
  /\ UNCHANGED <<app, history, done, faults>>

(* The heartbeat renews the lease, or takes it when nobody has it, even     *)
(* after stop() released it.  A lease lost to another host sets stop_event, *)
(* which the running cycle does not look at.                                *)
Heartbeat(h) ==
  /\ host[h].beat
  /\ IF CanClaim(h)
     THEN Hold(h) /\ UNCHANGED host
     ELSE /\ host' = [host EXCEPT ![h] = [@ EXCEPT !.beat = FALSE, !.stop = TRUE]]
          /\ UNCHANGED lease
  /\ UNCHANGED <<app, history, done, faults>>

-----------------------------------------------------------------------------
(* recover_interrupted_executions.                                          *)

Executing == {a \in App : app[a].cur # None}

ToRecover(a) ==
  [app |-> a, exec |-> app[a].cur.exec, task |-> app[a].cur.task,
   gate |-> app[a].gate, closed |-> FALSE]

Scan(h) ==
  /\ host[h].pc = "scan"
  /\ host' = [host EXCEPT ![h] =
                 [@ EXCEPT !.pc = "recover", !.todo = {ToRecover(a) : a \in Executing}]]
  /\ UNCHANGED <<lease, app, history, done, faults>>

(* finish_execution(..., "INTERRUPTED"); a row that is closed already is    *)
(* left as it is and the error is ignored.                                  *)
RecoverClose(h) ==
  /\ host[h].pc = "recover"
  /\ \A r \in host[h].todo : ~r.closed
  /\ \E r \in host[h].todo :
       /\ history' = IF history[r.exec] = "EXECUTING"
                     THEN [history EXCEPT ![r.exec] = "INTERRUPTED"] ELSE history
       /\ host' = [host EXCEPT ![h] =
                     [@ EXCEPT !.todo = (host[h].todo \ {r})
                                          \cup {[r EXCEPT !.closed = TRUE]}]]
  /\ UNCHANGED <<lease, app, done, faults>>

(* The checkpoint that restores the interrupted task as the active one.     *)
RecoverRestore(h) ==
  /\ host[h].pc = "recover"
  /\ \E r \in host[h].todo :
       /\ r.closed
       /\ app' = [app EXCEPT ![r.app] =
                    [@ EXCEPT !.active = r.task, !.cur = None, !.gate = r.gate]]
       /\ host' = [host EXCEPT ![h] = [@ EXCEPT !.todo = host[h].todo \ {r}]]
  /\ UNCHANGED <<lease, history, done, faults>>

RecoverDone(h) ==
  /\ host[h].pc = "recover" /\ host[h].todo = {}
  /\ host' = [host EXCEPT ![h] =
                 [@ EXCEPT !.pc = "choose", !.recovered = TRUE, !.beat = TRUE]]
  /\ UNCHANGED <<lease, app, history, done, faults>>

-----------------------------------------------------------------------------
(* run_cycle and execute_one.                                               *)

TaskOf(s) ==
  IF s.active # NoTask THEN s.active
  ELSE IF s.next # <<>> THEN Head(s.next) ELSE NoTask

(* _decision_for: the application has a task and its retry gate is open.    *)
(* The application's state is not looked at.                                *)
Dispatchable(a) == TaskOf(app[a]) # NoTask /\ app[a].gate # TaskOf(app[a])

NewDispatch(a, t) ==
  [app |-> a, task |-> t, exec |-> None, result |-> None, next |-> <<>>, gate |-> None]

Choose(h) ==
  LET Eligible ==
        IF host[h].dispatched < MaxDispatches
        THEN {a \in App \ host[h].attempted : Dispatchable(a)} ELSE {} IN
  /\ host[h].pc = "choose"
  /\ \/ /\ Eligible = {}
        /\ Goto(h, "ending")
     \/ \E a \in Eligible :
          /\ \A b \in Eligible : Rank[a] <= Rank[b]
          /\ host' = [host EXCEPT ![h] =
                         [@ EXCEPT !.pc = "start",
                                   !.cur = NewDispatch(a, TaskOf(app[a]))]]
  /\ UNCHANGED <<lease, app, history, done, faults>>

(* The execution ids that some row or process still refers to.              *)
Held ==
  {app[a].cur.exec : a \in Executing}
    \cup {host[h].cur.exec : h \in {g \in Host : host[g].cur # None}}
    \cup UNION {{r.exec : r \in host[h].todo} : h \in Host}

Unused == {e \in Exec : e \notin Held /\ history[e] # "EXECUTING"}

(* start_execution inserts the history row and makes it the application's   *)
(* current execution.  Unreferenced closed rows are forgotten.              *)
StartExecution(h) ==
  /\ host[h].pc = "start"
  /\ \E e \in Unused :
       /\ \A f \in Unused : e <= f
       /\ history' = [f \in Exec |-> IF f = e THEN "EXECUTING"
                                     ELSE IF f \in Unused THEN "free" ELSE history[f]]
       /\ app' = [app EXCEPT ![host[h].cur.app] =
                    [@ EXCEPT !.cur = [exec |-> e, task |-> host[h].cur.task]]]
       /\ host' = [host EXCEPT ![h] =
                     [@ EXCEPT !.pc = "adapter",
                               !.cur = [host[h].cur EXCEPT !.exec = e]]]
  /\ UNCHANGED <<lease, done, faults>>

(* The adapter answers r; an exception counts as ERROR.                     *)
AdapterReturns(h, r) ==
  /\ host[h].pc = "adapter"
  /\ r \in Refusal => faults.refusals < MaxRefusals
  /\ faults' = IF r \in Refusal THEN [faults EXCEPT !.refusals = @ + 1] ELSE faults
  /\ host' = [host EXCEPT ![h] =
                 [@ EXCEPT !.pc = "finish", !.cur = [host[h].cur EXCEPT !.result = r]]]
  /\ UNCHANGED <<lease, app, history, done>>

FaultyFinishExecution(h) ==        \* a row that is closed already is no error
  LET c == host[h].cur IN
  /\ host[h].pc = "finish"
  /\ history' = IF history[c.exec] = "EXECUTING"
                THEN [history EXCEPT ![c.exec] = c.result] ELSE history
  /\ done' = IF c.result = "DONE" THEN done \cup {<<c.app, c.task>>} ELSE done
  /\ Goto(h, "readback")
  /\ UNCHANGED <<lease, app, faults>>

(* finish_execution records the result if the history row is still open ... *)
FinishExecution(h) ==
  LET c == host[h].cur IN
  /\ host[h].pc = "finish"
  /\ history[c.exec] = "EXECUTING"
  /\ history' = [history EXCEPT ![c.exec] = c.result]
  /\ done' = IF c.result = "DONE" THEN done \cup {<<c.app, c.task>>} ELSE done
  /\ Goto(h, "readback")
  /\ UNCHANGED <<lease, app, faults>>

(* ... and raises otherwise, which ends run_forever.                        *)
FinishRefused(h) ==
  /\ host[h].pc = "finish"
  /\ history[host[h].cur.exec] # "EXECUTING"
  /\ host' = [host EXCEPT ![h] = [@ EXCEPT !.pc = "unwinding", !.cur = None]]
  /\ UNCHANGED <<lease, app, history, done, faults>>

(* _checkpoint_result reads the application ...                             *)
ReadBack(h) ==
  LET c == host[h].cur IN
  /\ host[h].pc = "readback"
  /\ host' = [host EXCEPT ![h] =
                 [@ EXCEPT !.pc = "checkpoint",
                           !.cur = [c EXCEPT !.next = app[c.app].next,
                                             !.gate = app[c.app].gate]]]
  /\ UNCHANGED <<lease, app, history, done, faults>>

FaultyAdvanced(c) ==               \* the first next task is taken for the finished one
  LET rest == IF c.next # <<>> THEN Tail(c.next) ELSE c.next IN
  [active |-> IF rest # <<>> THEN Head(rest) ELSE NoTask, next |-> rest,
   cur |-> None, gate |-> None]

(* ... and writes the baton it computes from what it read.  A finished task *)
(* hands over to the next one; any other result keeps the task active, and  *)
(* a refusal closes its retry gate.                                         *)
Advanced(c) ==
  LET rest == IF c.next # <<>> /\ Head(c.next) = c.task THEN Tail(c.next) ELSE c.next IN
  [active |-> IF rest # <<>> THEN Head(rest) ELSE NoTask, next |-> rest,
   cur |-> None, gate |-> None]

Retained(c) ==
  [active |-> c.task, next |-> c.next, cur |-> None,
   gate |-> IF c.result = "PENDING" THEN c.gate ELSE c.task]

FaultyCheckpoint(h) ==             \* whatever is no ERROR advances the baton
  LET c == host[h].cur IN
  /\ host[h].pc = "checkpoint"
  /\ app' = [app EXCEPT ![c.app] = IF c.result = "ERROR" THEN Retained(c) ELSE Advanced(c)]
  /\ host' = [host EXCEPT ![h] =
       [@ EXCEPT !.pc = "choose", !.cur = None,
                 !.dispatched = host[h].dispatched + 1,
                 !.attempted = host[h].attempted \cup {c.app}]]
  /\ UNCHANGED <<lease, history, done, faults>>

FaultyCheckpointUncounted(h) ==    \* max_dispatches does not count finished tasks
  LET c == host[h].cur IN
  /\ host[h].pc = "checkpoint"
  /\ app' = [app EXCEPT ![c.app] = IF c.result = "DONE" THEN Advanced(c) ELSE Retained(c)]
  /\ host' = [host EXCEPT ![h] =
       IF c.result = "DONE" THEN [@ EXCEPT !.pc = "reconsider"]
       ELSE [@ EXCEPT !.pc = "choose", !.cur = None,
                      !.attempted = host[h].attempted \cup {c.app}]]
  /\ UNCHANGED <<lease, history, done, faults>>

Checkpoint(h) ==
  LET c == host[h].cur IN
  /\ host[h].pc = "checkpoint"
  /\ app' = [app EXCEPT ![c.app] = IF c.result = "DONE" THEN Advanced(c) ELSE Retained(c)]
  /\ host' = [host EXCEPT ![h] =
       IF c.result = "DONE"
       THEN [@ EXCEPT !.pc = "reconsider", !.dispatched = host[h].dispatched + 1]
       ELSE [@ EXCEPT !.pc = "choose", !.cur = None,
                      !.dispatched = host[h].dispatched + 1,
                      !.attempted = host[h].attempted \cup {c.app}]]
  /\ UNCHANGED <<lease, history, done, faults>>

(* After DONE the same application may be dispatched again in this cycle.   *)
Reconsider(h) ==
  LET a == host[h].cur.app IN
  /\ host[h].pc = "reconsider"
  /\ host' = [host EXCEPT ![h] =
       [@ EXCEPT !.pc = "choose", !.cur = None,
                 !.attempted = IF Dispatchable(a) THEN host[h].attempted
                               ELSE host[h].attempted \cup {a}]]
  /\ UNCHANGED <<lease, app, history, done, faults>>

-----------------------------------------------------------------------------
(* Leaving: the end of a cycle, stop signals and crashes.                   *)

(* run_once stops and joins its heartbeat, whether the cycle returned or    *)
(* raised; run_forever goes on unless it raised or stop_event is set.       *)
JoinHeartbeat(h) ==
  /\ host[h].pc \in {"ending", "unwinding"}
  /\ host' = [host EXCEPT ![h] =
       [@ EXCEPT !.beat = FALSE, !.attempted = {}, !.dispatched = 0,
                 !.pc = IF host[h].pc = "unwinding" \/ host[h].stop
                        THEN "leaving" ELSE "idle"]]
  /\ UNCHANGED <<lease, app, history, done, faults>>

Leave(h) ==
  /\ host[h].pc = "leaving" \/ (host[h].pc = "idle" /\ host[h].stop)
  /\ Release(h)
  /\ host' = [host EXCEPT ![h] = Off]
  /\ UNCHANGED <<app, history, done, faults>>

(* SIGTERM or SIGINT: stop() sets stop_event and releases the lease at once,*)
(* wherever the host's cycle is.                                            *)
Stop(h) ==
  /\ host[h].pc # "off" /\ ~host[h].stop
  /\ faults.stops < MaxStops
  /\ faults' = [faults EXCEPT !.stops = @ + 1]
  /\ Release(h)
  /\ host' = [host EXCEPT ![h] = [@ EXCEPT !.stop = TRUE]]
  /\ UNCHANGED <<app, history, done>>

(* The signal may find the main thread inside a write transaction.  Then    *)
(* release_lease waits in vain for the lock that the interrupted call holds,*)
(* and its exception goes through that call, which rolls back: the lease    *)
(* stays until run_forever releases it.  (Inside the lease's own renewal    *)
(* this comes to the same as Leave.)                                        *)
InTransaction(h) ==
  host[h].pc \in {"start", "finish", "checkpoint"}
    \/ (host[h].pc = "recover" /\ host[h].todo # {})

StopRaises(h) ==
  /\ InTransaction(h) /\ ~host[h].stop
  /\ faults.stops < MaxStops
  /\ faults' = [faults EXCEPT !.stops = @ + 1]
  /\ host' = [host EXCEPT ![h] =
       [@ EXCEPT !.stop = TRUE, !.cur = None,
                 !.pc = IF host[h].pc = "recover" THEN "leaving" ELSE "unwinding"]]
  /\ UNCHANGED <<lease, app, history, done>>

(* Inside an adapter's transaction the exception becomes an ERROR result.   *)
StopRaisesInAdapter(h) ==
  /\ host[h].pc = "adapter" /\ ~host[h].stop
  /\ faults.stops < MaxStops
  /\ faults' = [faults EXCEPT !.stops = @ + 1]
  /\ host' = [host EXCEPT ![h] =
       [@ EXCEPT !.stop = TRUE, !.pc = "finish",
                 !.cur = [host[h].cur EXCEPT !.result = "ERROR"]]]
  /\ UNCHANGED <<lease, app, history, done>>

(* A new process has a new owner id, so the dead one's lease is nobody's.   *)
Crash(h) ==
  /\ host[h].pc # "off"
  /\ faults.crashes < MaxCrashes
  /\ faults' = [faults EXCEPT !.crashes = @ + 1]
  /\ lease' = IF lease.owner = h THEN [lease EXCEPT !.owner = Gone] ELSE lease
  /\ host' = [host EXCEPT ![h] = Off]
  /\ UNCHANGED <<app, history, done>>

-----------------------------------------------------------------------------
(* Time.                                                                    *)

LeaseExpires ==
  /\ lease.owner = Gone /\ lease.live
  /\ lease' = [lease EXCEPT !.live = FALSE]
  /\ UNCHANGED <<app, history, done, host, faults>>

(* The owner is paused, or locked out of the database, beyond the lease.    *)
LeaseStalls ==
  /\ lease.owner \in Host /\ lease.live
  /\ faults.stalls < MaxStalls
  /\ faults' = [faults EXCEPT !.stalls = @ + 1]
  /\ lease' = [lease EXCEPT !.live = FALSE]
  /\ UNCHANGED <<app, history, done, host>>

RetryDue(a) ==
  /\ app[a].gate # None
  /\ app' = [app EXCEPT ![a] = [@ EXCEPT !.gate = None]]
  /\ UNCHANGED <<lease, history, done, host, faults>>

-----------------------------------------------------------------------------
(* What a host does of itself, the adapter's answer excepted.               *)
HostStep(h) ==
  \/ StartHost(h) \/ Acquire(h)
  \/ Scan(h) \/ RecoverClose(h) \/ RecoverRestore(h) \/ RecoverDone(h)
  \/ Choose(h) \/ StartExecution(h)
  \/ FinishExecution(h) \/ FinishRefused(h) \/ ReadBack(h) \/ Checkpoint(h)
  \/ Reconsider(h) \/ JoinHeartbeat(h) \/ Leave(h)

Environment ==
  \/ \E h \in Host : Heartbeat(h) \/ Stop(h) \/ StopRaises(h)
  \/ LeaseExpires \/ LeaseStalls
  \/ \E a \in App : RetryDue(a)

HostsNext ==
  \/ \E h \in Host :
       \/ HostStep(h) \/ Crash(h) \/ StopRaisesInAdapter(h)
       \/ \E r \in Result : AdapterReturns(h, r)
  \/ Environment

HostsSpec == HostsInit /\ [][HostsNext]_hostVars

(* Hosts run and are restarted, adapters answer, a dead owner's lease       *)
(* expires and retry times come.  Faults never have to happen.              *)
HostsFairness ==
  /\ \A h \in Host : WF_hostVars(HostStep(h) \/ \E r \in Result : AdapterReturns(h, r))
  /\ WF_hostVars(LeaseExpires)
  /\ \A a \in App : WF_hostVars(RetryDue(a))

HostsFairSpec == HostsSpec /\ HostsFairness

-----------------------------------------------------------------------------
(* Safety.                                                                  *)

(* A result is applied to a baton only if it is what the execution's        *)
(* history row says: a host whose execution was declared INTERRUPTED by     *)
(* another one can never checkpoint it (state_store.py:207-216).            *)
AppliedAsRecorded ==
  \A h \in Host :
    host[h].pc \in {"readback", "checkpoint"} =>
      history[host[h].cur.exec] = host[h].cur.result

(* The tasks an application still has to do.                                *)
TasksIn(seq) == {seq[i] : i \in DOMAIN seq}

Remaining(s) == TasksIn(s.next) \cup ({s.active} \ {NoTask})

(* No task is lost: whatever hosts crash, stop, stall and overwrite each    *)
(* other's checkpoints, a task leaves its baton only after an execution of  *)
(* it was recorded as DONE (orchestrator.py:227-277).                       *)
NoTaskSkipped ==
  \E p \in Plans : \A a \in App : \A t \in Remaining(p[a]) :
    t \in Remaining(app[a]) \/ <<a, t>> \in done

(* The host is inside run_once and has taken the lease.                     *)
InCycle(h) == host[h].pc \notin {"off", "idle", "leaving"}

(* A host works on the batons only while the lease is its own.  Holds when  *)
(* hosts can only crash (worker.py:60-75).                                  *)
DispatchAuthority == \A h \in Host : InCycle(h) => lease.owner = h

(* The work an application has left, in the order it will be done.          *)
Work(s) ==
  IF s.active = NoTask \/ (s.next # <<>> /\ Head(s.next) = s.active)
  THEN s.next ELSE <<s.active>> \o s.next

Backlog ==
  INSTANCE OrderedBacklog WITH
    work <- [a \in App |-> Work(app[a])],
    Plans <- {[a \in App |-> Work(p[a])] : p \in Plans}

(* Each baton is worked off strictly in order and never rewound, although   *)
(* hosts crash between any two transactions (orchestrator.py:93-117,        *)
(* 227-277).  Holds when no two hosts dispatch at the same time.            *)
ImplementsBacklog == Backlog!Spec

(* Liveness: every baton is worked off in the end, when every task          *)
(* eventually succeeds and faults stop.                                     *)
BatonsDrain == \A a \in App : <>[](Remaining(app[a]) = {})
=============================================================================
