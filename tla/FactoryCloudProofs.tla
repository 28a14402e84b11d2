-------------------------- MODULE FactoryCloudProofs --------------------------
(***************************************************************************)
(* Proofs about FactoryCloud and the two modules it composes, for any      *)
(* applications, batons, hosts, workers and faults.                        *)
(*                                                                         *)
(* The control plane: a result is applied only as it was recorded,         *)
(* and no task is lost.  Until the first stop signal or stalled lease one  *)
(* host works at a time, and the batons implement the ordered backlog.     *)
(*                                                                         *)
(* The work queue: a task has one outstanding job, whose result is         *)
(* recorded by the worker that holds the claim and delivered once.         *)
(*                                                                         *)
(* The composition: each half behaves as its own module says it does when  *)
(* left alone, nothing is believed done that no worker did, and, until the *)
(* first stop signal or stalled lease, no job is stranded and no task is   *)
(* dispatched twice.                                                       *)
(***************************************************************************)
EXTENDS FactoryCloud, SequenceTheorems, TLAPS

-----------------------------------------------------------------------------
(* The control plane.                                                       *)


Faults == [crashes : Nat, stops : Nat, stalls : Nat, refusals : Nat]

(* The places in execute_one and after it where a dispatch is in progress.  *)
Dispatching ==
  {"start", "adapter", "finish", "readback", "checkpoint", "reconsider"}

(* What a host knows at each place of execute_one.                          *)
HostOK(h) ==
  LET c == host[h].cur IN
  /\ host[h].pc \in Dispatching => c \in Dispatch
  /\ host[h].pc \in {"adapter", "finish", "readback", "checkpoint"} => c.exec \in Exec
  /\ host[h].pc \in {"finish", "readback", "checkpoint"} => c.result \in Outcome
  /\ host[h].pc \in {"readback", "checkpoint"} =>
       /\ history[c.exec] = c.result
       /\ c.result = "DONE" => <<c.app, c.task>> \in done

(* Task t is in the next list, and in every copy of it that a host has read *)
(* and will write back.                                                     *)
Listed(a, t) ==
  /\ t \in TasksIn(app[a].next)
  /\ \A h \in Host :
       host[h].pc = "checkpoint" /\ host[h].cur.app = a => t \in TasksIn(host[h].cur.next)

(* Task t is only the active one: then nobody has anything else of the      *)
(* application in hand that could replace it.                               *)
Sole(a, t) ==
  /\ app[a].active = t
  /\ app[a].cur # None => app[a].cur.task = t
  /\ \A h \in Host :
       /\ host[h].pc \in Dispatching \ {"reconsider"} /\ host[h].cur.app = a
            => host[h].cur.task = t
       /\ \A r \in host[h].todo : r.app = a => r.task = t

Kept(a, t) == <<a, t>> \in done \/ Listed(a, t) \/ Sole(a, t)

HostsInv ==
  /\ HostsTypeOK
  /\ \A h \in Host : HostOK(h)
  /\ \E p \in Plans : \A a \in App : \A t \in Remaining(p[a]) : Kept(a, t)

(* What every step has to establish.                                        *)
Safe ==
  /\ HostsTypeOK'
  /\ \A h \in Host : HostOK(h)'
  /\ \A a \in App, t \in Task : Kept(a, t) => Kept(a, t)'

LEMMA SafePreserves == HostsInv /\ Safe => HostsInv'
<1>. SUFFICES ASSUME HostsInv, Safe PROVE HostsInv'
  OBVIOUS
<1>1. PICK p \in Plans : \A a \in App : \A t \in Remaining(p[a]) : Kept(a, t)
  BY DEF HostsInv
<1>2. ASSUME NEW a \in App, NEW t \in Remaining(p[a]) PROVE t \in Task
  <2>1. p[a] \in Baton
    BY ControlPlaneAssumption
  <2>2. p[a].next \in Seq(Task) /\ p[a].active \in Task \cup {NoTask}
    BY <2>1 DEF Baton
  <2>3. TasksIn(p[a].next) \subseteq Task
    BY <2>2, LenProperties, ElementOfSeq DEF TasksIn
  <2>. QED
    BY <2>2, <2>3 DEF Remaining
<1>3. \A a \in App : \A t \in Remaining(p[a]) : Kept(a, t)'
  BY <1>1, <1>2 DEF Safe
<1>. QED
  BY <1>3 DEF HostsInv, Safe

LEMMA HostsInitInvariant == HostsInit => HostsInv
<1>. SUFFICES ASSUME HostsInit PROVE HostsInv
  OBVIOUS
<1>1. PICK p \in Plans :
        app = [a \in App |-> [active |-> p[a].active, next |-> p[a].next,
                              cur |-> None, gate |-> None]]
  BY DEF HostsInit
<1>2. \A a \in App : p[a].next \in Seq(Task) /\ p[a].active \in Task \cup {NoTask}
  BY ControlPlaneAssumption DEF Baton
<1>3. Off \in HostState
  BY DEF Off, HostState
<1>4. HostsTypeOK
  BY <1>1, <1>2, <1>3 DEF HostsInit, HostsTypeOK, AppState, Lease
<1>5. \A h \in Host : HostOK(h)
  BY DEF HostsInit, HostOK, Off, Dispatching
<1>6. \A a \in App : \A t \in Remaining(p[a]) : Kept(a, t)
  BY <1>1 DEF HostsInit, Kept, Listed, Sole, Off, Remaining, Dispatching
<1>. QED
  BY <1>4, <1>5, <1>6 DEF HostsInv

-----------------------------------------------------------------------------
(* Steps of one host that touch neither batons nor history, and after which *)
(* it has no dispatch in progress or the one it had at the same place.      *)
LEMMA QuietStep ==
  ASSUME HostsInv, NEW h \in Host, NEW s \in HostState,
         host' = [host EXCEPT ![h] = s], UNCHANGED <<app, history, done>>,
         lease' \in Lease, faults' \in Faults,
         s.todo \subseteq host[h].todo,
         s.pc \notin Dispatching \/ (s.pc = host[h].pc /\ s.cur = host[h].cur)
  PROVE  Safe
<1>1. /\ host' \in [Host -> HostState] /\ host'[h] = s
      /\ \A g \in Host : g # h => host'[g] = host[g]
  BY DEF HostsInv, HostsTypeOK
<1>2. HostsTypeOK'
  BY <1>1 DEF HostsInv, HostsTypeOK, Faults
<1>3. ASSUME NEW g \in Host PROVE HostOK(g)'
  BY <1>1 DEF HostsInv, HostOK, Dispatching
<1>4. ASSUME NEW a \in App, NEW t \in Task, Listed(a, t) PROVE Listed(a, t)'
  BY <1>1, <1>4 DEF Listed, Dispatching
<1>5. ASSUME NEW a \in App, NEW t \in Task, Sole(a, t) PROVE Sole(a, t)'
  BY <1>1, <1>5 DEF Sole, Dispatching
<1>. QED
  BY <1>2, <1>3, <1>4, <1>5 DEF Safe, Kept

(* The actions of that kind.                                                *)
LEMMA QuietActions ==
  ASSUME HostsInv, NEW h \in Host,
         \/ StartHost(h) \/ Acquire(h) \/ Heartbeat(h) \/ RecoverDone(h)
         \/ FinishRefused(h) \/ Reconsider(h) \/ JoinHeartbeat(h) \/ Leave(h)
         \/ Stop(h) \/ StopRaises(h) \/ Crash(h)
  PROVE  Safe
<1>1. host[h] \in HostState /\ lease \in Lease /\ faults \in Faults
  BY DEF HostsInv, HostsTypeOK, Faults
<1>2. Off \in HostState /\ Off.todo = {} /\ Off.pc = "off"
  BY DEF Off, HostState
<1>3. CASE StartHost(h)
  <2>. DEFINE s == [host[h] EXCEPT !.pc = "idle"]
  <2>1. s \in HostState /\ s.pc = "idle" /\ s.todo = host[h].todo
    BY <1>1 DEF HostState
  <2>2. host' = [host EXCEPT ![h] = s] /\ UNCHANGED <<lease, app, history, done, faults>>
    BY <1>3 DEF StartHost, Goto
  <2>. HIDE DEF s
  <2>. QED
    BY <1>1, <2>1, <2>2, QuietStep DEF Dispatching
<1>4. CASE Acquire(h)
  <2>. DEFINE s == [host[h] EXCEPT !.pc = IF host[h].recovered THEN "choose" ELSE "scan",
                                   !.beat = host[h].recovered]
  <2>1. s \in HostState /\ s.pc \in {"choose", "scan"} /\ s.todo = host[h].todo
    BY <1>1 DEF HostState
  <2>2. /\ host' = [host EXCEPT ![h] = s] /\ UNCHANGED <<app, history, done, faults>>
        /\ lease' \in Lease
    BY <1>4 DEF Acquire, Hold, Lease
  <2>. HIDE DEF s
  <2>. QED
    BY <1>1, <2>1, <2>2, QuietStep DEF Dispatching
<1>5. CASE Heartbeat(h)
  <2>1. CASE CanClaim(h)
    <3>. DEFINE s == host[h]
    <3>1. Hold(h) /\ UNCHANGED <<host, app, history, done, faults>>
      BY <1>5, <2>1 DEF Heartbeat
    <3>2. /\ host' = host /\ UNCHANGED <<app, history, done>>
          /\ lease' \in Lease /\ faults' \in Faults
      <4>1. [owner |-> h, live |-> TRUE] \in Lease
        BY DEF Lease
      <4>. QED
        BY <1>1, <3>1, <4>1 DEF Hold
    <3>3. host = [host EXCEPT ![h] = host[h]]
      BY DEF HostsInv, HostsTypeOK
    <3>4. host' = [host EXCEPT ![h] = s]
      BY <3>2, <3>3
    <3>5. /\ s \in HostState /\ s.pc = host[h].pc /\ s.cur = host[h].cur
          /\ s.todo = host[h].todo
      BY <1>1
    <3>. HIDE DEF s
    <3>. QED
      BY <3>2, <3>4, <3>5, QuietStep
  <2>2. CASE ~CanClaim(h)
    <3>. DEFINE s == [host[h] EXCEPT !.beat = FALSE, !.stop = TRUE]
    <3>1. /\ s \in HostState /\ s.pc = host[h].pc /\ s.cur = host[h].cur
          /\ s.todo = host[h].todo
      BY <1>1 DEF HostState
    <3>2. host' = [host EXCEPT ![h] = s] /\ UNCHANGED <<lease, app, history, done, faults>>
      BY <1>5, <2>2 DEF Heartbeat
    <3>. HIDE DEF s
    <3>. QED
      BY <1>1, <3>1, <3>2, QuietStep
  <2>. QED
    BY <2>1, <2>2
<1>6. CASE RecoverDone(h)
  <2>. DEFINE s == [host[h] EXCEPT !.pc = "choose", !.recovered = TRUE, !.beat = TRUE]
  <2>1. s \in HostState /\ s.pc = "choose" /\ s.todo = host[h].todo
    BY <1>1 DEF HostState
  <2>2. host' = [host EXCEPT ![h] = s] /\ UNCHANGED <<lease, app, history, done, faults>>
    BY <1>6 DEF RecoverDone
  <2>. HIDE DEF s
  <2>. QED
    BY <1>1, <2>1, <2>2, QuietStep DEF Dispatching
<1>7. CASE FinishRefused(h)
  <2>. DEFINE s == [host[h] EXCEPT !.pc = "unwinding", !.cur = None]
  <2>1. s \in HostState /\ s.pc = "unwinding" /\ s.todo = host[h].todo
    BY <1>1 DEF HostState
  <2>2. host' = [host EXCEPT ![h] = s] /\ UNCHANGED <<lease, app, history, done, faults>>
    BY <1>7 DEF FinishRefused
  <2>. HIDE DEF s
  <2>. QED
    BY <1>1, <2>1, <2>2, QuietStep DEF Dispatching
<1>8. CASE Reconsider(h)
  <2>. DEFINE att == IF Dispatchable(host[h].cur.app) THEN host[h].attempted
                     ELSE host[h].attempted \cup {host[h].cur.app}
              s == [host[h] EXCEPT !.pc = "choose", !.cur = None, !.attempted = att]
  <2>1. host[h].cur.app \in App
    BY <1>8 DEF Reconsider, HostsInv, HostOK, Dispatching, Dispatch
  <2>2. att \subseteq App
    BY <1>1, <2>1 DEF HostState
  <2>3. host' = [host EXCEPT ![h] = s] /\ UNCHANGED <<lease, app, history, done, faults>>
    BY <1>8 DEF Reconsider
  <2>. HIDE DEF att
  <2>4. s \in HostState /\ s.pc = "choose" /\ s.todo = host[h].todo
    BY <1>1, <2>2 DEF HostState
  <2>. HIDE DEF s
  <2>. QED
    BY <1>1, <2>3, <2>4, QuietStep DEF Dispatching
<1>9. CASE JoinHeartbeat(h)
  <2>. DEFINE s == [host[h] EXCEPT !.beat = FALSE, !.attempted = {}, !.dispatched = 0,
                                   !.pc = IF host[h].pc = "unwinding" \/ host[h].stop
                                          THEN "leaving" ELSE "idle"]
  <2>1. s \in HostState /\ s.pc \in {"leaving", "idle"} /\ s.todo = host[h].todo
    BY <1>1 DEF HostState
  <2>2. host' = [host EXCEPT ![h] = s] /\ UNCHANGED <<lease, app, history, done, faults>>
    BY <1>9 DEF JoinHeartbeat
  <2>. HIDE DEF s
  <2>. QED
    BY <1>1, <2>1, <2>2, QuietStep DEF Dispatching
<1>10. CASE Leave(h)
  <2>1. lease' \in Lease
    BY <1>1, <1>10 DEF Leave, Release, Lease
  <2>. QED
    BY <1>1, <1>2, <1>10, <2>1, QuietStep DEF Leave, Dispatching
<1>11. CASE Stop(h)
  <2>. DEFINE s == [host[h] EXCEPT !.stop = TRUE]
  <2>1. /\ s \in HostState /\ s.pc = host[h].pc /\ s.cur = host[h].cur
        /\ s.todo = host[h].todo
    BY <1>1 DEF HostState
  <2>2. lease' \in Lease /\ faults' \in Faults
    BY <1>1, <1>11 DEF Stop, Release, Lease, Faults
  <2>3. host' = [host EXCEPT ![h] = s] /\ UNCHANGED <<app, history, done>>
    BY <1>11 DEF Stop
  <2>. HIDE DEF s
  <2>. QED
    BY <2>1, <2>2, <2>3, QuietStep
<1>12. CASE Crash(h)
  <2>1. lease' \in Lease /\ faults' \in Faults
    BY <1>1, <1>12 DEF Crash, Lease, Faults
  <2>. QED
    BY <1>2, <1>12, <2>1, QuietStep DEF Crash, Dispatching
<1>13. CASE StopRaises(h)
  <2>. DEFINE s == [host[h] EXCEPT !.stop = TRUE, !.cur = None,
                                   !.pc = IF host[h].pc = "recover"
                                          THEN "leaving" ELSE "unwinding"]
  <2>1. s \in HostState /\ s.pc \in {"leaving", "unwinding"} /\ s.todo = host[h].todo
    BY <1>1 DEF HostState
  <2>2. faults' \in Faults
    BY <1>1, <1>13 DEF StopRaises, Faults
  <2>3. host' = [host EXCEPT ![h] = s] /\ UNCHANGED <<lease, app, history, done>>
    BY <1>13 DEF StopRaises
  <2>. HIDE DEF s
  <2>. QED
    BY <1>1, <2>1, <2>2, <2>3, QuietStep DEF Dispatching
<1>. QED
  BY <1>3, <1>4, <1>5, <1>6, <1>7, <1>8, <1>9, <1>10, <1>11, <1>12, <1>13

(* The end of a cycle: no application is eligible, or max_dispatches is     *)
(* reached.                                                                 *)
LEMMA ChooseNothing ==
  ASSUME HostsInv, NEW h \in Host, Goto(h, "ending"),
         UNCHANGED <<lease, app, history, done, faults>>
  PROVE  Safe
<1>. DEFINE s == [host[h] EXCEPT !.pc = "ending"]
<1>1. s \in HostState /\ s.pc = "ending" /\ s.todo = host[h].todo
  BY DEF HostState, HostsInv, HostsTypeOK
<1>2. host' = [host EXCEPT ![h] = s] /\ lease' \in Lease /\ faults' \in Faults
  BY DEF Goto, HostsInv, HostsTypeOK, Faults
<1>. HIDE DEF s
<1>. QED
  BY <1>1, <1>2, QuietStep DEF Dispatching

(* Time passes: a lease runs out, or a retry gate opens.                    *)
LEMMA TimeActions ==
  ASSUME HostsInv, LeaseExpires \/ LeaseStalls \/ (\E a \in App : RetryDue(a))
  PROVE  Safe
<1>1. CASE LeaseExpires \/ LeaseStalls
  <2>. DEFINE row == [lease EXCEPT !.live = FALSE]
              spent == [faults EXCEPT !.stalls = faults.stalls + 1]
  <2>1. lease \in Lease /\ faults \in Faults
    BY DEF HostsInv, HostsTypeOK, Faults
  <2>2. row \in Lease
    BY <2>1 DEF Lease
  <2>3. spent \in Faults
    BY <2>1 DEF Faults
  <2>4. UNCHANGED <<app, history, done, host>> /\ lease' = row /\ faults' \in {faults, spent}
    BY <1>1 DEF LeaseExpires, LeaseStalls
  <2>. HIDE DEF row, spent
  <2>5. HostsTypeOK'
    BY <2>1, <2>2, <2>3, <2>4 DEF HostsInv, HostsTypeOK, Faults
  <2>6. \A h \in Host : HostOK(h)'
    BY <2>4 DEF HostsInv, HostOK
  <2>7. \A a \in App, t \in Task : Kept(a, t) => Kept(a, t)'
    BY <2>4 DEF Kept, Listed, Sole
  <2>. QED
    BY <2>5, <2>6, <2>7 DEF Safe
<1>2. ASSUME NEW b \in App, RetryDue(b) PROVE Safe
  <2>. DEFINE row == [app[b] EXCEPT !.gate = None]
  <2>1. /\ row \in AppState
        /\ row.next = app[b].next /\ row.active = app[b].active /\ row.cur = app[b].cur
    BY DEF HostsInv, HostsTypeOK, AppState
  <2>2. app' = [app EXCEPT ![b] = row] /\ UNCHANGED <<lease, history, done, host, faults>>
    BY <1>2 DEF RetryDue
  <2>. HIDE DEF row
  <2>3. HostsTypeOK'
    BY <2>1, <2>2 DEF HostsInv, HostsTypeOK
  <2>4. \A h \in Host : HostOK(h)'
    BY <2>2 DEF HostsInv, HostOK
  <2>5. \A a \in App : /\ app'[a].next = app[a].next /\ app'[a].active = app[a].active
                       /\ app'[a].cur = app[a].cur
    BY <2>1, <2>2 DEF HostsInv, HostsTypeOK
  <2>6. \A a \in App, t \in Task : Kept(a, t) => Kept(a, t)'
    BY <2>2, <2>5 DEF Kept, Listed, Sole
  <2>. QED
    BY <2>3, <2>4, <2>6 DEF Safe
<1>. QED
  BY <1>1, <1>2

-----------------------------------------------------------------------------
(* Recovery.                                                                *)

LEMMA ScanStep ==
  ASSUME HostsInv, NEW h \in Host, Scan(h)
  PROVE  Safe
<1>. DEFINE todo == {ToRecover(a) : a \in Executing}
            s == [host[h] EXCEPT !.pc = "recover", !.todo = todo]
<1>1. \A a \in Executing :
        /\ ToRecover(a) \in Interrupted
        /\ ToRecover(a).app = a /\ ToRecover(a).task = app[a].cur.task
  <2>. SUFFICES ASSUME NEW a \in Executing
                PROVE  /\ ToRecover(a) \in Interrupted
                       /\ ToRecover(a).app = a /\ ToRecover(a).task = app[a].cur.task
    OBVIOUS
  <2>1. app[a] \in AppState /\ a \in App /\ app[a].cur # None
    BY DEF Executing, HostsInv, HostsTypeOK
  <2>2. app[a].cur \in Execution /\ app[a].gate \in Task \cup {None}
    BY <2>1 DEF AppState
  <2>. QED
    BY <2>1, <2>2 DEF ToRecover, Interrupted, Execution
<1>2. todo \in SUBSET Interrupted
  BY <1>1
<1>3. host' = [host EXCEPT ![h] = s] /\ UNCHANGED <<lease, app, history, done, faults>>
  BY DEF Scan
<1>4. \A r \in todo : r.app \in App /\ app[r.app].cur # None /\ r.task = app[r.app].cur.task
  BY <1>1 DEF Executing
<1>. HIDE DEF todo
<1>5. s \in HostState /\ s.pc = "recover" /\ s.todo = todo
  BY <1>2 DEF HostState, HostsInv, HostsTypeOK
<1>. HIDE DEF s
<1>6. /\ host' \in [Host -> HostState] /\ host'[h] = s
      /\ \A g \in Host : g # h => host'[g] = host[g]
  BY <1>3, <1>5 DEF HostsInv, HostsTypeOK
<1>7. HostsTypeOK'
  BY <1>3, <1>6 DEF HostsInv, HostsTypeOK
<1>8. ASSUME NEW g \in Host PROVE HostOK(g)'
  BY <1>3, <1>5, <1>6 DEF HostsInv, HostOK, Dispatching
<1>9. ASSUME NEW a \in App, NEW t \in Task, Listed(a, t) PROVE Listed(a, t)'
  BY <1>3, <1>5, <1>6, <1>9 DEF Listed
<1>10. ASSUME NEW a \in App, NEW t \in Task, Sole(a, t) PROVE Sole(a, t)'
  BY <1>3, <1>4, <1>5, <1>6, <1>10 DEF Sole, Dispatching
<1>. QED
  BY <1>3, <1>7, <1>8, <1>9, <1>10 DEF Safe, Kept

LEMMA RecoverCloseStep ==
  ASSUME HostsInv, NEW h \in Host, RecoverClose(h)
  PROVE  Safe
<1>1. PICK r \in host[h].todo :
        /\ history' = IF history[r.exec] = "EXECUTING"
                      THEN [history EXCEPT ![r.exec] = "INTERRUPTED"] ELSE history
        /\ host' = [host EXCEPT ![h] =
                      [host[h] EXCEPT !.todo = (host[h].todo \ {r})
                                           \cup {[r EXCEPT !.closed = TRUE]}]]
  BY DEF RecoverClose
<1>. DEFINE q == [r EXCEPT !.closed = TRUE]
            todo == (host[h].todo \ {r}) \cup {q}
            s == [host[h] EXCEPT !.todo = todo]
<1>2. r \in Interrupted /\ host[h] \in HostState
  BY DEF HostsInv, HostsTypeOK, HostState
<1>3. q \in Interrupted /\ q.app = r.app /\ q.task = r.task
  BY <1>2 DEF Interrupted
<1>4. /\ todo \in SUBSET Interrupted
      /\ \A x \in todo : \E y \in host[h].todo : x.app = y.app /\ x.task = y.task
  BY <1>2, <1>3 DEF HostState
<1>5. UNCHANGED <<lease, app, done, faults>> /\ host' = [host EXCEPT ![h] = s]
  BY <1>1 DEF RecoverClose
<1>. HIDE DEF todo
<1>6. s \in HostState /\ s.pc = host[h].pc /\ s.cur = host[h].cur /\ s.todo = todo
  BY <1>2, <1>4 DEF HostState
<1>. HIDE DEF s
<1>7. /\ host' \in [Host -> HostState] /\ host'[h] = s
      /\ \A g \in Host : g # h => host'[g] = host[g]
  BY <1>5, <1>6 DEF HostsInv, HostsTypeOK
<1>8. /\ history' \in [Exec -> {"free", "EXECUTING", "INTERRUPTED"} \cup Outcome]
      /\ \A e \in Exec : history[e] # "EXECUTING" => history'[e] = history[e]
  BY <1>1, <1>2 DEF Interrupted, HostsInv, HostsTypeOK
<1>9. HostsTypeOK'
  BY <1>5, <1>7, <1>8 DEF HostsInv, HostsTypeOK
<1>10. ASSUME NEW g \in Host PROVE HostOK(g)'
  BY <1>5, <1>6, <1>7, <1>8 DEF HostsInv, HostOK, Outcome
<1>11. ASSUME NEW a \in App, NEW t \in Task, Listed(a, t) PROVE Listed(a, t)'
  BY <1>5, <1>6, <1>7, <1>11 DEF Listed
<1>12. ASSUME NEW a \in App, NEW t \in Task, Sole(a, t) PROVE Sole(a, t)'
  BY <1>4, <1>5, <1>6, <1>7, <1>12 DEF Sole
<1>. QED
  BY <1>5, <1>9, <1>10, <1>11, <1>12 DEF Safe, Kept

(* Recovery makes the interrupted task active; if some task was only the    *)
(* active one, it is that task.                                             *)
LEMMA RecoverRestoreStep ==
  ASSUME HostsInv, NEW h \in Host, RecoverRestore(h)
  PROVE  Safe
<1>1. PICK r \in host[h].todo :
        /\ app' = [app EXCEPT ![r.app] =
                    [app[r.app] EXCEPT !.active = r.task, !.cur = None, !.gate = r.gate]]
        /\ host' = [host EXCEPT ![h] = [host[h] EXCEPT !.todo = host[h].todo \ {r}]]
  BY DEF RecoverRestore
<1>. DEFINE s == [host[h] EXCEPT !.todo = host[h].todo \ {r}]
            row == [app[r.app] EXCEPT !.active = r.task, !.cur = None, !.gate = r.gate]
<1>2. r \in Interrupted /\ host[h] \in HostState
  BY DEF HostsInv, HostsTypeOK, HostState
<1>3. /\ s \in HostState /\ s.pc = host[h].pc /\ s.cur = host[h].cur
      /\ s.todo = host[h].todo \ {r}
  BY <1>2 DEF HostState
<1>4. r.app \in App /\ r.task \in Task /\ app[r.app] \in AppState
  BY <1>2 DEF Interrupted, HostsInv, HostsTypeOK
<1>5. /\ row \in AppState /\ row.next = app[r.app].next
      /\ row.active = r.task /\ row.cur = None
  BY <1>2, <1>4 DEF Interrupted, AppState
<1>6. /\ host' = [host EXCEPT ![h] = s] /\ app' = [app EXCEPT ![r.app] = row]
      /\ UNCHANGED <<lease, history, done, faults>>
  BY <1>1 DEF RecoverRestore
<1>. HIDE DEF s, row
<1>7. /\ host' \in [Host -> HostState] /\ host'[h] = s
      /\ \A g \in Host : g # h => host'[g] = host[g]
  BY <1>3, <1>6 DEF HostsInv, HostsTypeOK
<1>8. /\ app' \in [App -> AppState] /\ app'[r.app] = row
      /\ \A b \in App : b # r.app => app'[b] = app[b]
  BY <1>4, <1>5, <1>6 DEF HostsInv, HostsTypeOK
<1>9. HostsTypeOK'
  BY <1>6, <1>7, <1>8 DEF HostsInv, HostsTypeOK
<1>10. ASSUME NEW g \in Host PROVE HostOK(g)'
  BY <1>3, <1>6, <1>7 DEF HostsInv, HostOK
<1>11. ASSUME NEW a \in App, NEW t \in Task, Listed(a, t) PROVE Listed(a, t)'
  BY <1>3, <1>5, <1>7, <1>8, <1>11 DEF Listed
<1>12. ASSUME NEW a \in App, NEW t \in Task, Sole(a, t) PROVE Sole(a, t)'
  <2>1. r.app = a => r.task = t
    BY <1>12 DEF Sole
  <2>2. app'[a].active = t /\ (app'[a].cur # None => app'[a].cur.task = t)
    BY <1>5, <1>8, <1>12, <2>1 DEF Sole
  <2>. QED
    BY <1>3, <1>7, <1>12, <2>2 DEF Sole
<1>. QED
  BY <1>6, <1>9, <1>10, <1>11, <1>12 DEF Safe, Kept

-----------------------------------------------------------------------------
(* Dispatch.                                                                *)

(* A host at work whose dispatch keeps its application and task, while the  *)
(* baton and the history stay: what is left to show is what the host knows. *)
LEMMA DispatchStep ==
  ASSUME HostsInv, NEW h \in Host, NEW s \in HostState,
         host' = [host EXCEPT ![h] = s], UNCHANGED <<lease, app, history, done>>,
         faults' \in Faults, s.todo = host[h].todo,
         s.pc \in Dispatching \ {"readback", "checkpoint", "reconsider"},
         s.cur \in Dispatch,
         s.pc \in {"adapter", "finish"} => s.cur.exec \in Exec,
         s.pc = "finish" => s.cur.result \in Outcome,
         \A t \in Task : Sole(s.cur.app, t) => s.cur.task = t
  PROVE  Safe
<1>1. /\ host' \in [Host -> HostState] /\ host'[h] = s
      /\ \A g \in Host : g # h => host'[g] = host[g]
  BY DEF HostsInv, HostsTypeOK
<1>2. HostsTypeOK'
  BY <1>1 DEF HostsInv, HostsTypeOK, Faults
<1>3. ASSUME NEW g \in Host PROVE HostOK(g)'
  BY <1>1 DEF HostsInv, HostOK, Dispatching
<1>4. ASSUME NEW a \in App, NEW t \in Task, Listed(a, t) PROVE Listed(a, t)'
  BY <1>1, <1>4 DEF Listed, Dispatching
<1>5. ASSUME NEW a \in App, NEW t \in Task, Sole(a, t) PROVE Sole(a, t)'
  <2>1. s.cur.app = a => s.cur.task = t
    BY <1>5
  <2>. QED
    BY <1>1, <1>5, <2>1 DEF Sole
<1>. QED
  BY <1>2, <1>3, <1>4, <1>5 DEF Safe, Kept

(* The chosen task is the active one if there is one, so it is the task of  *)
(* which the baton has only the active copy.                                *)
LEMMA ChooseStep ==
  ASSUME HostsInv, NEW h \in Host, Choose(h)
  PROVE  Safe
<1>1. CASE Goto(h, "ending")
  BY <1>1, ChooseNothing DEF Choose
<1>2. ASSUME NEW a \in App, Dispatchable(a),
             host' = [host EXCEPT ![h] =
                        [host[h] EXCEPT !.pc = "start",
                                        !.cur = NewDispatch(a, TaskOf(app[a]))]]
      PROVE  Safe
  <2>. DEFINE c == NewDispatch(a, TaskOf(app[a]))
              s == [host[h] EXCEPT !.pc = "start", !.cur = c]
  <2>1. app[a] \in AppState /\ host[h] \in HostState
    BY DEF HostsInv, HostsTypeOK
  <2>2. app[a].next \in Seq(Task) /\ app[a].active \in Task \cup {NoTask}
    BY <2>1 DEF AppState
  <2>3. TaskOf(app[a]) \in Task
    BY <1>2, <2>2, HeadTailProperties DEF TaskOf, Dispatchable
  <2>4. c \in Dispatch /\ c.app = a /\ c.task = TaskOf(app[a])
    BY <2>3, EmptySeq DEF NewDispatch, Dispatch
  <2>5. UNCHANGED <<lease, app, history, done, faults>> /\ host' = [host EXCEPT ![h] = s]
    BY <1>2 DEF Choose
  <2>. HIDE DEF c
  <2>6. s \in HostState /\ s.pc = "start" /\ s.cur = c /\ s.todo = host[h].todo
    BY <2>1, <2>4 DEF HostState
  <2>. HIDE DEF s
  <2>7. \A t \in Task : Sole(a, t) => TaskOf(app[a]) = t
    BY ControlPlaneAssumption DEF Sole, TaskOf
  <2>8. faults' \in Faults
    BY <2>5 DEF HostsInv, HostsTypeOK, Faults
  <2>. QED
    BY <2>4, <2>5, <2>6, <2>7, <2>8, DispatchStep DEF Dispatching
<1>. QED
  BY <1>1, <1>2 DEF Choose

(* An answer, whether the adapter gives it or an exception stands for it.   *)
LEMMA AnswerStep ==
  ASSUME HostsInv, NEW h \in Host, NEW r \in Outcome, NEW stop \in BOOLEAN,
         host[h].pc = "adapter", UNCHANGED <<lease, app, history, done>>,
         faults' \in Faults,
         host' = [host EXCEPT ![h] =
                    [host[h] EXCEPT !.pc = "finish", !.stop = stop,
                                    !.cur = [host[h].cur EXCEPT !.result = r]]]
  PROVE  Safe
<1>. DEFINE c == [host[h].cur EXCEPT !.result = r]
            s == [host[h] EXCEPT !.pc = "finish", !.stop = stop, !.cur = c]
<1>1. host[h] \in HostState
  BY DEF HostsInv, HostsTypeOK
<1>2. host[h].cur \in Dispatch /\ host[h].cur.exec \in Exec
  BY DEF HostsInv, HostOK, Dispatching
<1>3. /\ c \in Dispatch /\ c.app = host[h].cur.app /\ c.task = host[h].cur.task
      /\ c.exec \in Exec /\ c.result = r
  BY <1>2 DEF Dispatch
<1>4. host' = [host EXCEPT ![h] = s]
  OBVIOUS
<1>. HIDE DEF c
<1>5. s \in HostState /\ s.pc = "finish" /\ s.cur = c /\ s.todo = host[h].todo
  BY <1>1, <1>3 DEF HostState
<1>. HIDE DEF s
<1>6. \A t \in Task : Sole(c.app, t) => c.task = t
  BY <1>2, <1>3 DEF Sole, Dispatching
<1>. QED
  BY <1>3, <1>4, <1>5, <1>6, DispatchStep DEF Dispatching

LEMMA AdapterSteps ==
  ASSUME HostsInv, NEW h \in Host,
         (\E r \in Result : AdapterReturns(h, r)) \/ StopRaisesInAdapter(h)
  PROVE  Safe
<1>1. host[h] \in HostState /\ faults \in Faults
  BY DEF HostsInv, HostsTypeOK, Faults
<1>2. ASSUME NEW r \in Result, AdapterReturns(h, r) PROVE Safe
  <2>. DEFINE c == [host[h].cur EXCEPT !.result = r]
  <2>1. r \in Outcome
    BY ControlPlaneAssumption
  <2>2. faults' \in Faults
    <3>1. faults' = IF r \in Refusal THEN [faults EXCEPT !.refusals = faults.refusals + 1]
                    ELSE faults
      BY <1>2 DEF AdapterReturns
    <3>. QED
      BY <1>1, <3>1 DEF Faults
  <2>3. /\ host[h].pc = "adapter" /\ UNCHANGED <<lease, app, history, done>>
        /\ host' = [host EXCEPT ![h] = [host[h] EXCEPT !.pc = "finish", !.cur = c]]
    BY <1>2 DEF AdapterReturns
  <2>. HIDE DEF c
  <2>4. /\ host[h].stop \in BOOLEAN
        /\ [host[h] EXCEPT !.pc = "finish", !.cur = c]
             = [host[h] EXCEPT !.pc = "finish", !.stop = host[h].stop, !.cur = c]
    BY <1>1 DEF HostState
  <2>5. host' = [host EXCEPT ![h] =
                   [host[h] EXCEPT !.pc = "finish", !.stop = host[h].stop, !.cur = c]]
    BY <2>3, <2>4
  <2>. QED
    BY <2>1, <2>2, <2>3, <2>4, <2>5, AnswerStep DEF c
<1>3. CASE StopRaisesInAdapter(h)
  <2>1. "ERROR" \in Outcome /\ TRUE \in BOOLEAN
    BY DEF Outcome
  <2>2. faults' \in Faults
    BY <1>1, <1>3 DEF StopRaisesInAdapter, Faults
  <2>3. /\ host[h].pc = "adapter" /\ UNCHANGED <<lease, app, history, done>>
        /\ host' = [host EXCEPT ![h] =
                      [host[h] EXCEPT !.pc = "finish", !.stop = TRUE,
                                      !.cur = [host[h].cur EXCEPT !.result = "ERROR"]]]
    BY <1>3 DEF StopRaisesInAdapter
  <2>. QED
    BY <2>1, <2>2, <2>3, AnswerStep
<1>. QED
  BY <1>2, <1>3

(* The new execution id belongs to nobody, so no other host's row changes.  *)
LEMMA StartExecutionStep ==
  ASSUME HostsInv, NEW h \in Host, StartExecution(h)
  PROVE  Safe
<1>1. PICK e \in Unused :
        /\ history' = [f \in Exec |-> IF f = e THEN "EXECUTING"
                                      ELSE IF f \in Unused THEN "free" ELSE history[f]]
        /\ app' = [app EXCEPT ![host[h].cur.app] =
                     [app[host[h].cur.app] EXCEPT
                        !.cur = [exec |-> e, task |-> host[h].cur.task]]]
        /\ host' = [host EXCEPT ![h] =
                      [host[h] EXCEPT !.pc = "adapter",
                                      !.cur = [host[h].cur EXCEPT !.exec = e]]]
  BY DEF StartExecution
<1>. DEFINE b == host[h].cur.app
            x == [exec |-> e, task |-> host[h].cur.task]
            row == [app[b] EXCEPT !.cur = x]
            c == [host[h].cur EXCEPT !.exec = e]
            s == [host[h] EXCEPT !.pc = "adapter", !.cur = c]
<1>2. /\ host[h].pc = "start" /\ host[h].cur \in Dispatch /\ host[h] \in HostState
      /\ e \in Exec
  BY DEF StartExecution, Unused, HostsInv, HostsTypeOK, HostOK, Dispatching
<1>3. b \in App /\ host[h].cur.task \in Task /\ app[b] \in AppState
  BY <1>2 DEF Dispatch, HostsInv, HostsTypeOK
<1>4. x \in Execution /\ x.task = host[h].cur.task /\ x # None
  BY <1>2, <1>3, NullAssumption DEF Execution
<1>5. /\ c \in Dispatch /\ c.app = b /\ c.task = host[h].cur.task /\ c.exec = e
  BY <1>2 DEF Dispatch
<1>6. /\ host' = [host EXCEPT ![h] = s] /\ app' = [app EXCEPT ![b] = row]
      /\ UNCHANGED <<lease, done, faults>>
  BY <1>1 DEF StartExecution
<1>. HIDE DEF x, c
<1>7. row \in AppState /\ row.next = app[b].next /\ row.active = app[b].active /\ row.cur = x
  BY <1>3, <1>4 DEF AppState
<1>8. s \in HostState /\ s.pc = "adapter" /\ s.cur = c /\ s.todo = host[h].todo
  BY <1>2, <1>5 DEF HostState
<1>. HIDE DEF b, row, s
<1>9. /\ host' \in [Host -> HostState] /\ host'[h] = s
      /\ \A g \in Host : g # h => host'[g] = host[g]
  BY <1>6, <1>8 DEF HostsInv, HostsTypeOK
<1>10. /\ app' \in [App -> AppState] /\ app'[b] = row
       /\ \A a \in App : a # b => app'[a] = app[a]
  BY <1>3, <1>6, <1>7 DEF HostsInv, HostsTypeOK
<1>11. history' \in [Exec -> {"free", "EXECUTING", "INTERRUPTED"} \cup Outcome]
  BY <1>1 DEF HostsInv, HostsTypeOK
<1>12. HostsTypeOK'
  BY <1>6, <1>9, <1>10, <1>11 DEF HostsInv, HostsTypeOK
<1>13. ASSUME NEW g \in Host PROVE HostOK(g)'
  <2>1. CASE g = h
    BY <1>2, <1>5, <1>8, <1>9, <2>1 DEF HostOK, Dispatching
  <2>2. CASE g # h
    <3>1. host'[g] = host[g] /\ HostOK(g)
      BY <1>9, <2>2 DEF HostsInv
    <3>2. ASSUME host[g].pc \in {"readback", "checkpoint"}
          PROVE  history'[host[g].cur.exec] = history[host[g].cur.exec]
      <4>1. host[g].cur \in Dispatch /\ host[g].cur.exec \in Exec
        BY <3>1, <3>2 DEF HostOK, Dispatching
      <4>2. host[g].cur # None
        BY <4>1, NullAssumption
      <4>3. host[g].cur.exec \in Held
        BY <4>2 DEF Held
      <4>. QED
        BY <1>1, <4>1, <4>3 DEF Unused
    <3>. QED
      BY <1>6, <3>1, <3>2 DEF HostOK
  <2>. QED
    BY <2>1, <2>2
<1>14. ASSUME NEW a \in App, NEW t \in Task, Listed(a, t) PROVE Listed(a, t)'
  BY <1>7, <1>8, <1>9, <1>10, <1>14 DEF Listed
<1>15. ASSUME NEW a \in App, NEW t \in Task, Sole(a, t) PROVE Sole(a, t)'
  <2>1. b = a => host[h].cur.task = t
    BY <1>2, <1>15 DEF Sole, Dispatching, b
  <2>2. app'[a].active = t /\ (app'[a].cur # None => app'[a].cur.task = t)
    BY <1>4, <1>7, <1>10, <1>15, <2>1 DEF Sole
  <2>3. c.app = a => c.task = t
    BY <1>5, <2>1 DEF b
  <2>. QED
    BY <1>8, <1>9, <1>15, <2>2, <2>3 DEF Sole
<1>. QED
  BY <1>6, <1>12, <1>13, <1>14, <1>15 DEF Safe, Kept

(* A row that another host can be working from is closed already.           *)
LEMMA FinishExecutionStep ==
  ASSUME HostsInv, NEW h \in Host, FinishExecution(h)
  PROVE  Safe
<1>. DEFINE c == host[h].cur
            s == [host[h] EXCEPT !.pc = "readback"]
<1>1. /\ host[h].pc = "finish" /\ history[c.exec] = "EXECUTING"
      /\ history' = [history EXCEPT ![c.exec] = c.result]
      /\ done' = IF c.result = "DONE" THEN done \cup {<<c.app, c.task>>} ELSE done
      /\ host' = [host EXCEPT ![h] = s]
      /\ UNCHANGED <<lease, app, faults>>
  BY DEF FinishExecution, Goto
<1>2. c \in Dispatch /\ c.exec \in Exec /\ c.result \in Outcome /\ host[h] \in HostState
  BY <1>1 DEF HostsInv, HostsTypeOK, HostOK, Dispatching
<1>3. s \in HostState /\ s.pc = "readback" /\ s.cur = c /\ s.todo = host[h].todo
  BY <1>2 DEF HostState
<1>. HIDE DEF s
<1>4. /\ host' \in [Host -> HostState] /\ host'[h] = s
      /\ \A g \in Host : g # h => host'[g] = host[g]
  BY <1>1, <1>3 DEF HostsInv, HostsTypeOK
<1>5. /\ history' \in [Exec -> {"free", "EXECUTING", "INTERRUPTED"} \cup Outcome]
      /\ history'[c.exec] = c.result
      /\ \A e \in Exec : history[e] # "EXECUTING" => history'[e] = history[e]
  BY <1>1, <1>2 DEF HostsInv, HostsTypeOK
<1>6. /\ done' \subseteq App \X Task /\ done \subseteq done'
      /\ c.result = "DONE" => <<c.app, c.task>> \in done'
  BY <1>1, <1>2 DEF Dispatch, HostsInv, HostsTypeOK
<1>7. HostsTypeOK'
  BY <1>1, <1>4, <1>5, <1>6 DEF HostsInv, HostsTypeOK
<1>8. ASSUME NEW g \in Host PROVE HostOK(g)'
  <2>1. CASE g = h
    BY <1>2, <1>3, <1>4, <1>5, <1>6, <2>1 DEF HostOK, Dispatching
  <2>2. CASE g # h
    <3>1. "EXECUTING" \notin Outcome
      BY DEF Outcome
    <3>. QED
      BY <1>4, <1>5, <1>6, <2>2, <3>1 DEF HostsInv, HostOK
  <2>. QED
    BY <2>1, <2>2
<1>9. ASSUME NEW a \in App, NEW t \in Task, Listed(a, t) PROVE Listed(a, t)'
  BY <1>1, <1>3, <1>4, <1>9 DEF Listed
<1>10. ASSUME NEW a \in App, NEW t \in Task, Sole(a, t) PROVE Sole(a, t)'
  BY <1>1, <1>3, <1>4, <1>10 DEF Sole, Dispatching
<1>. QED
  BY <1>6, <1>7, <1>8, <1>9, <1>10 DEF Safe, Kept

LEMMA ReadBackStep ==
  ASSUME HostsInv, NEW h \in Host, ReadBack(h)
  PROVE  Safe
<1>. DEFINE c == host[h].cur
            d == [c EXCEPT !.next = app[c.app].next, !.gate = app[c.app].gate]
            s == [host[h] EXCEPT !.pc = "checkpoint", !.cur = d]
<1>1. /\ host[h].pc = "readback" /\ host' = [host EXCEPT ![h] = s]
      /\ UNCHANGED <<lease, app, history, done, faults>>
  BY DEF ReadBack
<1>2. /\ c \in Dispatch /\ c.exec \in Exec /\ c.result \in Outcome
      /\ host[h] \in HostState
      /\ history[c.exec] = c.result /\ (c.result = "DONE" => <<c.app, c.task>> \in done)
  BY <1>1 DEF HostsInv, HostsTypeOK, HostOK, Dispatching
<1>3. app[c.app] \in AppState
  BY <1>2 DEF HostsInv, HostsTypeOK, Dispatch
<1>4. /\ d \in Dispatch /\ d.app = c.app /\ d.task = c.task /\ d.exec = c.exec
      /\ d.result = c.result /\ d.next = app[c.app].next
  BY <1>2, <1>3 DEF Dispatch, AppState
<1>. HIDE DEF d
<1>5. s \in HostState /\ s.pc = "checkpoint" /\ s.cur = d /\ s.todo = host[h].todo
  BY <1>2, <1>4 DEF HostState
<1>. HIDE DEF s
<1>6. /\ host' \in [Host -> HostState] /\ host'[h] = s
      /\ \A g \in Host : g # h => host'[g] = host[g]
  BY <1>1, <1>5 DEF HostsInv, HostsTypeOK
<1>7. HostsTypeOK'
  BY <1>1, <1>6 DEF HostsInv, HostsTypeOK
<1>8. ASSUME NEW g \in Host PROVE HostOK(g)'
  BY <1>1, <1>2, <1>4, <1>5, <1>6 DEF HostsInv, HostOK, Dispatching
<1>9. ASSUME NEW a \in App, NEW t \in Task, Listed(a, t) PROVE Listed(a, t)'
  BY <1>1, <1>4, <1>5, <1>6, <1>9 DEF Listed
<1>10. ASSUME NEW a \in App, NEW t \in Task, Sole(a, t) PROVE Sole(a, t)'
  BY <1>1, <1>4, <1>5, <1>6, <1>10 DEF Sole, Dispatching
<1>. QED
  BY <1>1, <1>7, <1>8, <1>9, <1>10 DEF Safe, Kept

(* Dropping the head of a list loses only the head.                         *)
LEMMA TailKeeps ==
  ASSUME NEW q \in Seq(Task), q # <<>>, NEW t \in TasksIn(q), t # Head(q)
  PROVE  t \in TasksIn(Tail(q))
<1>1. PICK i \in 1..Len(q) : q[i] = t
  BY LenProperties DEF TasksIn
<1>2. i # 1 /\ Len(q) \in Nat
  BY <1>1, HeadTailProperties, LenProperties
<1>3. i - 1 \in 1..Len(Tail(q)) /\ Tail(q)[i - 1] = t
  <2>1. i \in Nat /\ 1 <= i /\ i <= Len(q)
    BY <1>1, <1>2
  <2>2. Len(Tail(q)) = Len(q) - 1
    BY HeadTailProperties
  <2>3. i - 1 \in 1..Len(Tail(q))
    BY <1>2, <2>1, <2>2
  <2>4. Tail(q)[i - 1] = q[(i - 1) + 1]
    BY <2>3, HeadTailProperties
  <2>5. (i - 1) + 1 = i
    BY <2>1
  <2>. QED
    BY <1>1, <2>3, <2>4, <2>5
<1>4. Tail(q) \in Seq(Task)
  BY HeadTailProperties
<1>5. DOMAIN Tail(q) = 1..Len(Tail(q))
  BY <1>4, LenProperties
<1>. QED
  BY <1>3, <1>5 DEF TasksIn

(* What the baton becomes.  A finished task may be dropped from it, since   *)
(* its execution is recorded as DONE; nothing else is.                      *)
LEMMA AdvancedBaton ==
  ASSUME NEW c \in Dispatch
  PROVE  /\ Advanced(c) \in AppState /\ Advanced(c).cur = None
         /\ \A t \in TasksIn(c.next) : t # c.task => t \in TasksIn(Advanced(c).next)
<1>. DEFINE drop == c.next # <<>> /\ Head(c.next) = c.task
            rest == IF drop THEN Tail(c.next) ELSE c.next
            first == IF rest # <<>> THEN Head(rest) ELSE NoTask
<1>1. c.next \in Seq(Task) /\ c.task \in Task
  BY DEF Dispatch
<1>2. rest \in Seq(Task)
  BY <1>1, HeadTailProperties
<1>3. first \in Task \cup {NoTask}
  BY <1>2, HeadTailProperties
<1>4. \A t \in TasksIn(c.next) : t # c.task => t \in TasksIn(rest)
  BY <1>1, TailKeeps
<1>5. Advanced(c) = [active |-> first, next |-> rest, cur |-> None, gate |-> None]
  BY DEF Advanced
<1>. HIDE DEF rest, first
<1>. QED
  BY <1>2, <1>3, <1>4, <1>5 DEF AppState

LEMMA RetainedBaton ==
  ASSUME NEW c \in Dispatch
  PROVE  /\ Retained(c) \in AppState /\ Retained(c).cur = None
         /\ Retained(c).next = c.next /\ Retained(c).active = c.task
  BY DEF Retained, Dispatch, AppState

LEMMA CheckpointStep ==
  ASSUME HostsInv, NEW h \in Host, Checkpoint(h)
  PROVE  Safe
<1>. DEFINE c == host[h].cur
            row == IF c.result = "DONE" THEN Advanced(c) ELSE Retained(c)
            s == IF c.result = "DONE"
                 THEN [host[h] EXCEPT !.pc = "reconsider",
                                      !.dispatched = host[h].dispatched + 1]
                 ELSE [host[h] EXCEPT !.pc = "choose", !.cur = None,
                                      !.dispatched = host[h].dispatched + 1,
                                      !.attempted = host[h].attempted \cup {c.app}]
<1>1. /\ host[h].pc = "checkpoint" /\ host' = [host EXCEPT ![h] = s]
      /\ app' = [app EXCEPT ![c.app] = row]
      /\ UNCHANGED <<lease, history, done, faults>>
  BY DEF Checkpoint
<1>2. /\ c \in Dispatch /\ c.app \in App /\ host[h] \in HostState
      /\ c.result = "DONE" => <<c.app, c.task>> \in done
  BY <1>1 DEF HostsInv, HostsTypeOK, HostOK, Dispatching, Dispatch
<1>3. /\ s \in HostState /\ s.todo = host[h].todo
      /\ s.pc = "choose" \/ (s.pc = "reconsider" /\ s.cur = c)
  <2>1. host[h].dispatched + 1 \in Nat /\ host[h].attempted \cup {c.app} \subseteq App
    BY <1>2 DEF HostState
  <2>2. CASE c.result = "DONE"
    BY <1>2, <2>1, <2>2 DEF HostState
  <2>3. CASE c.result # "DONE"
    BY <1>2, <2>1, <2>3 DEF HostState
  <2>. QED
    BY <2>2, <2>3
<1>4. /\ row \in AppState /\ row.cur = None
      /\ \A t \in TasksIn(c.next) : t \in TasksIn(row.next) \/ <<c.app, t>> \in done
  BY <1>2, AdvancedBaton, RetainedBaton
<1>5. <<c.app, c.task>> \in done \/ row.active = c.task
  BY <1>2, RetainedBaton
<1>. HIDE DEF row, s
<1>6. /\ host' \in [Host -> HostState] /\ host'[h] = s
      /\ \A g \in Host : g # h => host'[g] = host[g]
  BY <1>1, <1>3 DEF HostsInv, HostsTypeOK
<1>7. /\ app' \in [App -> AppState] /\ app'[c.app] = row
      /\ \A a \in App : a # c.app => app'[a] = app[a]
  BY <1>1, <1>2, <1>4 DEF HostsInv, HostsTypeOK
<1>8. HostsTypeOK'
  BY <1>1, <1>6, <1>7 DEF HostsInv, HostsTypeOK
<1>9. ASSUME NEW g \in Host PROVE HostOK(g)'
  BY <1>1, <1>2, <1>3, <1>6 DEF HostsInv, HostOK, Dispatching
<1>10. ASSUME NEW a \in App, NEW t \in Task, Listed(a, t), <<a, t>> \notin done
       PROVE  Listed(a, t)'
  <2>1. c.app = a => t \in TasksIn(c.next)
    BY <1>1, <1>10 DEF Listed
  <2>2. t \in TasksIn(app'[a].next)
    BY <1>4, <1>7, <1>10, <2>1 DEF Listed
  <2>. QED
    BY <1>3, <1>6, <1>10, <2>2 DEF Listed
<1>11. ASSUME NEW a \in App, NEW t \in Task, Sole(a, t), <<a, t>> \notin done
       PROVE  Sole(a, t)'
  <2>1. c.app = a => c.task = t
    BY <1>1, <1>11 DEF Sole, Dispatching
  <2>2. app'[a].active = t /\ (app'[a].cur # None => app'[a].cur.task = t)
    BY <1>4, <1>5, <1>7, <1>11, <2>1 DEF Sole
  <2>. QED
    BY <1>3, <1>6, <1>11, <2>1, <2>2 DEF Sole, Dispatching
<1>. QED
  BY <1>1, <1>8, <1>9, <1>10, <1>11 DEF Safe, Kept

-----------------------------------------------------------------------------

LEMMA HostsStepInvariant == HostsInv /\ [HostsNext]_hostVars => HostsInv'
<1>. SUFFICES ASSUME HostsInv, [HostsNext]_hostVars PROVE HostsInv'
  OBVIOUS
<1>1. ASSUME NEW h \in Host, HostStep(h) PROVE Safe
  <2>1. CASE \/ StartHost(h) \/ Acquire(h) \/ RecoverDone(h) \/ FinishRefused(h)
             \/ Reconsider(h) \/ JoinHeartbeat(h) \/ Leave(h)
    BY <2>1, QuietActions
  <2>2. CASE Scan(h)
    BY <2>2, ScanStep
  <2>3. CASE RecoverClose(h)
    BY <2>3, RecoverCloseStep
  <2>4. CASE RecoverRestore(h)
    BY <2>4, RecoverRestoreStep
  <2>5. CASE Choose(h)
    BY <2>5, ChooseStep
  <2>6. CASE StartExecution(h)
    BY <2>6, StartExecutionStep
  <2>7. CASE FinishExecution(h)
    BY <2>7, FinishExecutionStep
  <2>8. CASE ReadBack(h)
    BY <2>8, ReadBackStep
  <2>9. CASE Checkpoint(h)
    BY <2>9, CheckpointStep
  <2>. QED
    BY <1>1, <2>1, <2>2, <2>3, <2>4, <2>5, <2>6, <2>7, <2>8, <2>9 DEF HostStep
<1>2. ASSUME NEW h \in Host, Crash(h) \/ Heartbeat(h) \/ Stop(h) \/ StopRaises(h)
      PROVE  Safe
  BY <1>2, QuietActions
<1>3. ASSUME NEW h \in Host,
             (\E r \in Result : AdapterReturns(h, r)) \/ StopRaisesInAdapter(h)
      PROVE  Safe
  BY <1>3, AdapterSteps
<1>4. CASE HostsNext
  <2>1. Safe
    BY <1>1, <1>2, <1>3, <1>4, TimeActions DEF HostsNext, Environment
  <2>. QED
    BY <2>1, SafePreserves
<1>5. CASE UNCHANGED hostVars
  BY <1>5 DEF hostVars, HostsInv, HostsTypeOK, HostOK, Kept, Listed, Sole
<1>. QED
  BY <1>4, <1>5

THEOREM HostsInvariantHolds == HostsSpec => []HostsInv
  BY HostsInitInvariant, HostsStepInvariant, PTL DEF HostsSpec

(* The control plane's tables and processes keep their shape: for instance  *)
(* a dispatch always carries a task and a recorded result is one of the     *)
(* statuses (orchestrator.py:196-225, state_store.py:177-216).              *)
THEOREM HostsTypeCorrect == HostsSpec => []HostsTypeOK
<1>1. HostsInv => HostsTypeOK
  BY DEF HostsInv
<1>. QED
  BY <1>1, HostsInvariantHolds, PTL

(* A baton is advanced or kept only by the result that the execution's      *)
(* history row records, whatever hosts overlap (orchestrator.py:279-307).   *)
THEOREM AppliedAsRecordedHolds == HostsSpec => []AppliedAsRecorded
<1>1. HostsInv => AppliedAsRecorded
  BY DEF HostsInv, HostOK, AppliedAsRecorded
<1>. QED
  BY <1>1, HostsInvariantHolds, PTL

(* No task leaves a baton before an execution of it is recorded as DONE,    *)
(* although checkpoints are unfenced read-modify-writes                     *)
(* (orchestrator.py:227-277, state_store.py:177-196).                       *)
THEOREM NoTaskSkippedHolds == HostsSpec => []NoTaskSkipped
<1>1. HostsInv => NoTaskSkipped
  <2>. SUFFICES ASSUME HostsInv PROVE NoTaskSkipped
    OBVIOUS
  <2>1. PICK p \in Plans : \A a \in App : \A t \in Remaining(p[a]) : Kept(a, t)
    BY DEF HostsInv
  <2>2. ASSUME NEW a \in App, NEW t \in Remaining(p[a])
        PROVE  t \in Remaining(app[a]) \/ <<a, t>> \in done
    <3>1. t \in Task
      <4>1. p[a].next \in Seq(Task) /\ p[a].active \in Task \cup {NoTask}
        BY ControlPlaneAssumption DEF Baton
      <4>2. TasksIn(p[a].next) \subseteq Task
        BY <4>1, LenProperties, ElementOfSeq DEF TasksIn
      <4>. QED
        BY <4>1, <4>2 DEF Remaining
    <3>. QED
      BY <2>1, <3>1, ControlPlaneAssumption DEF Kept, Listed, Sole, Remaining
  <2>. QED
    BY <2>1, <2>2 DEF NoTaskSkipped
<1>. QED
  BY <1>1, HostsInvariantHolds, PTL

-----------------------------------------------------------------------------
(* One host at a time.  What follows is about the time before the first     *)
(* stop signal and the first stalled lease; hosts crash as they like.       *)

HostsUndisturbed == faults.stops = 0 /\ faults.stalls = 0

(* Who works on the batons has the lease, and a living owner's lease is     *)
(* live, so that nobody else can take it.                                   *)
Exclusive ==
  /\ \A h \in Host : InCycle(h) => lease.owner = h
  /\ \A h \in Host : host[h].beat => InCycle(h)
  /\ lease.owner \in Host => lease.live

LEMMA OneHostAtWork ==
  ASSUME Exclusive, NEW h \in Host, InCycle(h), NEW g \in Host, g # h
  PROVE  ~InCycle(g)
BY DEF Exclusive

LEMMA UndisturbedBefore ==
  ASSUME HostsInv, HostsNext, HostsUndisturbed'
  PROVE  /\ HostsUndisturbed
         /\ ~LeaseStalls
         /\ \A h \in Host : ~Stop(h) /\ ~StopRaises(h) /\ ~StopRaisesInAdapter(h)
<1>1. faults \in Faults
  BY DEF HostsInv, HostsTypeOK, Faults
<1>2. \A n \in Nat : n + 1 # 0
  OBVIOUS
<1>3. ~LeaseStalls
  BY <1>1, <1>2 DEF LeaseStalls, HostsUndisturbed, Faults
<1>4. \A h \in Host : ~Stop(h) /\ ~StopRaises(h) /\ ~StopRaisesInAdapter(h)
  BY <1>1, <1>2 DEF Stop, StopRaises, StopRaisesInAdapter, HostsUndisturbed, Faults
<1>5. ASSUME NEW h \in Host, HostStep(h) \/ Heartbeat(h) PROVE UNCHANGED faults
  BY <1>5 DEF HostStep, Heartbeat, StartHost, Acquire, Scan, RecoverClose,
     RecoverRestore, RecoverDone, Choose, StartExecution, FinishExecution,
     FinishRefused, ReadBack, Checkpoint, Reconsider, JoinHeartbeat, Leave
<1>6. ASSUME NEW h \in Host, Crash(h) \/ \E r \in Result : AdapterReturns(h, r)
      PROVE  faults'.stops = faults.stops /\ faults'.stalls = faults.stalls
  BY <1>1, <1>6 DEF Crash, AdapterReturns, Faults
<1>7. ASSUME LeaseExpires \/ \E a \in App : RetryDue(a) PROVE UNCHANGED faults
  BY <1>7 DEF LeaseExpires, RetryDue
<1>8. HostsUndisturbed
  BY <1>3, <1>4, <1>5, <1>6, <1>7 DEF HostsNext, Environment, HostsUndisturbed
<1>. QED
  BY <1>3, <1>4, <1>8

LEMMA ExclusiveStep ==
  ASSUME HostsInv, Exclusive, HostsNext, HostsUndisturbed'
  PROVE  Exclusive'
<1>1. host \in [Host -> HostState] /\ lease \in Lease /\ Off.pc = "off" /\ ~Off.beat
  BY DEF HostsInv, HostsTypeOK, Off
<1>2. ASSUME NEW h \in Host, StartHost(h) \/ JoinHeartbeat(h) PROVE Exclusive'
  <2>1. UNCHANGED lease /\ \A g \in Host : g # h => host'[g] = host[g]
    BY <1>1, <1>2 DEF StartHost, Goto, JoinHeartbeat
  <2>2. CASE StartHost(h)
    BY <1>1, <2>1, <2>2 DEF StartHost, Goto, Exclusive, InCycle, HostState
  <2>3. CASE JoinHeartbeat(h)
    BY <1>1, <2>1, <2>3 DEF JoinHeartbeat, Exclusive, InCycle, HostState
  <2>. QED
    BY <1>2, <2>2, <2>3
<1>3. ASSUME NEW h \in Host, Acquire(h) PROVE Exclusive'
  <2>1. \A g \in Host : g # h => ~InCycle(g)
    BY <1>3, ControlPlaneAssumption DEF Acquire, CanClaim, Exclusive
  <2>. QED
    BY <1>1, <1>3, <2>1 DEF Acquire, Hold, Exclusive, InCycle, HostState
<1>4. ASSUME NEW h \in Host, Heartbeat(h) PROVE Exclusive'
  BY <1>1, <1>4 DEF Heartbeat, CanClaim, Hold, Exclusive, InCycle, Lease
<1>5. ASSUME NEW h \in Host,
             \/ Scan(h) \/ RecoverClose(h) \/ RecoverRestore(h) \/ RecoverDone(h)
             \/ Choose(h) \/ StartExecution(h) \/ FinishExecution(h) \/ FinishRefused(h) \/ ReadBack(h)
             \/ Checkpoint(h) \/ Reconsider(h) \/ \E r \in Result : AdapterReturns(h, r)
      PROVE  Exclusive'
  <2>1. InCycle(h) /\ UNCHANGED lease
    BY <1>5 DEF Scan, RecoverClose, RecoverRestore, RecoverDone, Choose,
       Goto, StartExecution, FinishExecution, FinishRefused, ReadBack,
       Checkpoint, Reconsider, AdapterReturns, InCycle
  <2>2. /\ \A g \in Host : g # h => host'[g] = host[g]
        /\ host'[h].pc \notin {"off", "idle", "leaving"}
    <3>1. CASE Scan(h)
      BY <1>1, <3>1 DEF Scan, HostState
    <3>2. CASE RecoverClose(h)
      BY <1>1, <3>2 DEF RecoverClose, HostState
    <3>3. CASE RecoverRestore(h)
      BY <1>1, <3>3 DEF RecoverRestore, HostState
    <3>4. CASE RecoverDone(h)
      BY <1>1, <3>4 DEF RecoverDone, HostState
    <3>5. CASE Choose(h)
      BY <1>1, <3>5 DEF Choose, Goto, HostState
    <3>6. CASE StartExecution(h)
      BY <1>1, <3>6 DEF StartExecution, HostState
    <3>7. CASE FinishExecution(h)
      BY <1>1, <3>7 DEF FinishExecution, Goto, HostState
    <3>8. CASE FinishRefused(h)
      BY <1>1, <3>8 DEF FinishRefused, HostState
    <3>9. CASE ReadBack(h)
      BY <1>1, <3>9 DEF ReadBack, HostState
    <3>10. CASE Reconsider(h)
      BY <1>1, <3>10 DEF Reconsider, HostState
    <3>11. CASE Checkpoint(h)
      BY <1>1, <3>11 DEF Checkpoint, HostState
    <3>12. ASSUME NEW r \in Result, AdapterReturns(h, r)
         PROVE  /\ \A g \in Host : g # h => host'[g] = host[g]
                /\ host'[h].pc \notin {"off", "idle", "leaving"}
      BY <1>1, <3>12 DEF AdapterReturns, HostState
    <3>. QED
      BY <1>5, <3>1, <3>2, <3>3, <3>4, <3>5, <3>6, <3>7, <3>8, <3>9, <3>10, <3>11, <3>12
  <2>. QED
    BY <2>1, <2>2 DEF Exclusive, InCycle
<1>6. ASSUME NEW h \in Host, Leave(h) \/ Crash(h) PROVE Exclusive'
  BY <1>1, <1>6, ControlPlaneAssumption DEF Leave, Crash, Release, Exclusive,
     InCycle, Lease
<1>7. CASE LeaseExpires
  BY <1>1, <1>7, ControlPlaneAssumption DEF LeaseExpires, Exclusive, InCycle, Lease
<1>8. ASSUME NEW a \in App, RetryDue(a) PROVE Exclusive'
  BY <1>8 DEF RetryDue, Exclusive, InCycle
<1>. QED
  BY <1>2, <1>3, <1>4, <1>5, <1>6, <1>7, <1>8, UndisturbedBefore DEF HostsNext,
     Environment, HostStep

(* Nobody else touches a baton that a host works on: its task is still the  *)
(* one the baton names, and what it read back is still there.               *)
ActiveTask ==
  /\ \A a \in App : app[a].cur # None => app[a].cur.task = TaskOf(app[a])
  /\ \A h \in Host :
       LET c == host[h].cur IN
       /\ host[h].pc \in Dispatching \ {"reconsider"} => c.task = TaskOf(app[c.app])
       /\ host[h].pc = "checkpoint" => c.next = app[c.app].next
       /\ host[h].pc = "recover" =>
            \A r \in host[h].todo : r.task = TaskOf(app[r.app])

(* A step of a host in its cycle has to show something about the batons and *)
(* about itself; the others, not being in a cycle, have nothing to show.    *)
LEMMA ActiveTaskOfOne ==
  ASSUME HostsInv, Exclusive, ActiveTask, NEW h \in Host,
         \A g \in Host : g # h => host'[g] = host[g],
         \A g \in Host : g # h => ~InCycle(g),
         \A a \in App : app'[a].cur # None => app'[a].cur.task = TaskOf(app'[a]),
         host'[h].pc \in Dispatching \ {"reconsider"} =>
           host'[h].cur.task = TaskOf(app'[host'[h].cur.app]),
         host'[h].pc = "checkpoint" => host'[h].cur.next = app'[host'[h].cur.app].next,
         host'[h].pc = "recover" =>
           \A r \in host'[h].todo : r.task = TaskOf(app'[r.app])
  PROVE  ActiveTask'
<1>1. \A g \in Host : g # h =>
        host'[g].pc \notin Dispatching \cup {"recover"}
  BY DEF InCycle, Dispatching
<1>. QED
  BY <1>1 DEF ActiveTask, Dispatching

(* The batons stay, and the host's dispatch and its recovery do, or end.    *)
LEMMA ActiveTaskKept ==
  ASSUME HostsInv, ActiveTask, UNCHANGED app, NEW h \in Host,
         \A g \in Host : g # h => host'[g] = host[g],
         \/ host'[h].pc \notin (Dispatching \ {"reconsider"}) \cup {"recover"}
         \/ /\ host'[h].pc = host[h].pc /\ host'[h].cur = host[h].cur
            /\ host'[h].todo = host[h].todo
  PROVE  ActiveTask'
BY DEF ActiveTask, Dispatching

LEMMA QuietActiveTask ==
  ASSUME HostsInv, ActiveTask, NEW h \in Host,
         \/ StartHost(h) \/ Acquire(h) \/ Heartbeat(h) \/ RecoverDone(h)
         \/ FinishRefused(h) \/ Reconsider(h) \/ JoinHeartbeat(h) \/ Leave(h) \/ Crash(h)
  PROVE  ActiveTask'
<1>1. host \in [Host -> HostState] /\ host[h] \in HostState /\ Off.pc = "off"
  BY DEF HostsInv, HostsTypeOK, Off
<1>2. CASE StartHost(h)
  BY <1>1, <1>2, ActiveTaskKept DEF StartHost, Goto, HostState, Dispatching
<1>3. CASE Acquire(h)
  BY <1>1, <1>3, ActiveTaskKept DEF Acquire, HostState, Dispatching
<1>4. CASE Heartbeat(h)
  <2>1. UNCHANGED app /\ \A g \in Host : g # h => host'[g] = host[g]
    BY <1>1, <1>4 DEF Heartbeat
  <2>2. /\ host'[h].pc = host[h].pc /\ host'[h].cur = host[h].cur
        /\ host'[h].todo = host[h].todo
    <3>1. host' = host \/ host' = [host EXCEPT ![h] =
                                     [host[h] EXCEPT !.beat = FALSE, !.stop = TRUE]]
      BY <1>4 DEF Heartbeat
    <3>. QED
      BY <1>1, <3>1 DEF HostState
  <2>. QED
    BY <2>1, <2>2, ActiveTaskKept
<1>5. CASE RecoverDone(h)
  BY <1>1, <1>5, ActiveTaskKept DEF RecoverDone, HostState, Dispatching
<1>6. CASE FinishRefused(h)
  BY <1>1, <1>6, ActiveTaskKept DEF FinishRefused, HostState, Dispatching
<1>7. CASE Reconsider(h)
  BY <1>1, <1>7, ActiveTaskKept DEF Reconsider, HostState, Dispatching
<1>8. CASE JoinHeartbeat(h)
  BY <1>1, <1>8, ActiveTaskKept DEF JoinHeartbeat, HostState, Dispatching
<1>9. CASE Leave(h) \/ Crash(h)
  BY <1>1, <1>9, ActiveTaskKept DEF Leave, Crash, Dispatching
<1>. QED
  BY <1>2, <1>3, <1>4, <1>5, <1>6, <1>7, <1>8, <1>9

(* Recovery restores the task that the baton names already.                 *)
LEMMA RecoveryActiveTask ==
  ASSUME HostsInv, Exclusive, ActiveTask, NEW h \in Host,
         Scan(h) \/ RecoverClose(h) \/ RecoverRestore(h)
  PROVE  ActiveTask'
<1>1. /\ host \in [Host -> HostState] /\ host[h] \in HostState
      /\ app \in [App -> AppState]
  BY DEF HostsInv, HostsTypeOK
<1>2. InCycle(h) /\ \A g \in Host : g # h => ~InCycle(g)
  <2>1. InCycle(h)
    BY DEF Scan, RecoverClose, RecoverRestore, InCycle
  <2>. QED
    BY <2>1, OneHostAtWork
<1>3. CASE Scan(h)
  <2>. DEFINE todo == {ToRecover(a) : a \in Executing}
  <2>1. \A r \in todo : r.app \in App /\ r.task = TaskOf(app[r.app])
    BY DEF ToRecover, Executing, ActiveTask
  <2>2. /\ host' = [host EXCEPT ![h] = [host[h] EXCEPT !.pc = "recover", !.todo = todo]]
        /\ UNCHANGED app
    BY <1>3 DEF Scan
  <2>. HIDE DEF todo
  <2>3. /\ host'[h].pc = "recover" /\ host'[h].todo = todo
        /\ \A g \in Host : g # h => host'[g] = host[g]
    BY <1>1, <2>2 DEF HostState
  <2>4. \A a \in App : app'[a].cur # None => app'[a].cur.task = TaskOf(app'[a])
    BY <2>2 DEF ActiveTask
  <2>. QED
    BY <1>2, <2>1, <2>2, <2>3, <2>4, ActiveTaskOfOne DEF Dispatching
<1>4. CASE RecoverClose(h)
  <2>1. PICK r \in host[h].todo :
          host' = [host EXCEPT ![h] =
                     [host[h] EXCEPT !.todo = (host[h].todo \ {r})
                                          \cup {[r EXCEPT !.closed = TRUE]}]]
    BY <1>4 DEF RecoverClose
  <2>2. r \in Interrupted
    BY <1>1 DEF HostState
  <2>. DEFINE closed == [r EXCEPT !.closed = TRUE]
  <2>3. closed.app = r.app /\ closed.task = r.task
    BY <2>2 DEF Interrupted
  <2>4. UNCHANGED app /\ host[h].pc = "recover"
    BY <1>4 DEF RecoverClose
  <2>5. /\ host'[h].pc = "recover"
        /\ host'[h].todo = (host[h].todo \ {r}) \cup {closed}
        /\ \A g \in Host : g # h => host'[g] = host[g]
    BY <1>1, <2>1, <2>4 DEF HostState
  <2>. HIDE DEF closed
  <2>6. \A q \in host'[h].todo : q.task = TaskOf(app'[q.app])
    <3>1. \A q \in host[h].todo : q.task = TaskOf(app[q.app])
      BY <2>4 DEF ActiveTask
    <3>. QED
      BY <2>3, <2>4, <2>5, <3>1
  <2>7. \A a \in App : app'[a].cur # None => app'[a].cur.task = TaskOf(app'[a])
    BY <2>4 DEF ActiveTask
  <2>. QED
    BY <1>2, <2>5, <2>6, <2>7, ActiveTaskOfOne DEF Dispatching
<1>5. CASE RecoverRestore(h)
  <2>1. PICK r \in host[h].todo :
          /\ app' = [app EXCEPT ![r.app] =
                      [app[r.app] EXCEPT !.active = r.task, !.cur = None, !.gate = r.gate]]
          /\ host' = [host EXCEPT ![h] = [host[h] EXCEPT !.todo = host[h].todo \ {r}]]
    BY <1>5 DEF RecoverRestore
  <2>2. r \in Interrupted /\ r.app \in App /\ r.task \in Task /\ host[h].pc = "recover"
    BY <1>1, <1>5 DEF HostState, Interrupted, RecoverRestore
  <2>3. app[r.app] \in AppState /\ r.task = TaskOf(app[r.app])
    BY <1>1, <2>2 DEF ActiveTask
  <2>4. /\ app'[r.app].active = r.task /\ app'[r.app].cur = None
        /\ \A a \in App : a # r.app => app'[a] = app[a]
    BY <1>1, <2>1, <2>2, <2>3 DEF AppState
  <2>5. \A a \in App : TaskOf(app'[a]) = TaskOf(app[a])
    <3>1. r.task # NoTask
      BY <2>2, ControlPlaneAssumption
    <3>2. TaskOf(app'[r.app]) = TaskOf(app[r.app])
      BY <2>3, <2>4, <3>1 DEF TaskOf
    <3>3. ASSUME NEW a \in App, a # r.app PROVE TaskOf(app'[a]) = TaskOf(app[a])
      BY <2>4, <3>3
    <3>. QED
      BY <3>2, <3>3
  <2>6. /\ host'[h].pc = "recover" /\ host'[h].todo = host[h].todo \ {r}
        /\ \A g \in Host : g # h => host'[g] = host[g]
    BY <1>1, <2>1, <2>2 DEF HostState
  <2>7. \A a \in App : app'[a].cur # None => app'[a].cur.task = TaskOf(app'[a])
    BY <2>4, <2>5 DEF ActiveTask
  <2>8. \A q \in host'[h].todo : q.task = TaskOf(app'[q.app])
    <3>1. \A q \in host[h].todo : q.app \in App /\ q.task = TaskOf(app[q.app])
      BY <1>1, <2>2 DEF ActiveTask, HostState, Interrupted
    <3>. QED
      BY <2>5, <2>6, <3>1
  <2>. QED
    BY <1>2, <2>6, <2>7, <2>8, ActiveTaskOfOne DEF Dispatching
<1>. QED
  BY <1>3, <1>4, <1>5

(* Dispatch takes the task that the baton names, and checkpoint replaces    *)
(* the baton that was read back.                                            *)
LEMMA DispatchActiveTask ==
  ASSUME HostsInv, Exclusive, ActiveTask, NEW h \in Host,
         \/ Choose(h) \/ StartExecution(h) \/ (\E r \in Result : AdapterReturns(h, r))
         \/ FinishExecution(h) \/ ReadBack(h) \/ Checkpoint(h)
  PROVE  ActiveTask'
<1>. DEFINE c == host[h].cur
<1>1. /\ host \in [Host -> HostState] /\ host[h] \in HostState
      /\ app \in [App -> AppState]
      /\ \A a \in App : app[a].cur # None => app[a].cur.task = TaskOf(app[a])
  BY DEF HostsInv, HostsTypeOK, ActiveTask
<1>2. InCycle(h) /\ \A g \in Host : g # h => ~InCycle(g)
  <2>1. InCycle(h)
    BY DEF Choose, StartExecution, AdapterReturns, FinishExecution, ReadBack,
       Checkpoint, InCycle
  <2>. QED
    BY <2>1, OneHostAtWork
<1>3. CASE Choose(h)
  <2>1. CASE Goto(h, "ending")
    BY <1>1, <1>3, <2>1, ActiveTaskKept DEF Choose, Goto, HostState, Dispatching
  <2>2. ASSUME NEW a \in App,
               host' = [host EXCEPT ![h] =
                          [host[h] EXCEPT !.pc = "start",
                                          !.cur = NewDispatch(a, TaskOf(app[a]))]]
        PROVE  ActiveTask'
    <3>1. /\ host'[h].pc = "start" /\ host'[h].cur = NewDispatch(a, TaskOf(app[a]))
          /\ \A g \in Host : g # h => host'[g] = host[g]
      BY <1>1, <2>2 DEF HostState
    <3>2. host'[h].cur.task = TaskOf(app[a]) /\ host'[h].cur.app = a
      BY <3>1 DEF NewDispatch
    <3>3. UNCHANGED app
      BY <1>3 DEF Choose
    <3>. QED
      BY <1>1, <1>2, <3>1, <3>2, <3>3, ActiveTaskOfOne
  <2>. QED
    BY <1>3, <2>1, <2>2 DEF Choose
<1>4. CASE StartExecution(h)
  <2>1. PICK e \in Unused :
          /\ app' = [app EXCEPT ![c.app] =
                       [app[c.app] EXCEPT !.cur = [exec |-> e, task |-> c.task]]]
          /\ host' = [host EXCEPT ![h] =
                        [host[h] EXCEPT !.pc = "adapter", !.cur = [c EXCEPT !.exec = e]]]
    BY <1>4 DEF StartExecution
  <2>2. c \in Dispatch /\ c.app \in App /\ c.task = TaskOf(app[c.app])
    BY <1>4 DEF StartExecution, HostsInv, HostOK, ActiveTask, Dispatching, Dispatch
  <2>3. app[c.app] \in AppState
    BY <1>1, <2>2
  <2>4. /\ app'[c.app].active = app[c.app].active /\ app'[c.app].next = app[c.app].next
        /\ app'[c.app].cur.task = c.task
        /\ \A a \in App : a # c.app => app'[a] = app[a]
    BY <1>1, <2>1, <2>2, <2>3 DEF AppState
  <2>5. TaskOf(app'[c.app]) = TaskOf(app[c.app])
    BY <2>4 DEF TaskOf
  <2>6. /\ host'[h].pc = "adapter" /\ host'[h].cur = [c EXCEPT !.exec = e]
        /\ \A g \in Host : g # h => host'[g] = host[g]
    BY <1>1, <2>1 DEF HostState
  <2>7. host'[h].cur.app = c.app /\ host'[h].cur.task = c.task
    BY <2>2, <2>6 DEF Dispatch
  <2>. HIDE DEF c
  <2>8. \A a \in App : app'[a].cur # None => app'[a].cur.task = TaskOf(app'[a])
    <3>1. ASSUME NEW a \in App, a # c.app, app'[a].cur # None
          PROVE  app'[a].cur.task = TaskOf(app'[a])
      BY <1>1, <2>4, <3>1
    <3>2. app'[c.app].cur.task = TaskOf(app'[c.app])
      BY <2>2, <2>4, <2>5
    <3>. QED
      BY <3>1, <3>2
  <2>. QED
    BY <1>2, <2>2, <2>5, <2>6, <2>7, <2>8, ActiveTaskOfOne
<1>5. ASSUME NEW r \in Result, AdapterReturns(h, r) PROVE ActiveTask'
  <2>1. /\ c \in Dispatch /\ c.app \in App /\ c.task = TaskOf(app[c.app]) /\ UNCHANGED app
        /\ host' = [host EXCEPT ![h] =
                     [host[h] EXCEPT !.pc = "finish", !.cur = [c EXCEPT !.result = r]]]
    BY <1>5 DEF AdapterReturns, HostsInv, HostOK, ActiveTask, Dispatching, Dispatch
  <2>2. /\ host'[h].pc = "finish" /\ host'[h].cur = [c EXCEPT !.result = r]
        /\ \A g \in Host : g # h => host'[g] = host[g]
    BY <1>1, <2>1 DEF HostState
  <2>3. host'[h].cur.app = c.app /\ host'[h].cur.task = c.task
    BY <2>1, <2>2 DEF Dispatch
  <2>. HIDE DEF c
  <2>. QED
    BY <1>1, <1>2, <2>1, <2>2, <2>3, ActiveTaskOfOne
<1>6. CASE FinishExecution(h)
  <2>1. c.task = TaskOf(app[c.app]) /\ UNCHANGED app
    BY <1>6 DEF FinishExecution, ActiveTask, Dispatching
  <2>2. /\ host'[h].pc = "readback" /\ host'[h].cur = c
        /\ \A g \in Host : g # h => host'[g] = host[g]
    BY <1>1, <1>6 DEF FinishExecution, Goto, HostState
  <2>. HIDE DEF c
  <2>. QED
    BY <1>1, <1>2, <2>1, <2>2, ActiveTaskOfOne
<1>7. CASE ReadBack(h)
  <2>. DEFINE d == [c EXCEPT !.next = app[c.app].next, !.gate = app[c.app].gate]
  <2>1. /\ c \in Dispatch /\ c.task = TaskOf(app[c.app]) /\ UNCHANGED app
        /\ host' = [host EXCEPT ![h] = [host[h] EXCEPT !.pc = "checkpoint", !.cur = d]]
    BY <1>7 DEF ReadBack, HostsInv, HostOK, ActiveTask, Dispatching
  <2>2. /\ host'[h].pc = "checkpoint" /\ host'[h].cur = d
        /\ \A g \in Host : g # h => host'[g] = host[g]
    BY <1>1, <2>1 DEF HostState
  <2>3. d.app = c.app /\ d.task = c.task /\ d.next = app[c.app].next
    BY <2>1 DEF Dispatch
  <2>. HIDE DEF c, d
  <2>. QED
    BY <1>1, <1>2, <2>1, <2>2, <2>3, ActiveTaskOfOne
<1>8. CASE Checkpoint(h)
  <2>. DEFINE row == IF c.result = "DONE" THEN Advanced(c) ELSE Retained(c)
  <2>1. c \in Dispatch /\ c.app \in App /\ app' = [app EXCEPT ![c.app] = row]
    BY <1>8 DEF Checkpoint, HostsInv, HostOK, Dispatching, Dispatch
  <2>2. row.cur = None
    BY <2>1, AdvancedBaton, RetainedBaton
  <2>. HIDE DEF row
  <2>3. \A a \in App : app'[a].cur # None => app'[a] = app[a]
    BY <1>1, <2>1, <2>2
  <2>4. /\ host'[h].pc \in {"choose", "reconsider"}
        /\ \A g \in Host : g # h => host'[g] = host[g]
    BY <1>1, <1>8 DEF Checkpoint, HostState
  <2>5. host'[h].pc \notin (Dispatching \ {"reconsider"}) \cup {"recover", "checkpoint"}
    BY <2>4 DEF Dispatching
  <2>. HIDE DEF c
  <2>. QED
    BY <1>1, <1>2, <2>3, <2>4, <2>5, ActiveTaskOfOne
<1>. QED
  BY <1>3, <1>4, <1>5, <1>6, <1>7, <1>8

LEMMA ActiveTaskStep ==
  ASSUME HostsInv, Exclusive, ActiveTask, HostsNext, HostsUndisturbed'
  PROVE  ActiveTask'
<1>1. CASE LeaseExpires
  BY <1>1 DEF LeaseExpires, ActiveTask
<1>2. ASSUME NEW b \in App, RetryDue(b) PROVE ActiveTask'
  <2>1. app \in [App -> AppState] /\ UNCHANGED host
    BY <1>2 DEF HostsInv, HostsTypeOK, RetryDue
  <2>2. \A a \in App : /\ app'[a].next = app[a].next /\ app'[a].active = app[a].active
                       /\ app'[a].cur = app[a].cur
    BY <1>2, <2>1 DEF RetryDue, AppState
  <2>3. \A a \in App : TaskOf(app'[a]) = TaskOf(app[a])
    BY <2>2 DEF TaskOf
  <2>4. ASSUME NEW h \in Host
        PROVE  /\ host[h].pc \in Dispatching => host[h].cur.app \in App
               /\ \A r \in host[h].todo : r.app \in App
    <3>1. host[h] \in HostState /\ HostOK(h)
      BY DEF HostsInv, HostsTypeOK
    <3>2. \A r \in host[h].todo : r \in Interrupted
      BY <3>1 DEF HostState
    <3>. QED
      BY <3>1, <3>2 DEF HostOK, Dispatch, Interrupted
  <2>. QED
    BY <2>1, <2>2, <2>3, <2>4 DEF ActiveTask, Dispatching
<1>. QED
  BY <1>1, <1>2, UndisturbedBefore, QuietActiveTask, RecoveryActiveTask, DispatchActiveTask
     DEF HostsNext, Environment, HostStep

HostsCalm == HostsUndisturbed => Exclusive /\ ActiveTask

LEMMA HostsCalmHolds == HostsSpec => []HostsCalm
<1>1. HostsInit => HostsCalm
  <2>. SUFFICES ASSUME HostsInit PROVE Exclusive /\ ActiveTask
    BY DEF HostsCalm
  <2>1. \A h \in Host : host[h].pc = "off" /\ ~host[h].beat
    BY DEF HostsInit, Off
  <2>2. lease.owner \notin Host /\ \A a \in App : app[a].cur = None
    BY ControlPlaneAssumption DEF HostsInit
  <2>3. Exclusive
    BY <2>1, <2>2 DEF Exclusive, InCycle
  <2>4. ActiveTask
    BY <2>1, <2>2 DEF ActiveTask, Dispatching
  <2>. QED
    BY <2>3, <2>4
<1>2. HostsInv /\ HostsCalm /\ [HostsNext]_hostVars => HostsCalm'
  <2>. SUFFICES ASSUME HostsInv, HostsCalm, [HostsNext]_hostVars, HostsUndisturbed'
                PROVE  (Exclusive /\ ActiveTask)'
    BY DEF HostsCalm
  <2>1. CASE HostsNext
    BY <2>1, UndisturbedBefore, ExclusiveStep, ActiveTaskStep DEF HostsCalm
  <2>2. CASE UNCHANGED hostVars
    BY <2>2 DEF hostVars, HostsCalm, HostsUndisturbed, Exclusive, ActiveTask, InCycle
  <2>. QED
    BY <2>1, <2>2
<1>. QED
  BY <1>1, <1>2, HostsInvariantHolds, PTL DEF HostsSpec

(* Until a host is told to stop or its lease stalls, whoever works on the   *)
(* batons has the lease, however often hosts crash and are restarted        *)
(* (worker.py:60-75).                                                       *)
THEOREM DispatchAuthorityHolds == HostsSpec => [](HostsUndisturbed => DispatchAuthority)
<1>1. HostsCalm => (HostsUndisturbed => DispatchAuthority)
  BY DEF HostsCalm, Exclusive, DispatchAuthority
<1>. QED
  BY <1>1, HostsCalmHolds, PTL

-----------------------------------------------------------------------------
(* The batons implement the ordered backlog.                                *)

(* The first of an application's work is the task that is dispatched.       *)
LEMMA WorkOfTask ==
  ASSUME NEW s \in AppState, TaskOf(s) # NoTask
  PROVE  /\ Work(s) \in Seq(Task) /\ Work(s) # <<>> /\ Head(Work(s)) = TaskOf(s)
         /\ Tail(Work(s)) = IF s.next # <<>> /\ Head(s.next) = TaskOf(s)
                            THEN Tail(s.next) ELSE s.next
<1>1. s.next \in Seq(Task) /\ s.active \in Task \cup {NoTask}
  BY DEF AppState
<1>2. CASE s.active = NoTask
  BY <1>1, <1>2 DEF Work, TaskOf
<1>3. CASE s.active # NoTask
  <2>1. CASE s.next # <<>> /\ Head(s.next) = s.active
    BY <1>1, <1>3, <2>1 DEF Work, TaskOf
  <2>2. CASE ~(s.next # <<>> /\ Head(s.next) = s.active)
    <3>1. Work(s) = <<s.active>> \o s.next /\ TaskOf(s) = s.active /\ s.active \in Task
      BY <1>1, <1>3, <2>2 DEF Work, TaskOf
    <3>2. /\ <<s.active>> \o s.next \in Seq(Task) /\ <<s.active>> \o s.next # <<>>
          /\ Head(<<s.active>> \o s.next) = s.active
          /\ Tail(<<s.active>> \o s.next) = s.next
      BY <1>1, <3>1
    <3>. QED
      BY <2>2, <3>1, <3>2
  <2>. QED
    BY <2>1, <2>2
<1>. QED
  BY <1>2, <1>3

(* Work is the same when the task is put down as the active one.            *)
LEMMA WorkOfActive ==
  ASSUME NEW s \in AppState, NEW t \in AppState, TaskOf(s) # NoTask,
         t.next = s.next, t.active = TaskOf(s)
  PROVE  Work(t) = Work(s)
BY DEF Work, TaskOf, AppState

(* A finished task hands over: what is left is the tail.                    *)
LEMMA WorkAdvanced ==
  ASSUME NEW s \in AppState, NEW c \in Dispatch, c.task = TaskOf(s), c.next = s.next
  PROVE  Work(Advanced(c)) = Tail(Work(s))
<1>. DEFINE rest == IF c.next # <<>> /\ Head(c.next) = c.task THEN Tail(c.next) ELSE c.next
            first == IF rest # <<>> THEN Head(rest) ELSE NoTask
<1>1. c.next \in Seq(Task) /\ c.task \in Task /\ NoTask \notin Task
  BY ControlPlaneAssumption DEF Dispatch
<1>2. Tail(Work(s)) = rest
  BY <1>1, WorkOfTask
<1>3. Advanced(c).active = first /\ Advanced(c).next = rest
  BY DEF Advanced
<1>. HIDE DEF rest
<1>4. Work(Advanced(c)) = rest
  BY <1>3 DEF Work
<1>. QED
  BY <1>2, <1>4

WorkLeft == [a \in App |-> Work(app[a])]

LEMMA InitBacklog == HostsInit => Backlog!Init
<1>. SUFFICES ASSUME HostsInit PROVE Backlog!Init
  OBVIOUS
<1>1. PICK p \in Plans :
        app = [a \in App |-> [active |-> p[a].active, next |-> p[a].next,
                              cur |-> None, gate |-> None]]
  BY DEF HostsInit
<1>2. \A a \in App : Work(app[a]) = Work(p[a])
  BY <1>1 DEF Work
<1>3. WorkLeft = [a \in App |-> Work(p[a])]
  BY <1>2 DEF WorkLeft
<1>4. done = {}
  BY DEF HostsInit
<1>. QED
  BY <1>3, <1>4 DEF Backlog!Init, WorkLeft

(* Steps after which every application has the same work left.              *)
LEMMA SameBacklog ==
  ASSUME UNCHANGED done, \A a \in App : Work(app'[a]) = Work(app[a])
  PROVE  UNCHANGED <<WorkLeft, done>>
BY DEF WorkLeft

(* A result is recorded: the first task of the backlog is done.             *)
LEMMA FinishRecords ==
  ASSUME HostsInv, ActiveTask, NEW h \in Host, FinishExecution(h)
  PROVE  Backlog!Record(host[h].cur.app) \/ UNCHANGED <<WorkLeft, done>>
<1>. DEFINE c == host[h].cur
            a == c.app
<1>1. /\ c \in Dispatch /\ a \in App /\ c.task \in Task /\ c.task = TaskOf(app[a])
      /\ app[a] \in AppState
  BY DEF FinishExecution, HostsInv, HostsTypeOK, HostOK, ActiveTask, Dispatching,
     Dispatch
<1>2. UNCHANGED app /\ done' = IF c.result = "DONE" THEN done \cup {<<a, c.task>>} ELSE done
  BY DEF FinishExecution
<1>. HIDE DEF c
<1>3. UNCHANGED WorkLeft
  BY <1>2 DEF WorkLeft
<1>4. Work(app[a]) # <<>> /\ Head(Work(app[a])) = c.task
  BY <1>1, WorkOfTask, ControlPlaneAssumption
<1>5. WorkLeft[a] = Work(app[a])
  BY <1>1 DEF WorkLeft
<1>. QED
  BY <1>2, <1>3, <1>4, <1>5 DEF Backlog!Record, WorkLeft, c

(* A checkpoint drops the first task if it is recorded as done, and puts    *)
(* the baton down with the same work otherwise.                             *)
LEMMA CheckpointDrops ==
  ASSUME HostsInv, ActiveTask, NEW h \in Host, Checkpoint(h)
  PROVE  IF host[h].cur.result = "DONE"
         THEN Backlog!Drop(host[h].cur.app) ELSE UNCHANGED <<WorkLeft, done>>
<1>. DEFINE c == host[h].cur
            a == c.app
            row == IF c.result = "DONE" THEN Advanced(c) ELSE Retained(c)
<1>1. /\ c \in Dispatch /\ a \in App /\ c.task \in Task /\ c.task = TaskOf(app[a])
      /\ app[a] \in AppState /\ c.next = app[a].next
      /\ c.result = "DONE" => <<a, c.task>> \in done
  BY DEF Checkpoint, HostsInv, HostsTypeOK, HostOK, ActiveTask, Dispatching, Dispatch
<1>2. app' = [app EXCEPT ![a] = row] /\ UNCHANGED done /\ app \in [App -> AppState]
  BY DEF Checkpoint, HostsInv, HostsTypeOK
<1>3. TaskOf(app[a]) # NoTask
  BY <1>1, ControlPlaneAssumption
<1>4. Work(row) = IF c.result = "DONE" THEN Tail(Work(app[a])) ELSE Work(app[a])
  <2>1. CASE c.result = "DONE"
    BY <1>1, <2>1, WorkAdvanced
  <2>2. CASE c.result # "DONE"
    BY <1>1, <1>3, <2>2, RetainedBaton, WorkOfActive
  <2>. QED
    BY <2>1, <2>2
<1>5. Work(app[a]) # <<>> /\ Head(Work(app[a])) = c.task
  BY <1>1, <1>3, WorkOfTask
<1>. HIDE DEF row, c
<1>6. \A b \in App : app'[b] = IF b = a THEN row ELSE app[b]
  BY <1>1, <1>2
<1>7. CASE c.result = "DONE"
  <2>1. WorkLeft' = [WorkLeft EXCEPT ![a] = Tail(WorkLeft[a])]
    BY <1>1, <1>4, <1>6, <1>7 DEF WorkLeft
  <2>2. WorkLeft[a] = Work(app[a])
    BY <1>1 DEF WorkLeft
  <2>. QED
    BY <1>1, <1>2, <1>5, <1>7, <2>1, <2>2 DEF Backlog!Drop, WorkLeft, c
<1>8. CASE c.result # "DONE"
  BY <1>2, <1>4, <1>6, <1>8, SameBacklog DEF c
<1>. QED
  BY <1>7, <1>8 DEF c

(* Recovery puts the interrupted task back where the baton names it.        *)
LEMMA RestoreKeepsBacklog ==
  ASSUME HostsInv, ActiveTask, NEW h \in Host, RecoverRestore(h)
  PROVE  UNCHANGED <<WorkLeft, done>>
<1>1. PICK r \in host[h].todo :
        app' = [app EXCEPT ![r.app] =
                  [app[r.app] EXCEPT !.active = r.task, !.cur = None, !.gate = r.gate]]
  BY DEF RecoverRestore
<1>2. UNCHANGED done /\ host[h].pc = "recover" /\ host[h] \in HostState
  BY DEF RecoverRestore, HostsInv, HostsTypeOK
<1>3. r \in Interrupted
  BY <1>2 DEF HostState
<1>4. /\ r.app \in App /\ r.task \in Task /\ r.gate \in Task \cup {None}
      /\ r.task = TaskOf(app[r.app])
  BY <1>2, <1>3 DEF Interrupted, ActiveTask
<1>. DEFINE row == [app[r.app] EXCEPT !.active = r.task, !.cur = None, !.gate = r.gate]
<1>5. app[r.app] \in AppState /\ app \in [App -> AppState]
  BY <1>4 DEF HostsInv, HostsTypeOK
<1>6. row \in AppState /\ row.next = app[r.app].next /\ row.active = r.task
  BY <1>4, <1>5 DEF AppState
<1>7. app' = [app EXCEPT ![r.app] = row]
  BY <1>1
<1>. HIDE DEF row
<1>8. Work(row) = Work(app[r.app])
  BY <1>4, <1>5, <1>6, WorkOfActive, ControlPlaneAssumption
<1>9. \A b \in App : Work(app'[b]) = Work(app[b])
  BY <1>5, <1>7, <1>8
<1>. QED
  BY <1>2, <1>9, SameBacklog

(* Everything else leaves the work as it is.                                *)
LEMMA OtherStepsKeepBacklog ==
  ASSUME HostsInv,
         \/ \E h \in Host :
              \/ StartHost(h) \/ Acquire(h) \/ Heartbeat(h) \/ Scan(h) \/ RecoverClose(h)
              \/ RecoverDone(h) \/ Choose(h) \/ StartExecution(h) \/ FinishRefused(h)
              \/ ReadBack(h) \/ Reconsider(h) \/ JoinHeartbeat(h) \/ Leave(h) \/ Crash(h)
              \/ \E r \in Result : AdapterReturns(h, r)
         \/ LeaseExpires
         \/ \E a \in App : RetryDue(a)
  PROVE  UNCHANGED <<WorkLeft, done>>
<1>1. app \in [App -> AppState]
  BY DEF HostsInv, HostsTypeOK
<1>2. ASSUME NEW h \in Host, StartExecution(h) PROVE UNCHANGED <<WorkLeft, done>>
  <2>1. PICK e \in Unused :
          app' = [app EXCEPT ![host[h].cur.app] =
                    [app[host[h].cur.app] EXCEPT
                       !.cur = [exec |-> e, task |-> host[h].cur.task]]]
    BY <1>2 DEF StartExecution
  <2>2. \A a \in App : app'[a].next = app[a].next /\ app'[a].active = app[a].active
    BY <1>1, <2>1 DEF AppState
  <2>3. \A a \in App : Work(app'[a]) = Work(app[a])
    BY <2>2 DEF Work
  <2>. QED
    BY <1>2, <2>3, SameBacklog DEF StartExecution
<1>3. ASSUME NEW b \in App, RetryDue(b) PROVE UNCHANGED <<WorkLeft, done>>
  <2>1. \A a \in App : app'[a].next = app[a].next /\ app'[a].active = app[a].active
    BY <1>1, <1>3 DEF RetryDue, AppState
  <2>2. \A a \in App : Work(app'[a]) = Work(app[a])
    BY <2>1 DEF Work
  <2>. QED
    BY <1>3, <2>2, SameBacklog DEF RetryDue
<1>4. CASE UNCHANGED <<app, done>>
  BY <1>4 DEF WorkLeft
<1>. QED
  BY <1>2, <1>3, <1>4 DEF StartHost, Acquire, Heartbeat, Scan, RecoverClose,
     RecoverDone, Choose, FinishRefused, ReadBack, Reconsider,
     JoinHeartbeat, Leave, Crash, AdapterReturns, LeaseExpires

LEMMA StepBacklog ==
  ASSUME HostsInv, HostsCalm, HostsUndisturbed', [HostsNext]_hostVars
  PROVE  [Backlog!Next]_<<WorkLeft, done>>
<1>1. CASE UNCHANGED hostVars
  BY <1>1 DEF hostVars, WorkLeft
<1>2. CASE HostsNext
  <2>1. ActiveTask
    BY <1>2, UndisturbedBefore DEF HostsCalm
  <2>2. ASSUME NEW h \in Host, FinishExecution(h) \/ Checkpoint(h)
        PROVE  [Backlog!Next]_<<WorkLeft, done>>
    <3>1. host[h].cur.app \in App
      BY <2>2 DEF FinishExecution, Checkpoint, HostsInv, HostOK, Dispatching,
         Dispatch
    <3>. QED
      BY <2>1, <2>2, <3>1, FinishRecords, CheckpointDrops DEF Backlog!Next
  <2>3. ASSUME NEW h \in Host, RecoverRestore(h) PROVE UNCHANGED <<WorkLeft, done>>
    BY <2>1, <2>3, RestoreKeepsBacklog
  <2>. QED
    BY <1>2, <2>2, <2>3, UndisturbedBefore, OtherStepsKeepBacklog DEF HostsNext,
       Environment, HostStep
<1>. QED
  BY <1>1, <1>2

(* Until a host is told to stop or its lease stalls, the batons are worked  *)
(* off strictly in order: the task at the head of an application's work is  *)
(* recorded as done, then dropped, and no crash or recovery ever brings it  *)
(* back or passes over one (orchestrator.py:93-117, 227-277).               *)
THEOREM ImplementsBacklogHolds == HostsSpec /\ []HostsUndisturbed => ImplementsBacklog
<1>1. HostsInv /\ HostsCalm /\ HostsUndisturbed' /\ [HostsNext]_hostVars
        => [Backlog!Next]_<<[a \in App |-> Work(app[a])], done>>
  BY StepBacklog DEF WorkLeft
<1>. QED
  BY <1>1, InitBacklog, HostsInvariantHolds, HostsCalmHolds, PTL DEF HostsSpec,
     ImplementsBacklog, Backlog!Spec

(* Where nobody is stopped and no lease stalls, nothing ever disturbs.      *)
LEMMA NothingDisturbs ==
  ASSUME MaxStops = 0, MaxStalls = 0, HostsInv, HostsUndisturbed, [HostsNext]_hostVars
  PROVE  HostsUndisturbed'
<1>1. faults \in Faults /\ faults.stops = 0 /\ faults.stalls = 0
  BY DEF HostsInv, HostsTypeOK, Faults, HostsUndisturbed
<1>2. ASSUME NEW h \in Host, HostStep(h) \/ Heartbeat(h) PROVE UNCHANGED faults
  BY <1>2 DEF HostStep, Heartbeat, StartHost, Acquire, Scan, RecoverClose,
     RecoverRestore, RecoverDone, Choose, StartExecution, FinishExecution,
     FinishRefused, ReadBack, Checkpoint, Reconsider, JoinHeartbeat, Leave
<1>3. ASSUME NEW h \in Host, Crash(h) \/ \E r \in Result : AdapterReturns(h, r)
      PROVE  faults'.stops = faults.stops /\ faults'.stalls = faults.stalls
  BY <1>1, <1>3 DEF Crash, AdapterReturns, Faults
<1>4. /\ ~LeaseStalls
      /\ \A h \in Host : ~Stop(h) /\ ~StopRaises(h) /\ ~StopRaisesInAdapter(h)
  BY <1>1 DEF LeaseStalls, Stop, StopRaises, StopRaisesInAdapter
<1>5. ASSUME LeaseExpires \/ \E a \in App : RetryDue(a) PROVE UNCHANGED faults
  BY <1>5 DEF LeaseExpires, RetryDue
<1>. QED
  BY <1>2, <1>3, <1>4, <1>5 DEF HostsNext, Environment, HostsUndisturbed, hostVars

(* The same for hosts that can only crash, as in the run of this name:      *)
(* there nothing ever disturbs.                                             *)
THEOREM HostsCrashesOnly ==
  ASSUME MaxStops = 0, MaxStalls = 0
  PROVE  HostsSpec => []DispatchAuthority /\ ImplementsBacklog
<1>1. HostsInit => HostsUndisturbed
  BY DEF HostsInit, HostsUndisturbed
<1>2. HostsInv /\ HostsUndisturbed /\ [HostsNext]_hostVars => HostsUndisturbed'
  BY NothingDisturbs
<1>3. HostsSpec => []HostsUndisturbed
  BY <1>1, <1>2, HostsInvariantHolds, PTL DEF HostsSpec
<1>. QED
  BY <1>3, DispatchAuthorityHolds, ImplementsBacklogHolds, PTL

-----------------------------------------------------------------------------
(* What the composition with the queue relies on.                           *)

(* What a host does of itself, the places of its dispatch and its result.   *)
LEMMA HostMoves ==
  ASSUME HostsInv, NEW h \in Host, HostStep(h)
  PROVE  /\ \A g \in Host : g # h => host'[g] = host[g]
         /\ host[h].pc # "adapter" /\ host'[h].pc # "finish"
         /\ host'[h].pc = "adapter" => host[h].pc = "start"
         /\ host'[h].pc \in {"readback", "checkpoint"} =>
              host[h].pc = IF host'[h].pc = "readback" THEN "finish" ELSE "readback"
         /\ host[h].pc = "finish" /\ history[host[h].cur.exec] = "EXECUTING"
              => host'[h].pc = "readback"
         /\ host[h].pc = "readback" => host'[h].pc = "checkpoint"
         /\ host'[h].pc \in {"readback", "checkpoint"} =>
              /\ host'[h].cur.app = host[h].cur.app
              /\ host'[h].cur.task = host[h].cur.task
              /\ host'[h].cur.result = host[h].cur.result
         /\ \/ UNCHANGED done
            \/ /\ host[h].pc = "finish" /\ host[h].cur.result = "DONE"
               /\ done' = done \cup {<<host[h].cur.app, host[h].cur.task>>}
<1>1. /\ host \in [Host -> HostState] /\ host[h] \in HostState
      /\ Off.pc = "off"
  BY DEF HostsInv, HostsTypeOK, Off
<1>2. CASE StartHost(h)
  BY <1>1, <1>2 DEF StartHost, Goto, HostState
<1>3. CASE Acquire(h)
  BY <1>1, <1>3 DEF Acquire, HostState
<1>4. CASE Scan(h)
  BY <1>1, <1>4 DEF Scan, HostState
<1>5. CASE RecoverClose(h)
  BY <1>1, <1>5 DEF RecoverClose, HostState
<1>6. CASE RecoverRestore(h)
  BY <1>1, <1>6 DEF RecoverRestore, HostState
<1>7. CASE RecoverDone(h)
  BY <1>1, <1>7 DEF RecoverDone, HostState
<1>8. CASE Choose(h)
  <2>1. host[h].pc = "choose" /\ UNCHANGED done
    BY <1>8 DEF Choose
  <2>2. \/ host' = [host EXCEPT ![h] = [host[h] EXCEPT !.pc = "ending"]]
        \/ \E c : host' = [host EXCEPT ![h] = [host[h] EXCEPT !.pc = "start", !.cur = c]]
    BY <1>8 DEF Choose, Goto
  <2>3. PICK s : host' = [host EXCEPT ![h] = s] /\ s.pc \in {"ending", "start"}
    <3>1. /\ [host[h] EXCEPT !.pc = "ending"].pc = "ending"
          /\ \A c : [host[h] EXCEPT !.pc = "start", !.cur = c].pc = "start"
      BY <1>1 DEF HostState
    <3>. QED
      BY <2>2, <3>1
  <2>4. host'[h] = s /\ \A g \in Host : g # h => host'[g] = host[g]
    BY <1>1, <2>3
  <2>. QED
    BY <2>1, <2>3, <2>4
<1>9. CASE StartExecution(h)
  BY <1>1, <1>9 DEF StartExecution, HostState
<1>10. CASE FinishExecution(h)
  BY <1>1, <1>10 DEF FinishExecution, Goto, HostState
<1>11. CASE FinishRefused(h)
  BY <1>1, <1>11 DEF FinishRefused, HostState
<1>12. CASE ReadBack(h)
  <2>. DEFINE c == host[h].cur
              d == [c EXCEPT !.next = app[c.app].next, !.gate = app[c.app].gate]
  <2>1. c \in Dispatch
    BY <1>12 DEF ReadBack, HostsInv, HostOK, Dispatching
  <2>2. d.app = c.app /\ d.task = c.task /\ d.result = c.result
    BY <2>1 DEF Dispatch
  <2>3. /\ host[h].pc = "readback"
        /\ host' = [host EXCEPT ![h] = [host[h] EXCEPT !.pc = "checkpoint", !.cur = d]]
    BY <1>12 DEF ReadBack
  <2>. HIDE DEF d
  <2>4. host'[h].pc = "checkpoint" /\ host'[h].cur = d
    BY <1>1, <2>3 DEF HostState
  <2>. QED
    BY <1>1, <1>12, <2>2, <2>3, <2>4 DEF ReadBack
<1>13. CASE Checkpoint(h)
  BY <1>1, <1>13 DEF Checkpoint, HostState
<1>14. CASE Reconsider(h)
  BY <1>1, <1>14 DEF Reconsider, HostState
<1>15. CASE JoinHeartbeat(h)
  BY <1>1, <1>15 DEF JoinHeartbeat, HostState
<1>16. CASE Leave(h)
  BY <1>1, <1>16 DEF Leave, HostState
<1>. QED
  BY <1>2, <1>3, <1>4, <1>5, <1>6, <1>7, <1>8, <1>9, <1>10, <1>11, <1>12, <1>13, <1>14,
     <1>15, <1>16 DEF HostStep

(* What signals, heartbeats and the clock do to a host's dispatch.          *)
LEMMA EnvironmentMoves ==
  ASSUME HostsInv, Environment, NEW g \in Host
  PROVE  /\ UNCHANGED done
         /\ host[g].pc = "adapter" => host'[g].pc = "adapter"
         /\ host'[g].pc \in {"adapter", "finish", "readback", "checkpoint"} =>
              host'[g].pc = host[g].pc /\ host'[g].cur = host[g].cur
         /\ \/ host'[g].pc = host[g].pc /\ host'[g].cur = host[g].cur
            \/ StopRaises(g)
<1>1. host \in [Host -> HostState]
  BY DEF HostsInv, HostsTypeOK
<1>2. ASSUME NEW h \in Host, Heartbeat(h) \/ Stop(h)
      PROVE  UNCHANGED done /\ host'[g].pc = host[g].pc /\ host'[g].cur = host[g].cur
  <2>1. /\ UNCHANGED done
        /\ \/ UNCHANGED host
           \/ host' = [host EXCEPT ![h] = [host[h] EXCEPT !.beat = FALSE, !.stop = TRUE]]
           \/ host' = [host EXCEPT ![h] = [host[h] EXCEPT !.stop = TRUE]]
    BY <1>2 DEF Heartbeat, Stop
  <2>2. \A s \in HostState : /\ [s EXCEPT !.beat = FALSE, !.stop = TRUE].pc = s.pc
                                /\ [s EXCEPT !.beat = FALSE, !.stop = TRUE].cur = s.cur
                                /\ [s EXCEPT !.stop = TRUE].pc = s.pc
                                /\ [s EXCEPT !.stop = TRUE].cur = s.cur
    BY DEF HostState
  <2>3. host'[g].pc = host[g].pc /\ host'[g].cur = host[g].cur
    BY <1>1, <2>1, <2>2
  <2>. QED
    BY <2>1, <2>3
<1>3. ASSUME NEW h \in Host, StopRaises(h)
      PROVE  /\ UNCHANGED done
             /\ h # g => UNCHANGED host[g]
             /\ h = g => host'[g].pc \in {"leaving", "unwinding"} /\ host[g].pc # "adapter"
  BY <1>1, <1>3 DEF StopRaises, InTransaction, HostState
<1>4. CASE LeaseExpires \/ LeaseStalls \/ \E a \in App : RetryDue(a)
  BY <1>4 DEF LeaseExpires, LeaseStalls, RetryDue
<1>. QED
  BY <1>2, <1>3, <1>4 DEF Environment

(* An adapter's answer, or a stop signal in it, which counts as ERROR.      *)
LEMMA AnswerMoves ==
  ASSUME HostsInv, NEW h \in Host, NEW r,
         AdapterReturns(h, r) \/ (StopRaisesInAdapter(h) /\ r = "ERROR")
  PROVE  /\ \A g \in Host : g # h => host'[g] = host[g]
         /\ host[h].pc = "adapter" /\ host'[h].pc = "finish"
         /\ host'[h].cur = [host[h].cur EXCEPT !.result = r]
         /\ host'[h].cur.app = host[h].cur.app /\ host'[h].cur.task = host[h].cur.task
         /\ host'[h].cur.exec = host[h].cur.exec /\ host'[h].cur.result = r
         /\ UNCHANGED <<app, history, done>>
<1>1. /\ host \in [Host -> HostState] /\ host[h].pc = "adapter"
      /\ UNCHANGED <<app, history, done>>
  BY DEF HostsInv, HostsTypeOK, AdapterReturns, StopRaisesInAdapter
<1>2. host[h].cur \in Dispatch
  BY <1>1 DEF HostsInv, HostOK, Dispatching
<1>. DEFINE d == [host[h].cur EXCEPT !.result = r]
<1>3. /\ d.app = host[h].cur.app /\ d.task = host[h].cur.task /\ d.exec = host[h].cur.exec
      /\ d.result = r
  BY <1>2 DEF Dispatch
<1>4. /\ host'[h].pc = "finish" /\ host'[h].cur = d
      /\ \A g \in Host : g # h => host'[g] = host[g]
  <2>1. CASE AdapterReturns(h, r)
    <3>1. host' = [host EXCEPT ![h] = [host[h] EXCEPT !.pc = "finish", !.cur = d]]
      BY <2>1 DEF AdapterReturns
    <3>. HIDE DEF d
    <3>. QED
      BY <1>1, <3>1 DEF HostState
  <2>2. CASE StopRaisesInAdapter(h) /\ r = "ERROR"
    <3>1. host' = [host EXCEPT ![h] =
                     [host[h] EXCEPT !.stop = TRUE, !.pc = "finish", !.cur = d]]
      BY <2>2 DEF StopRaisesInAdapter
    <3>. HIDE DEF d
    <3>. QED
      BY <1>1, <3>1 DEF HostState
  <2>. QED
    BY <2>1, <2>2
<1>. QED
  BY <1>1, <1>3, <1>4

(* The execution that a host works on is the open one, so that its result   *)
(* will not be refused.                                                     *)
Fenced ==
  \A h \in Host : host[h].pc \in {"adapter", "finish"} =>
    history[host[h].cur.exec] = "EXECUTING"

LEMMA FencedStep ==
  ASSUME HostsInv, Exclusive, Fenced, HostsNext, HostsUndisturbed'
  PROVE  Fenced'
<1>1. host \in [Host -> HostState] /\ Off.pc = "off"
  BY DEF HostsInv, HostsTypeOK, Off
<1>2. ASSUME NEW h \in Host, HostStep(h) PROVE Fenced'
  <2>1. /\ \A g \in Host : g # h => host'[g] = host[g]
        /\ host'[h].pc # "finish"
        /\ host'[h].pc = "adapter" => host[h].pc = "start"
    BY <1>2, HostMoves
  <2>2. InCycle(h) => \A g \in Host : g # h => host[g].pc \notin {"adapter", "finish"}
    BY DEF Exclusive, InCycle
  <2>3. CASE host[h].pc = "start"
    <3>1. StartExecution(h)
      BY <1>2, <2>3 DEF HostStep, StartHost, Acquire, Scan, RecoverClose,
         RecoverRestore, RecoverDone, Choose, FinishExecution, FinishRefused,
         ReadBack, Checkpoint, Reconsider, JoinHeartbeat, Leave
    <3>2. PICK e \in Unused :
            /\ history' = [f \in Exec |-> IF f = e THEN "EXECUTING"
                                          ELSE IF f \in Unused THEN "free" ELSE history[f]]
            /\ host' = [host EXCEPT ![h] =
                          [host[h] EXCEPT !.pc = "adapter",
                                          !.cur = [host[h].cur EXCEPT !.exec = e]]]
      BY <3>1 DEF StartExecution
    <3>. DEFINE d == [host[h].cur EXCEPT !.exec = e]
    <3>3. host[h].cur \in Dispatch
      BY <2>3 DEF HostsInv, HostOK, Dispatching
    <3>4. d.exec = e
      BY <3>3 DEF Dispatch
    <3>5. e \in Exec /\ history'[e] = "EXECUTING"
      BY <3>2 DEF Unused
    <3>6. host'[h].cur = d
      <4>1. host' = [host EXCEPT ![h] = [host[h] EXCEPT !.pc = "adapter", !.cur = d]]
        BY <3>2
      <4>. HIDE DEF d
      <4>. QED
        BY <1>1, <4>1 DEF HostState
    <3>7. InCycle(h)
      BY <2>3 DEF InCycle
    <3>. QED
      BY <2>1, <2>2, <3>4, <3>5, <3>6, <3>7 DEF Fenced
  <2>4. CASE host[h].pc # "start"
    <3>1. UNCHANGED history \/ InCycle(h)
      BY <1>2 DEF HostStep, StartHost, Acquire, Scan, RecoverClose,
         RecoverRestore, RecoverDone, Choose, StartExecution,
         FinishExecution, FinishRefused, ReadBack, Checkpoint, Reconsider,
         JoinHeartbeat, Leave, InCycle
    <3>2. host'[h].pc \notin {"adapter", "finish"}
      BY <2>1, <2>4
    <3>. QED
      BY <2>1, <2>2, <3>1, <3>2 DEF Fenced
  <2>. QED
    BY <2>3, <2>4
<1>3. ASSUME NEW h \in Host, NEW r \in Result, AdapterReturns(h, r) PROVE Fenced'
  <2>1. /\ \A g \in Host : g # h => host'[g] = host[g]
        /\ host[h].pc = "adapter" /\ host'[h].pc = "finish"
        /\ host'[h].cur.exec = host[h].cur.exec /\ UNCHANGED history
    BY <1>3, AnswerMoves
  <2>. QED
    BY <2>1 DEF Fenced
<1>4. ASSUME NEW h \in Host, Crash(h) PROVE Fenced'
  BY <1>1, <1>4 DEF Crash, Fenced
<1>5. CASE Environment
  <2>1. UNCHANGED history
    BY <1>5 DEF Environment, Heartbeat, Stop, StopRaises, LeaseExpires,
       LeaseStalls, RetryDue
  <2>2. \A g \in Host : host'[g].pc \in {"adapter", "finish"} =>
                          host'[g].pc = host[g].pc /\ host'[g].cur = host[g].cur
    BY <1>5, EnvironmentMoves
  <2>. QED
    BY <2>1, <2>2 DEF Fenced
<1>. QED
  BY <1>2, <1>3, <1>4, <1>5, UndisturbedBefore DEF HostsNext

(* What is left to do is what the ordered work consists of.                 *)
LEMMA RemainingIsWork ==
  ASSUME NEW s \in AppState
  PROVE  Work(s) \in Seq(Task) /\ Remaining(s) = TasksIn(Work(s))
<1>1. s.next \in Seq(Task) /\ s.active \in Task \cup {NoTask} /\ NoTask \notin Task
  BY ControlPlaneAssumption DEF AppState
<1>2. CASE s.active = NoTask
  BY <1>1, <1>2 DEF Work, Remaining
<1>3. CASE s.active # NoTask /\ s.next # <<>> /\ Head(s.next) = s.active
  <2>1. 1 \in DOMAIN s.next /\ s.next[1] = s.active
    BY <1>1, <1>3
  <2>. QED
    BY <1>1, <1>3, <2>1 DEF Work, Remaining, TasksIn
<1>4. CASE s.active # NoTask /\ ~(s.next # <<>> /\ Head(s.next) = s.active)
  <2>. DEFINE q == <<s.active>> \o s.next
  <2>1. Work(s) = q /\ s.active \in Task
    BY <1>1, <1>4 DEF Work
  <2>2. /\ q \in Seq(Task) /\ Len(q) = Len(s.next) + 1 /\ q[1] = s.active
        /\ \A i \in 1..Len(s.next) : q[i + 1] = s.next[i]
    BY <1>1, <2>1
  <2>3. DOMAIN q = 1..(Len(s.next) + 1) /\ DOMAIN s.next = 1..Len(s.next) /\ Len(s.next) \in Nat
    BY <1>1, <2>2, LenProperties
  <2>. HIDE DEF q
  <2>4. \A i \in DOMAIN q : i = 1 \/ (i - 1 \in DOMAIN s.next /\ q[i] = s.next[i - 1])
    <3>. TAKE i \in DOMAIN q
    <3>1. i = 1 \/ (i - 1 \in 1..Len(s.next) /\ (i - 1) + 1 = i)
      BY <2>3
    <3>. QED
      BY <2>2, <2>3, <3>1
  <2>5. \A i \in DOMAIN s.next : i + 1 \in DOMAIN q /\ q[i + 1] = s.next[i]
    BY <2>2, <2>3
  <2>6. 1 \in DOMAIN q
    BY <2>3
  <2>7. TasksIn(q) = TasksIn(s.next) \cup {s.active}
    <3>1. TasksIn(q) \subseteq TasksIn(s.next) \cup {s.active}
      BY <2>2, <2>4 DEF TasksIn
    <3>2. TasksIn(s.next) \subseteq TasksIn(q)
      BY <2>5 DEF TasksIn
    <3>3. s.active \in TasksIn(q)
      BY <2>2, <2>6 DEF TasksIn
    <3>. QED
      BY <3>1, <3>2, <3>3
  <2>. QED
    BY <1>1, <1>4, <2>1, <2>2, <2>7 DEF Remaining
<1>. QED
  BY <1>2, <1>3, <1>4

(* Of the work, a host does the first task.                                 *)
LEMMA FirstOfWork ==
  ASSUME HostsInv, ActiveTask, NEW h \in Host, host[h].pc \in Dispatching \ {"reconsider"}
  PROVE  LET c == host[h].cur
             w == Work(app[c.app])
         IN /\ c.app \in App /\ c.task \in Task
            /\ w \in Seq(Task) /\ w # <<>> /\ Head(w) = c.task
            /\ c.task \in Remaining(app[c.app])
<1>. DEFINE c == host[h].cur
<1>1. c \in Dispatch /\ c.task = TaskOf(app[c.app])
  BY DEF HostsInv, HostOK, ActiveTask
<1>2. c.app \in App /\ c.task \in Task /\ c.task # NoTask /\ app[c.app] \in AppState
  BY <1>1, ControlPlaneAssumption DEF Dispatch, HostsInv, HostsTypeOK
<1>. HIDE DEF c
<1>3. /\ Work(app[c.app]) \in Seq(Task) /\ Work(app[c.app]) # <<>>
      /\ Head(Work(app[c.app])) = c.task
  BY <1>1, <1>2, WorkOfTask
<1>4. c.task \in TasksIn(Work(app[c.app]))
  BY <1>3 DEF TasksIn
<1>. QED
  BY <1>2, <1>3, <1>4, RemainingIsWork DEF c

(* What a host's step does to the work: a checkpoint of a finished task     *)
(* drops the first one, everything else leaves it as it is.                 *)
LEMMA HostWork ==
  ASSUME HostsInv, ActiveTask, NEW h \in Host, HostStep(h), NEW a \in App
  PROVE  Work(app'[a]) =
           IF host[h].pc = "checkpoint" /\ host[h].cur.result = "DONE" /\ host[h].cur.app = a
           THEN Tail(Work(app[a])) ELSE Work(app[a])
<1>1. WorkLeft'[a] = Work(app'[a]) /\ WorkLeft[a] = Work(app[a])
  BY DEF WorkLeft
<1>2. CASE Checkpoint(h)
  <2>1. IF host[h].cur.result = "DONE"
        THEN Backlog!Drop(host[h].cur.app) ELSE UNCHANGED <<WorkLeft, done>>
    BY <1>2, CheckpointDrops
  <2>2. host[h].pc = "checkpoint"
    BY <1>2 DEF Checkpoint
  <2>3. host[h].cur.app \in App
    BY <2>2, FirstOfWork DEF Dispatching
  <2>4. host[h].cur.result = "DONE" =>
          WorkLeft' = [WorkLeft EXCEPT ![host[h].cur.app] = Tail(WorkLeft[host[h].cur.app])]
    BY <2>1 DEF Backlog!Drop, WorkLeft
  <2>5. CASE host[h].cur.result = "DONE"
    <3>1. DOMAIN WorkLeft = App
      BY DEF WorkLeft
    <3>. QED
      BY <1>1, <2>2, <2>3, <2>4, <2>5, <3>1
  <2>6. CASE host[h].cur.result # "DONE"
    BY <1>1, <2>1, <2>6
  <2>. QED
    BY <2>5, <2>6
<1>3. CASE ~Checkpoint(h)
  <2>1. host[h].pc # "checkpoint"
    BY <1>3 DEF HostStep, StartHost, Acquire, Scan, RecoverClose,
       RecoverRestore, RecoverDone, Choose, StartExecution, FinishExecution,
       FinishRefused, ReadBack, Reconsider, JoinHeartbeat, Leave
  <2>2. CASE FinishExecution(h)
    BY <2>1, <2>2 DEF FinishExecution
  <2>3. CASE RecoverRestore(h)
    BY <1>1, <2>1, <2>3, RestoreKeepsBacklog
  <2>4. CASE ~FinishExecution(h) /\ ~RecoverRestore(h)
    BY <1>1, <1>3, <2>1, <2>4, OtherStepsKeepBacklog DEF HostStep
  <2>. QED
    BY <2>2, <2>3, <2>4
<1>. QED
  BY <1>2, <1>3

LEMMA EnvironmentWork ==
  ASSUME HostsInv, Environment, NEW a \in App
  PROVE  Work(app'[a]) = Work(app[a])
<1>1. app \in [App -> AppState]
  BY DEF HostsInv, HostsTypeOK
<1>2. CASE UNCHANGED app
  BY <1>2
<1>3. ASSUME NEW b \in App, RetryDue(b) PROVE Work(app'[a]) = Work(app[a])
  <2>1. app'[a].next = app[a].next /\ app'[a].active = app[a].active
    BY <1>1, <1>3 DEF RetryDue, AppState
  <2>. QED
    BY <2>1 DEF Work
<1>. QED
  BY <1>2, <1>3 DEF Environment, Heartbeat, Stop, StopRaises, LeaseExpires,
     LeaseStalls

(* No task is twice in a list.                                              *)
NoRepeats(q) == \A i, j \in DOMAIN q : q[i] = q[j] => i = j

(* Dropping the head of a list adds nothing, and if it is there only once,  *)
(* it is gone.                                                              *)
LEMMA TailDrops ==
  ASSUME NEW q \in Seq(Task), q # <<>>
  PROVE  /\ TasksIn(Tail(q)) \subseteq TasksIn(q)
         /\ NoRepeats(q) => NoRepeats(Tail(q)) /\ Head(q) \notin TasksIn(Tail(q))
<1>1. /\ Len(q) \in Nat /\ DOMAIN q = 1..Len(q) /\ 1 \in DOMAIN q /\ Head(q) = q[1]
      /\ DOMAIN Tail(q) = 1..(Len(q) - 1)
      /\ \A i \in DOMAIN Tail(q) : Tail(q)[i] = q[i + 1]
  <2>1. /\ Tail(q) \in Seq(Task) /\ Len(Tail(q)) = Len(q) - 1 /\ Head(q) = q[1]
        /\ \A i \in 1..Len(Tail(q)) : Tail(q)[i] = q[i + 1]
    BY HeadTailProperties
  <2>2. Len(q) \in Nat /\ DOMAIN q = 1..Len(q) /\ DOMAIN Tail(q) = 1..Len(Tail(q))
    BY <2>1, LenProperties
  <2>3. 1 \in DOMAIN q
    BY <2>2, EmptySeq, LenProperties
  <2>. QED
    BY <2>1, <2>2, <2>3
<1>2. \A i \in DOMAIN Tail(q) : i + 1 \in DOMAIN q /\ i + 1 # 1 /\ i \in Nat
  BY <1>1
<1>3. TasksIn(Tail(q)) \subseteq TasksIn(q)
  BY <1>1, <1>2 DEF TasksIn
<1>4. ASSUME NoRepeats(q) PROVE Head(q) \notin TasksIn(Tail(q))
  BY <1>1, <1>2, <1>4 DEF TasksIn, NoRepeats
<1>5. ASSUME NoRepeats(q) PROVE NoRepeats(Tail(q))
  <2>. SUFFICES ASSUME NEW i \in DOMAIN Tail(q), NEW j \in DOMAIN Tail(q),
                       Tail(q)[i] = Tail(q)[j]
                PROVE  i = j
    BY DEF NoRepeats
  <2>1. i + 1 = j + 1
    BY <1>1, <1>2, <1>5 DEF NoRepeats
  <2>. QED
    BY <1>2, <2>1
<1>. QED
  BY <1>3, <1>4, <1>5

LEMMA CrashesBefore ==
  ASSUME HostsInv, [HostsNext]_hostVars, faults'.crashes = 0
  PROVE  faults.crashes = 0 /\ \A h \in Host : ~Crash(h)
<1>1. faults \in Faults /\ \A n \in Nat : n + 1 # 0 /\ n + 1 # n
  BY DEF HostsInv, HostsTypeOK, Faults
<1>2. \A h \in Host : ~Crash(h)
  BY <1>1 DEF Crash, Faults
<1>3. ASSUME NEW h \in Host, HostStep(h) PROVE UNCHANGED faults
  BY <1>3 DEF HostStep, StartHost, Acquire, Scan, RecoverClose,
     RecoverRestore, RecoverDone, Choose, StartExecution, FinishExecution,
     FinishRefused, ReadBack, Checkpoint, Reconsider, JoinHeartbeat, Leave
<1>4. ASSUME NEW h \in Host,
             \/ Heartbeat(h) \/ Stop(h) \/ StopRaises(h) \/ StopRaisesInAdapter(h)
             \/ \E r \in Result : AdapterReturns(h, r)
      PROVE  faults'.crashes = faults.crashes
  BY <1>1, <1>4 DEF Heartbeat, Stop, StopRaises, StopRaisesInAdapter,
     AdapterReturns, Faults
<1>5. ASSUME LeaseExpires \/ LeaseStalls \/ \E a \in App : RetryDue(a)
      PROVE  faults'.crashes = faults.crashes
  BY <1>1, <1>5 DEF LeaseExpires, LeaseStalls, RetryDue, Faults
<1>. QED
  BY <1>2, <1>3, <1>4, <1>5 DEF HostsNext, Environment, hostVars

-----------------------------------------------------------------------------
(* The work queue.                                                          *)

-----------------------------------------------------------------------------
(* The table as a sequence of rows.                                         *)

(* Updating one row (claim, renew_claim, finish, consume) changes that row  *)
(* only.                                                                    *)
LEMMA RowUpdate ==
  ASSUME NEW s \in Seq(Job), NEW j \in DOMAIN s, NEW r \in Job
  PROVE  /\ [s EXCEPT ![j] = r] \in Seq(Job)
         /\ DOMAIN [s EXCEPT ![j] = r] = DOMAIN s
         /\ \A k \in DOMAIN s : [s EXCEPT ![j] = r][k] = IF k = j THEN r ELSE s[k]
<1>1. DOMAIN s = 1..Len(s)
  BY LenProperties
<1>2. [s EXCEPT ![j] = r] \in Seq(Job)
  BY <1>1, ExceptSeq
<1>. QED
  BY <1>1, <1>2

(* Inserting a row (submit_or_get) leaves the others where they are.        *)
LEMMA RowInsert ==
  ASSUME NEW s \in Seq(Job), NEW r \in Job
  PROVE  /\ Append(s, r) \in Seq(Job)
         /\ DOMAIN Append(s, r) = DOMAIN s \cup {Len(s) + 1}
         /\ Len(s) + 1 \notin DOMAIN s
         /\ \A k \in DOMAIN s : Append(s, r)[k] = s[k]
         /\ Append(s, r)[Len(s) + 1] = r
<1>1. /\ Len(s) \in Nat /\ DOMAIN s = 1..Len(s)
  BY LenProperties
<1>2. /\ Append(s, r) \in Seq(Job)
      /\ Len(Append(s, r)) = Len(s) + 1
      /\ \A k \in 1..Len(s) : Append(s, r)[k] = s[k]
      /\ Append(s, r)[Len(s) + 1] = r
  BY AppendProperties
<1>3. DOMAIN Append(s, r) = 1..(Len(s) + 1)
  BY <1>2, LenProperties
<1>. QED
  BY <1>1, <1>2, <1>3

(* No row is numbered NoJob.                                                *)
LEMMA RowNumbers ==
  ASSUME NEW s \in Seq(Job)
  PROVE  DOMAIN s \subseteq Nat \ {NoJob}
BY LenProperties DEF NoJob

-----------------------------------------------------------------------------
(* The inductive invariant.                                                 *)

(* The job numbers that processes hold are numbers of rows: rows are never  *)
(* deleted.                                                                 *)
References ==
  /\ \A w \in Worker :
       worker[w].pc \in {"executing", "finished"} => worker[w].job \in DOMAIN jobs
  /\ \A d \in Host :
       /\ dispatcher[d].pc = "consume" => dispatcher[d].job \in DOMAIN jobs
       /\ dispatcher[d].pc = "returned" => dispatcher[d].job \in DOMAIN jobs \cup {NoJob}

ConsumedIsTerminal ==
  \A j \in DOMAIN jobs : jobs[j].consumed => jobs[j].status \in JobTerminal

QueueInv ==
  /\ QueueTypeOK
  /\ References
  /\ ConsumedIsTerminal
  /\ OneOutstandingJob
  /\ ClaimFence
  /\ SingleDelivery

(* Nothing is queued, claimed or delivered in the beginning.                *)
LEMMA QueueInitInvariant == QueueInit => QueueInv
<1>. SUFFICES ASSUME QueueInit PROVE QueueInv
  OBVIOUS
<1>1. jobs \in Seq(Job) /\ DOMAIN jobs = {}
  BY EmptySeq DEF QueueInit
<1>2. QueueTypeOK
  BY <1>1 DEF QueueInit, QueueTypeOK, FreshWorker, IdleDispatcher, WorkerState,
     DispatcherState, NoJob
<1>. QED
  BY <1>1, <1>2 DEF QueueInv, QueueInit, References, ConsumedIsTerminal, OneOutstandingJob,
     ClaimFence, SingleDelivery, FreshWorker, IdleDispatcher

(* submit_or_get inserts a row only when the task has no unconsumed one.    *)
LEMMA SubmitNewInvariant ==
  ASSUME QueueInv, NEW d \in Host, NEW a \in App, NEW t \in Task, SubmitNew(d, a, t)
  PROVE  QueueInv'
<1>. DEFINE n == Len(jobs) + 1
            row == QueuedJob(a, t)
<1>1. row \in Job
  BY WorkQueueAssumption DEF QueuedJob, Job
<1>2. /\ jobs' \in Seq(Job)
      /\ DOMAIN jobs' = DOMAIN jobs \cup {n}
      /\ n \notin DOMAIN jobs
      /\ \A k \in DOMAIN jobs : jobs'[k] = jobs[k]
      /\ jobs'[n] = row
  BY <1>1, RowInsert DEF SubmitNew, QueueInv, QueueTypeOK
<1>3. /\ dispatcher' = [dispatcher EXCEPT ![d] = Returned(NoJob, "PENDING")]
      /\ worker' = worker
      /\ workerFaults' = workerFaults
  BY DEF SubmitNew
<1>. HIDE DEF n, row
<1>4. QueueTypeOK'
  BY <1>2, <1>3 DEF QueueInv, QueueTypeOK, DispatcherState, Returned, NoJob,
     CallOutcome
<1>5. References'
  BY <1>2, <1>3 DEF QueueInv, QueueTypeOK, References, Returned
<1>6. ConsumedIsTerminal'
  BY <1>2 DEF QueueInv, ConsumedIsTerminal, QueuedJob, row
<1>7. OneOutstandingJob'
  BY <1>2 DEF QueueInv, OneOutstandingJob, SubmitNew, Outstanding, QueuedJob,
     row
<1>8. ClaimFence'
  BY <1>2, <1>3 DEF QueueInv, ClaimFence, References, HoldsClaim
<1>9. SingleDelivery'
  BY <1>2, <1>3 DEF QueueInv, QueueTypeOK, SingleDelivery, References, Returned
<1>. QED
  BY <1>4, <1>5, <1>6, <1>7, <1>8, <1>9 DEF QueueInv

(* consume() hands a finished row to one caller: afterwards it is consumed, *)
(* and nobody else can have it.                                             *)
LEMMA ConsumeInvariant ==
  ASSUME QueueInv, NEW d \in Host, Consume(d)
  PROVE  QueueInv'
<1>. DEFINE j == dispatcher[d].job
            row == [jobs[j] EXCEPT !.consumed = TRUE]
<1>1. /\ j \in DOMAIN jobs /\ jobs \in Seq(Job) /\ jobs[j] \in Job
  BY LenProperties, ElementOfSeq DEF Consume, QueueInv, References, QueueTypeOK
<1>2. row \in Job
  BY <1>1 DEF Job
<1>3. /\ jobs' \in Seq(Job)
      /\ DOMAIN jobs' = DOMAIN jobs
      /\ \A k \in DOMAIN jobs : jobs'[k] = IF k = j THEN row ELSE jobs[k]
  BY <1>1, <1>2, RowUpdate DEF Consume
<1>4. /\ dispatcher' = [dispatcher EXCEPT ![d] = Returned(j, jobs[j].status)]
      /\ worker' = worker
      /\ workerFaults' = workerFaults
      /\ jobs[j].status \in JobTerminal
      /\ ~jobs[j].consumed
  BY DEF Consume
<1>5. /\ row.app = jobs[j].app /\ row.task = jobs[j].task
      /\ row.status = jobs[j].status /\ row.owner = jobs[j].owner
      /\ row.attempt = jobs[j].attempt /\ row.consumed
  BY <1>1 DEF Job
<1>6. j \in Nat \ {NoJob}
  BY <1>1, RowNumbers
<1>. HIDE DEF j, row
<1>7. QueueTypeOK'
  BY <1>3, <1>4, <1>6 DEF QueueInv, QueueTypeOK, DispatcherState, Returned, CallOutcome
<1>8. References'
  BY <1>1, <1>3, <1>4 DEF QueueInv, QueueTypeOK, References, Returned
<1>9. ConsumedIsTerminal'
  BY <1>3, <1>4, <1>5 DEF QueueInv, ConsumedIsTerminal
<1>10. OneOutstandingJob'
  BY <1>3, <1>5 DEF QueueInv, OneOutstandingJob
<1>11. ClaimFence'
  BY <1>3, <1>4, <1>5 DEF QueueInv, ClaimFence, References, HoldsClaim
<1>12. SingleDelivery'
  BY <1>1, <1>3, <1>4, <1>5, <1>6 DEF QueueInv, QueueTypeOK, SingleDelivery, References,
     Returned
<1>. QED
  BY <1>7, <1>8, <1>9, <1>10, <1>11, <1>12 DEF QueueInv

(* Steps that leave the table alone and change one caller, which does not   *)
(* come to hold a result.                                                   *)
LEMMA DispatcherInvariant ==
  ASSUME QueueInv, NEW d \in Host, NEW s \in DispatcherState,
         dispatcher' = [dispatcher EXCEPT ![d] = s], UNCHANGED <<jobs, worker, workerFaults>>,
         s.pc = "consume" => s.job \in DOMAIN jobs,
         s.pc = "returned" => s.job = NoJob
  PROVE  QueueInv'
<1>1. QueueTypeOK'
  BY DEF QueueInv, QueueTypeOK
<1>2. References'
  BY DEF QueueInv, QueueTypeOK, References
<1>3. /\ ConsumedIsTerminal' /\ OneOutstandingJob' /\ ClaimFence'
  BY DEF QueueInv, ConsumedIsTerminal, OneOutstandingJob, ClaimFence, HoldsClaim
<1>4. SingleDelivery'
  BY DEF QueueInv, QueueTypeOK, SingleDelivery
<1>. QED
  BY <1>1, <1>2, <1>3, <1>4 DEF QueueInv

LEMMA SubmitExistingInvariant ==
  ASSUME QueueInv, NEW d \in Host, NEW a \in App, NEW t \in Task,
         SubmitExisting(d, a, t)
  PROVE  QueueInv'
<1>1. PICK j \in Outstanding(a, t) :
        dispatcher' = [dispatcher EXCEPT ![d] =
          IF jobs[j].status \in JobTerminal
          THEN [pc |-> "consume", job |-> j, out |-> None]
          ELSE Returned(NoJob, "PENDING")]
  BY DEF SubmitExisting
<1>. DEFINE s == IF jobs[j].status \in JobTerminal
                 THEN [pc |-> "consume", job |-> j, out |-> None]
                 ELSE Returned(NoJob, "PENDING")
<1>2. j \in DOMAIN jobs /\ j \in Nat
  BY RowNumbers DEF Outstanding, QueueInv, QueueTypeOK
<1>3. s \in DispatcherState
  BY <1>2 DEF DispatcherState, Returned, CallOutcome, NoJob
<1>4. /\ s.pc = "consume" => s.job \in DOMAIN jobs
      /\ s.pc = "returned" => s.job = NoJob
  BY <1>2 DEF Returned
<1>. QED
  BY <1>1, <1>3, <1>4, DispatcherInvariant DEF SubmitExisting

LEMMA ConsumeRefusedInvariant ==
  ASSUME QueueInv, NEW d \in Host, ConsumeRefused(d)
  PROVE  QueueInv'
<1>. DEFINE s == Returned(NoJob, "ERROR")
<1>1. s \in DispatcherState /\ s.pc = "returned" /\ s.job = NoJob
  BY DEF DispatcherState, Returned, CallOutcome, NoJob, JobTerminal
<1>. QED
  BY <1>1, DispatcherInvariant DEF ConsumeRefused

LEMMA EndCallInvariant ==
  ASSUME QueueInv, NEW d \in Host, EndCall(d)
  PROVE  QueueInv'
<1>1. IdleDispatcher \in DispatcherState /\ IdleDispatcher.pc = "idle"
  BY DEF DispatcherState, IdleDispatcher, NoJob
<1>. QED
  BY <1>1, DispatcherInvariant DEF EndCall

-----------------------------------------------------------------------------
(* Steps that leave the table alone and change one worker, which does not   *)
(* come to execute a job.                                                   *)
LEMMA WorkerInvariant ==
  ASSUME QueueInv, NEW w \in Worker, NEW s \in WorkerState,
         worker' = [worker EXCEPT ![w] = s], UNCHANGED <<jobs, dispatcher>>,
         workerFaults' \in [stalls : Nat, crashes : Nat],
         s.pc \in {"executing", "finished"} =>
           s.pc = worker[w].pc /\ s.job = worker[w].job /\ s.attempt = worker[w].attempt
  PROVE  QueueInv'
<1>1. QueueTypeOK'
  BY DEF QueueInv, QueueTypeOK
<1>2. References'
  BY DEF QueueInv, QueueTypeOK, References
<1>3. /\ ConsumedIsTerminal' /\ OneOutstandingJob' /\ SingleDelivery'
  BY DEF QueueInv, ConsumedIsTerminal, OneOutstandingJob, SingleDelivery
<1>4. ClaimFence'
  BY DEF QueueInv, QueueTypeOK, ClaimFence, HoldsClaim
<1>. QED
  BY <1>1, <1>2, <1>3, <1>4 DEF QueueInv

LEMMA DownAndFresh ==
  /\ DownWorker \in WorkerState /\ DownWorker.pc = "down"
  /\ FreshWorker \in WorkerState /\ FreshWorker.pc = "idle"
BY DEF DownWorker, FreshWorker, WorkerState, NoJob

LEMMA WorkerRestartInvariant ==
  ASSUME QueueInv, NEW w \in Worker,
         FinishLost(w) \/ EndRun(w) \/ StartWorker(w) \/ CrashWorker(w)
  PROVE  QueueInv'
<1>1. CASE FinishLost(w)
  BY <1>1, DownAndFresh, WorkerInvariant DEF FinishLost, QueueInv, QueueTypeOK
<1>2. CASE EndRun(w)
  <2>. DEFINE s == IF worker[w].stop THEN DownWorker ELSE FreshWorker
  <2>1. s \in WorkerState /\ s.pc \in {"down", "idle"}
    BY DownAndFresh
  <2>2. worker' = [worker EXCEPT ![w] = s] /\ UNCHANGED <<jobs, dispatcher, workerFaults>>
    BY <1>2 DEF EndRun
  <2>. QED
    BY <2>1, <2>2, WorkerInvariant DEF QueueInv, QueueTypeOK
<1>3. CASE StartWorker(w)
  BY <1>3, DownAndFresh, WorkerInvariant DEF StartWorker, QueueInv, QueueTypeOK
<1>4. CASE CrashWorker(w)
  <2>1. workerFaults' \in [stalls : Nat, crashes : Nat]
    BY <1>4 DEF CrashWorker, QueueInv, QueueTypeOK
  <2>. QED
    BY <1>4, <2>1, DownAndFresh, WorkerInvariant DEF CrashWorker
<1>. QED
  BY <1>1, <1>2, <1>3, <1>4

LEMMA ClaimedRow ==
  ASSUME NEW r \in Job, NEW w \in Worker
  PROVE  /\ Claimed(r, w) \in Job
         /\ Claimed(r, w).app = r.app /\ Claimed(r, w).task = r.task
         /\ Claimed(r, w).owner = w /\ Claimed(r, w).attempt = r.attempt + 1
         /\ Claimed(r, w).consumed = r.consumed
<1>1. r.attempt + 1 \in Nat
  BY DEF Job
<1>. QED
  BY <1>1 DEF Job, Claimed

(* claim() makes w the owner under a fresh attempt number, so the previous  *)
(* owner no longer passes the check of renew_claim and finish.              *)
LEMMA ClaimInvariant ==
  ASSUME QueueInv, NEW w \in Worker, Claim(w)
  PROVE  QueueInv'
<1>1. PICK j \in Claimable(w) :
        /\ jobs' = [jobs EXCEPT ![j] = Claimed(jobs[j], w)]
        /\ worker' = [worker EXCEPT ![w] =
             [pc |-> "executing", job |-> j, attempt |-> jobs[j].attempt + 1,
              beat |-> TRUE, stop |-> FALSE]]
  BY DEF Claim
<1>. DEFINE row == Claimed(jobs[j], w)
            s == [pc |-> "executing", job |-> j, attempt |-> jobs[j].attempt + 1,
                  beat |-> TRUE, stop |-> FALSE]
<1>2. /\ j \in DOMAIN jobs /\ jobs \in Seq(Job) /\ jobs[j] \in Job
      /\ ~jobs[j].consumed
  BY LenProperties, ElementOfSeq DEF Claimable, QueueInv, QueueTypeOK
<1>3. row \in Job
  BY <1>2, ClaimedRow
<1>4. /\ jobs' \in Seq(Job)
      /\ DOMAIN jobs' = DOMAIN jobs
      /\ \A k \in DOMAIN jobs : jobs'[k] = IF k = j THEN row ELSE jobs[k]
  BY <1>1, <1>2, <1>3, RowUpdate
<1>5. /\ row.app = jobs[j].app /\ row.task = jobs[j].task /\ row.owner = w
      /\ row.attempt = jobs[j].attempt + 1 /\ ~row.consumed
  BY <1>2, ClaimedRow
<1>6. s \in WorkerState
  BY <1>2, RowNumbers DEF WorkerState, Job
<1>7. /\ worker' = [worker EXCEPT ![w] = s]
      /\ UNCHANGED <<dispatcher, workerFaults>>
      /\ s.pc = "executing" /\ s.job = j /\ s.attempt = jobs[j].attempt + 1
  BY <1>1 DEF Claim
<1>. HIDE DEF row, s
<1>8. QueueTypeOK'
  BY <1>4, <1>6, <1>7 DEF QueueInv, QueueTypeOK
<1>9. References'
  BY <1>2, <1>4, <1>7 DEF QueueInv, QueueTypeOK, References
<1>10. ConsumedIsTerminal'
  BY <1>4, <1>5 DEF QueueInv, ConsumedIsTerminal
<1>11. OneOutstandingJob'
  BY <1>2, <1>4, <1>5 DEF QueueInv, OneOutstandingJob
<1>12. ClaimFence'
  <2>. SUFFICES ASSUME NEW v \in Worker, worker'[v].pc = "executing",
                       jobs'[worker'[v].job].owner = v,
                       jobs'[worker'[v].job].status = "RUNNING"
                PROVE  worker'[v].attempt = jobs'[worker'[v].job].attempt
    BY DEF ClaimFence, HoldsClaim
  <2>1. worker' \in [Worker -> WorkerState] /\ worker \in [Worker -> WorkerState]
    BY <1>8 DEF QueueInv, QueueTypeOK
  <2>2. CASE v = w
    <3>1. worker'[w] = s
      BY <1>7, <2>1
    <3>. QED
      BY <1>2, <1>4, <1>5, <1>7, <2>2, <3>1
  <2>3. CASE v # w
    <3>1. worker'[v] = worker[v] /\ worker[v].job \in DOMAIN jobs
      BY <1>7, <2>1, <2>3 DEF QueueInv, References
    <3>2. worker[v].job # j
      BY <1>4, <1>5, <2>3, <3>1
    <3>. QED
      BY <1>4, <3>1, <3>2 DEF QueueInv, ClaimFence, HoldsClaim
  <2>. QED
    BY <2>2, <2>3
<1>13. SingleDelivery'
  BY <1>2, <1>4, <1>5, <1>7 DEF QueueInv, SingleDelivery, References
<1>. QED
  BY <1>8, <1>9, <1>10, <1>11, <1>12, <1>13 DEF QueueInv

(* Steps that change the status or the expiry of one unconsumed row and     *)
(* nothing that ClaimFence and OneOutstandingJob depend on.                 *)
LEMMA RowInvariant ==
  ASSUME QueueInv, NEW j \in DOMAIN jobs, NEW row \in Job,
         jobs' = [jobs EXCEPT ![j] = row],
         worker' \in [Worker -> WorkerState],
         \A w \in Worker :
           worker'[w].pc \in {"executing", "finished"} =>
             /\ worker[w].pc \in {"executing", "finished"}
             /\ worker'[w].pc = "executing" => worker[w].pc = "executing"
             /\ worker'[w].job = worker[w].job
             /\ worker'[w].attempt = worker[w].attempt,
         workerFaults' \in [stalls : Nat, crashes : Nat],
         UNCHANGED dispatcher,
         row.app = jobs[j].app, row.task = jobs[j].task, row.owner = jobs[j].owner,
         row.attempt = jobs[j].attempt, row.consumed = jobs[j].consumed,
         row.status = "RUNNING" => jobs[j].status = "RUNNING",
         jobs[j].consumed => row.status = jobs[j].status
  PROVE  QueueInv'
<1>1. /\ jobs' \in Seq(Job)
      /\ DOMAIN jobs' = DOMAIN jobs
      /\ \A k \in DOMAIN jobs : jobs'[k] = IF k = j THEN row ELSE jobs[k]
  BY RowUpdate DEF QueueInv, QueueTypeOK
<1>2. QueueTypeOK'
  BY <1>1 DEF QueueInv, QueueTypeOK
<1>3. References'
  BY <1>1 DEF QueueInv, References
<1>4. ConsumedIsTerminal'
  BY <1>1 DEF QueueInv, ConsumedIsTerminal
<1>5. OneOutstandingJob'
  BY <1>1 DEF QueueInv, OneOutstandingJob
<1>6. ClaimFence'
  <2>. SUFFICES ASSUME NEW w \in Worker, worker'[w].pc = "executing",
                       jobs'[worker'[w].job].owner = w,
                       jobs'[worker'[w].job].status = "RUNNING"
                PROVE  worker'[w].attempt = jobs'[worker'[w].job].attempt
    BY DEF ClaimFence, HoldsClaim
  <2>1. /\ worker[w].pc = "executing" /\ worker[w].job \in DOMAIN jobs
        /\ worker'[w].job = worker[w].job /\ worker'[w].attempt = worker[w].attempt
    BY DEF QueueInv, References
  <2>2. HoldsClaim(w, worker[w].job)
    BY <1>1, <2>1 DEF HoldsClaim
  <2>. QED
    BY <1>1, <2>1, <2>2 DEF QueueInv, ClaimFence
<1>7. SingleDelivery'
  BY <1>1 DEF QueueInv, SingleDelivery, References
<1>. QED
  BY <1>2, <1>3, <1>4, <1>5, <1>6, <1>7 DEF QueueInv

(* A process that holds the claim renews it; one that does not stops.       *)
LEMMA RenewInvariant ==
  ASSUME QueueInv, NEW w \in Worker, Renew(w)
  PROVE  QueueInv'
<1>. DEFINE j == worker[w].job
<1>1. /\ j \in DOMAIN jobs /\ jobs[j] \in Job /\ worker[w] \in WorkerState
  BY LenProperties, ElementOfSeq DEF Renew, QueueInv, References, QueueTypeOK
<1>2. CASE HoldsClaim(w, j)
  <2>. DEFINE row == [jobs[j] EXCEPT !.live = TRUE]
  <2>1. /\ row \in Job
        /\ row.app = jobs[j].app /\ row.task = jobs[j].task /\ row.owner = jobs[j].owner
        /\ row.attempt = jobs[j].attempt /\ row.consumed = jobs[j].consumed
        /\ row.status = jobs[j].status
    BY <1>1 DEF Job
  <2>2. jobs' = [jobs EXCEPT ![j] = row] /\ UNCHANGED <<worker, dispatcher, workerFaults>>
    BY <1>2 DEF Renew
  <2>. HIDE DEF j, row
  <2>. QED
    BY <1>1, <2>1, <2>2, RowInvariant DEF QueueInv, QueueTypeOK
<1>3. CASE ~HoldsClaim(w, j)
  <2>. DEFINE s == [worker[w] EXCEPT !.beat = FALSE, !.stop = TRUE]
  <2>1. /\ s \in WorkerState
        /\ s.pc = worker[w].pc /\ s.job = worker[w].job /\ s.attempt = worker[w].attempt
    BY <1>1 DEF WorkerState
  <2>2. /\ worker' = [worker EXCEPT ![w] = s] /\ UNCHANGED <<jobs, dispatcher, workerFaults>>
    BY <1>3 DEF Renew
  <2>. HIDE DEF s
  <2>. QED
    BY <2>1, <2>2, WorkerInvariant DEF QueueInv, QueueTypeOK
<1>. QED
  BY <1>2, <1>3

(* finish() writes a verdict into a row that is still RUNNING, hence not    *)
(* consumed.                                                                *)
LEMMA FinishInvariant ==
  ASSUME QueueInv, NEW w \in Worker, NEW v \in Verdict, Finish(w, v)
  PROVE  QueueInv'
<1>. DEFINE j == worker[w].job
            row == [jobs[j] EXCEPT !.status = v, !.live = FALSE]
            s == [worker[w] EXCEPT !.pc = "finished"]
<1>1. /\ j \in DOMAIN jobs /\ jobs[j] \in Job /\ worker[w] \in WorkerState
      /\ worker[w].pc = "executing" /\ jobs[j].status = "RUNNING"
  BY LenProperties, ElementOfSeq DEF Finish, QueueInv, References, QueueTypeOK,
     HoldsClaim
<1>2. v \in JobTerminal
  BY WorkQueueAssumption
<1>3. /\ row \in Job
      /\ row.app = jobs[j].app /\ row.task = jobs[j].task /\ row.owner = jobs[j].owner
      /\ row.attempt = jobs[j].attempt /\ row.consumed = jobs[j].consumed
      /\ row.status # "RUNNING"
  BY <1>1, <1>2 DEF Job, JobTerminal
<1>4. ~jobs[j].consumed
  BY <1>1 DEF QueueInv, ConsumedIsTerminal, JobTerminal
<1>5. /\ s \in WorkerState
      /\ s.pc = "finished" /\ s.job = worker[w].job /\ s.attempt = worker[w].attempt
  BY <1>1 DEF WorkerState
<1>6. /\ jobs' = [jobs EXCEPT ![j] = row]
      /\ worker' = [worker EXCEPT ![w] = s]
      /\ UNCHANGED <<dispatcher, workerFaults>>
  BY DEF Finish
<1>. HIDE DEF row, s
<1>7. /\ worker' \in [Worker -> WorkerState]
      /\ \A x \in Worker :
           worker'[x].pc \in {"executing", "finished"} =>
             /\ worker[x].pc \in {"executing", "finished"}
             /\ worker'[x].pc = "executing" => worker[x].pc = "executing"
             /\ worker'[x].job = worker[x].job
             /\ worker'[x].attempt = worker[x].attempt
  BY <1>1, <1>5, <1>6 DEF QueueInv, QueueTypeOK
<1>8. workerFaults' \in [stalls : Nat, crashes : Nat]
  BY <1>6 DEF QueueInv, QueueTypeOK
<1>. HIDE DEF j
<1>. QED
  BY <1>1, <1>3, <1>4, <1>6, <1>7, <1>8, RowInvariant

(* An expired claim stays with its owner until somebody else claims the row.*)
LEMMA ExpireInvariant ==
  ASSUME QueueInv, NEW j \in DOMAIN jobs, ExpireAbandoned(j) \/ ExpireStalled(j)
  PROVE  QueueInv'
<1>. DEFINE row == [jobs[j] EXCEPT !.live = FALSE]
<1>1. jobs[j] \in Job
  BY LenProperties, ElementOfSeq DEF QueueInv, QueueTypeOK
<1>2. /\ row \in Job
      /\ row.app = jobs[j].app /\ row.task = jobs[j].task /\ row.owner = jobs[j].owner
      /\ row.attempt = jobs[j].attempt /\ row.consumed = jobs[j].consumed
      /\ row.status = jobs[j].status
  BY <1>1 DEF Job
<1>3. jobs' = [jobs EXCEPT ![j] = row] /\ UNCHANGED <<worker, dispatcher>>
  BY DEF ExpireAbandoned, ExpireStalled, ClaimRunsOut
<1>4. workerFaults' \in [stalls : Nat, crashes : Nat]
  BY DEF ExpireAbandoned, ExpireStalled, QueueInv, QueueTypeOK
<1>. HIDE DEF row
<1>. QED
  BY <1>2, <1>3, <1>4, RowInvariant DEF QueueInv, QueueTypeOK

-----------------------------------------------------------------------------
(* Every step of the queue preserves the invariant.                         *)
LEMMA QueueStepInvariant == QueueInv /\ [QueueNext]_queueVars => QueueInv'
<1>. SUFFICES ASSUME QueueInv, [QueueNext]_queueVars PROVE QueueInv'
  OBVIOUS
<1>1. ASSUME NEW d \in Host, ExecuteStep(d) PROVE QueueInv'
  BY <1>1, SubmitNewInvariant, SubmitExistingInvariant, ConsumeInvariant,
     ConsumeRefusedInvariant, EndCallInvariant DEF ExecuteStep, Submit
<1>2. ASSUME NEW w \in Worker, WorkerStep(w) \/ Renew(w) \/ CrashWorker(w)
      PROVE  QueueInv'
  BY <1>2, ClaimInvariant, FinishInvariant, WorkerRestartInvariant, RenewInvariant DEF
     WorkerStep
<1>3. ASSUME NEW j \in DOMAIN jobs, ExpireAbandoned(j) \/ ExpireStalled(j) PROVE QueueInv'
  BY <1>3, ExpireInvariant
<1>4. CASE UNCHANGED queueVars
  BY <1>4 DEF queueVars, QueueInv, QueueTypeOK, References, ConsumedIsTerminal,
     OneOutstandingJob, ClaimFence, HoldsClaim, SingleDelivery
<1>. QED
  BY <1>1, <1>2, <1>3, <1>4 DEF QueueNext

(* The table, the workers and the callers keep their shape.                 *)
THEOREM QueueTypeCorrect == QueueSpec => []QueueTypeOK
<1>1. QueueInv => QueueTypeOK
  BY DEF QueueInv
<1>. QED
  BY <1>1, QueueInitInvariant, QueueStepInvariant, PTL DEF QueueSpec

(* However many control-plane hosts submit at the same time, a task never   *)
(* has two unconsumed jobs.                                                 *)
THEOREM OneOutstandingJobHolds == QueueSpec => []OneOutstandingJob
<1>1. QueueInv => OneOutstandingJob
  BY DEF QueueInv
<1>. QED
  BY <1>1, QueueInitInvariant, QueueStepInvariant, PTL DEF QueueSpec

(* However often claims expire and are taken over, a worker that passes the *)
(* check of renew_claim and finish made the latest claim of its row.        *)
THEOREM ClaimFenceHolds == QueueSpec => []ClaimFence
<1>1. QueueInv => ClaimFence
  BY DEF QueueInv
<1>. QED
  BY <1>1, QueueInitInvariant, QueueStepInvariant, PTL DEF QueueSpec

(* A result is delivered to one caller, as it was recorded.                 *)
THEOREM SingleDeliveryHolds == QueueSpec => []SingleDelivery
<1>1. QueueInv => SingleDelivery
  BY DEF QueueInv
<1>. QED
  BY <1>1, QueueInitInvariant, QueueStepInvariant, PTL DEF QueueSpec

-----------------------------------------------------------------------------
(* The queue implements the ledger.                                         *)

Entries == [j \in DOMAIN jobs |-> LedgerEntry(jobs[j])]

(* A step that leaves every row's entry as it was is a stutter.             *)
LEMMA LedgerStutter ==
  ASSUME DOMAIN jobs' = DOMAIN jobs,
         \A k \in DOMAIN jobs :
           /\ jobs'[k].app = jobs[k].app /\ jobs'[k].task = jobs[k].task
           /\ jobs'[k].consumed = jobs[k].consumed
           /\ jobs'[k].status # jobs[k].status =>
                jobs'[k].status \notin JobTerminal /\ jobs[k].status \notin JobTerminal
  PROVE  Entries' = Entries
<1>1. ASSUME NEW k \in DOMAIN jobs PROVE LedgerEntry(jobs'[k]) = LedgerEntry(jobs[k])
  BY DEF LedgerEntry, Phase
<1>. QED
  BY <1>1 DEF Entries

(* submit_or_get posts.                                                     *)
LEMMA SubmitPosts ==
  ASSUME QueueInv, NEW d \in Host, NEW a \in App, NEW t \in Task, SubmitNew(d, a, t)
  PROVE  Ledger!Post(a, t)
<1>. DEFINE n == Len(jobs) + 1
            row == QueuedJob(a, t)
            e == [app |-> a, task |-> t, phase |-> "open", verdict |-> None]
            S == {LedgerEntry(jobs[k]) : k \in DOMAIN jobs} \cup {e}
<1>1. row \in Job
  BY WorkQueueAssumption DEF QueuedJob, Job
<1>2. /\ jobs' = Append(jobs, row) /\ jobs \in Seq(Job) /\ jobs' \in Seq(Job)
      /\ DOMAIN jobs = 1..Len(jobs) /\ Len(jobs) \in Nat
      /\ DOMAIN jobs' = 1..n
      /\ \A k \in DOMAIN jobs : jobs'[k] = jobs[k]
      /\ jobs'[n] = row
  BY <1>1, RowInsert, LenProperties, AppendProperties DEF SubmitNew, QueueInv, QueueTypeOK
<1>3. ASSUME NEW k \in DOMAIN jobs PROVE LedgerEntry(jobs'[k]) = LedgerEntry(jobs[k])
  BY <1>2 DEF LedgerEntry, Phase
<1>4. LedgerEntry(jobs'[n]) = e
  BY <1>2 DEF LedgerEntry, Phase, QueuedJob, JobTerminal
<1>5. Entries \in Seq(S) /\ Len(Entries) = Len(jobs)
  BY <1>2 DEF Entries
<1>6. Entries' \in Seq(S) /\ Len(Entries') = n
  BY <1>2, <1>3, <1>4 DEF Entries
<1>7. /\ Append(Entries, e) \in Seq(S) /\ Len(Append(Entries, e)) = n
      /\ \A k \in 1..Len(jobs) : Append(Entries, e)[k] = Entries[k]
      /\ Append(Entries, e)[n] = e
  BY <1>5, AppendProperties
<1>8. \A k \in 1..n : Entries'[k] = Append(Entries, e)[k]
  BY <1>2, <1>3, <1>4, <1>7 DEF Entries
<1>9. Entries' = Append(Entries, e)
  BY <1>6, <1>7, <1>8, SeqEqual
<1>10. \A j \in DOMAIN Entries :
         Entries[j].app = a /\ Entries[j].task = t => Entries[j].phase = "taken"
  BY DEF Entries, LedgerEntry, Phase, SubmitNew, Outstanding
<1>. QED
  BY <1>9, <1>10 DEF Ledger!Post, Entries

(* finish() settles.                                                        *)
LEMMA FinishSettles ==
  ASSUME QueueInv, NEW w \in Worker, NEW v \in Verdict, Finish(w, v)
  PROVE  Ledger!Settle(worker[w].job, v) /\ worker[w].job \in DOMAIN Entries
<1>. DEFINE j == worker[w].job
            row == [jobs[j] EXCEPT !.status = v, !.live = FALSE]
            e == Ledger!Settled(Entries[j], v)
<1>1. /\ j \in DOMAIN jobs /\ jobs[j] \in Job /\ jobs[j].status = "RUNNING"
      /\ v \in JobTerminal
  BY LenProperties, ElementOfSeq, WorkQueueAssumption DEF Finish, QueueInv, References,
     QueueTypeOK, HoldsClaim
<1>2. ~jobs[j].consumed
  BY <1>1 DEF QueueInv, ConsumedIsTerminal, JobTerminal
<1>3. /\ row \in Job
      /\ row.app = jobs[j].app /\ row.task = jobs[j].task
      /\ row.consumed = jobs[j].consumed /\ row.status = v
  BY <1>1 DEF Job
<1>4. /\ DOMAIN jobs' = DOMAIN jobs
      /\ \A k \in DOMAIN jobs : jobs'[k] = IF k = j THEN row ELSE jobs[k]
  BY <1>1, <1>3, RowUpdate DEF Finish, QueueInv, QueueTypeOK
<1>. HIDE DEF row
<1>5. ASSUME NEW k \in DOMAIN jobs, k # j
      PROVE  LedgerEntry(jobs'[k]) = LedgerEntry(jobs[k])
  BY <1>4, <1>5 DEF LedgerEntry, Phase
<1>6. /\ LedgerEntry(jobs'[j]) = [app |-> jobs[j].app, task |-> jobs[j].task,
                            phase |-> "settled", verdict |-> v]
      /\ LedgerEntry(jobs[j]) = [app |-> jobs[j].app, task |-> jobs[j].task,
                           phase |-> "open", verdict |-> None]
  BY <1>1, <1>2, <1>3, <1>4 DEF LedgerEntry, Phase, JobTerminal
<1>7. Entries[j].phase = "open" /\ LedgerEntry(jobs'[j]) = e
  <2>1. Entries[j] = LedgerEntry(jobs[j])
    BY <1>1 DEF Entries
  <2>. QED
    BY <1>6, <2>1 DEF Ledger!Settled
<1>8. Entries' = [Entries EXCEPT ![j] = e]
  <2>. HIDE DEF e, j
  <2>. QED
    BY <1>1, <1>4, <1>5, <1>7 DEF Entries
<1>. QED
  BY <1>1, <1>7, <1>8 DEF Ledger!Settle, Entries

(* consume() takes.                                                         *)
LEMMA ConsumeTakes ==
  ASSUME QueueInv, NEW d \in Host, Consume(d)
  PROVE  Ledger!Take(dispatcher[d].job) /\ dispatcher[d].job \in DOMAIN Entries
<1>. DEFINE j == dispatcher[d].job
            row == [jobs[j] EXCEPT !.consumed = TRUE]
            e == [Entries[j] EXCEPT !.phase = "taken"]
<1>1. /\ j \in DOMAIN jobs /\ jobs[j] \in Job
      /\ jobs[j].status \in JobTerminal /\ ~jobs[j].consumed
  BY LenProperties, ElementOfSeq DEF Consume, QueueInv, References, QueueTypeOK
<1>2. /\ row \in Job
      /\ row.app = jobs[j].app /\ row.task = jobs[j].task
      /\ row.consumed /\ row.status = jobs[j].status
  BY <1>1 DEF Job
<1>3. /\ DOMAIN jobs' = DOMAIN jobs
      /\ \A k \in DOMAIN jobs : jobs'[k] = IF k = j THEN row ELSE jobs[k]
  BY <1>1, <1>2, RowUpdate DEF Consume, QueueInv, QueueTypeOK
<1>. HIDE DEF row
<1>4. ASSUME NEW k \in DOMAIN jobs, k # j
      PROVE  LedgerEntry(jobs'[k]) = LedgerEntry(jobs[k])
  BY <1>3, <1>4 DEF LedgerEntry, Phase
<1>5. /\ LedgerEntry(jobs'[j]) = [app |-> jobs[j].app, task |-> jobs[j].task,
                            phase |-> "taken", verdict |-> jobs[j].status]
      /\ LedgerEntry(jobs[j]) = [app |-> jobs[j].app, task |-> jobs[j].task,
                           phase |-> "settled", verdict |-> jobs[j].status]
  BY <1>1, <1>2, <1>3 DEF LedgerEntry, Phase
<1>6. Entries[j].phase = "settled" /\ LedgerEntry(jobs'[j]) = e
  BY <1>1, <1>5 DEF Entries
<1>7. Entries' = [Entries EXCEPT ![j] = e]
  BY <1>1, <1>3, <1>4, <1>6 DEF Entries
<1>. QED
  BY <1>1, <1>6, <1>7 DEF Ledger!Take, Entries

(* Every step of the queue is a step of the ledger or a stutter.            *)
LEMMA LedgerStep == QueueInv /\ [QueueNext]_queueVars => [Ledger!Next]_Entries
<1>. SUFFICES ASSUME QueueInv, [QueueNext]_queueVars PROVE Ledger!Next \/ UNCHANGED Entries
  OBVIOUS
<1>1. UNCHANGED jobs => UNCHANGED Entries
  BY DEF Entries
<1>2. ASSUME NEW d \in Host, ExecuteStep(d) PROVE Ledger!Next \/ UNCHANGED Entries
  <2>1. ASSUME NEW a \in App, NEW t \in Task, SubmitNew(d, a, t) PROVE Ledger!Next
    BY <2>1, SubmitPosts DEF Ledger!Next
  <2>2. CASE Consume(d)
    BY <2>2, ConsumeTakes DEF Ledger!Next, Entries
  <2>3. ASSUME NEW a \in App, NEW t \in Task,
               SubmitExisting(d, a, t) \/ ConsumeRefused(d) \/ EndCall(d)
        PROVE  UNCHANGED Entries
    BY <1>1, <2>3 DEF SubmitExisting, ConsumeRefused, EndCall
  <2>4. ConsumeRefused(d) \/ EndCall(d) => UNCHANGED Entries
    BY <1>1 DEF ConsumeRefused, EndCall
  <2>. QED
    BY <1>2, <2>1, <2>2, <2>3, <2>4 DEF ExecuteStep, Submit
<1>3. ASSUME NEW w \in Worker, WorkerStep(w) \/ Renew(w) \/ CrashWorker(w)
      PROVE  Ledger!Next \/ UNCHANGED Entries
  <2>1. CASE Claim(w)
    <3>1. PICK j \in Claimable(w) : jobs' = [jobs EXCEPT ![j] = Claimed(jobs[j], w)]
      BY <2>1 DEF Claim
    <3>2. /\ j \in DOMAIN jobs /\ jobs[j] \in Job
          /\ jobs[j].status \in {"QUEUED", "RUNNING"}
      BY LenProperties, ElementOfSeq DEF Claimable, QueueInv, QueueTypeOK
    <3>3. /\ Claimed(jobs[j], w) \in Job
          /\ Claimed(jobs[j], w).app = jobs[j].app
          /\ Claimed(jobs[j], w).task = jobs[j].task
          /\ Claimed(jobs[j], w).consumed = jobs[j].consumed
      BY <3>2, ClaimedRow
    <3>4. Claimed(jobs[j], w).status = "RUNNING"
      BY <3>2 DEF Claimed, Job
    <3>5. UNCHANGED Entries
      BY <3>1, <3>2, <3>3, <3>4, RowUpdate, LedgerStutter DEF QueueInv, QueueTypeOK,
         JobTerminal
    <3>. QED
      BY <3>5
  <2>2. ASSUME NEW v \in Verdict, Finish(w, v) PROVE Ledger!Next
    <3>1. v \in JobTerminal
      BY WorkQueueAssumption
    <3>. QED
      BY <2>2, <3>1, FinishSettles DEF Ledger!Next, Entries
  <2>3. CASE Renew(w)
    <3>. DEFINE j == worker[w].job
                row == [jobs[j] EXCEPT !.live = TRUE]
    <3>1. j \in DOMAIN jobs /\ jobs[j] \in Job
      BY <2>3, LenProperties, ElementOfSeq DEF Renew, QueueInv, References, QueueTypeOK
    <3>2. /\ row \in Job
          /\ row.app = jobs[j].app /\ row.task = jobs[j].task
          /\ row.consumed = jobs[j].consumed /\ row.status = jobs[j].status
      BY <3>1 DEF Job
    <3>3. jobs' = [jobs EXCEPT ![j] = row] \/ UNCHANGED jobs
      BY <2>3 DEF Renew
    <3>. HIDE DEF j, row
    <3>. QED
      BY <1>1, <3>1, <3>2, <3>3, RowUpdate, LedgerStutter DEF QueueInv, QueueTypeOK
  <2>4. FinishLost(w) \/ EndRun(w) \/ StartWorker(w) \/ CrashWorker(w)
          => UNCHANGED Entries
    BY <1>1 DEF FinishLost, EndRun, StartWorker, CrashWorker
  <2>. QED
    BY <1>3, <2>1, <2>2, <2>3, <2>4 DEF WorkerStep
<1>4. ASSUME NEW j \in DOMAIN jobs, ExpireAbandoned(j) \/ ExpireStalled(j)
      PROVE  UNCHANGED Entries
  <2>. DEFINE row == [jobs[j] EXCEPT !.live = FALSE]
  <2>1. jobs[j] \in Job
    BY LenProperties, ElementOfSeq DEF QueueInv, QueueTypeOK
  <2>2. /\ row \in Job
        /\ row.app = jobs[j].app /\ row.task = jobs[j].task
        /\ row.consumed = jobs[j].consumed /\ row.status = jobs[j].status
    BY <2>1 DEF Job
  <2>3. jobs' = [jobs EXCEPT ![j] = row]
    BY <1>4 DEF ExpireAbandoned, ExpireStalled, ClaimRunsOut
  <2>. HIDE DEF row
  <2>. QED
    BY <2>2, <2>3, RowUpdate, LedgerStutter DEF QueueInv, QueueTypeOK
<1>5. CASE UNCHANGED queueVars
  BY <1>1, <1>5 DEF queueVars
<1>. QED
  BY <1>2, <1>3, <1>4, <1>5 DEF QueueNext

(* The queue implements JobLedger: callers see one outstanding entry per    *)
(* task, one verdict per entry, taken once.                                 *)
THEOREM ImplementsLedgerHolds == QueueSpec => ImplementsLedger
<1>1. QueueInit => Ledger!Init
  <2>. SUFFICES ASSUME QueueInit PROVE Entries = <<>>
    BY DEF Ledger!Init, Entries
  <2>1. jobs = <<>> /\ DOMAIN jobs = {}
    BY EmptySeq DEF QueueInit
  <2>. QED
    BY <2>1 DEF Entries
<1>2. QueueInv /\ [QueueNext]_queueVars
        => [Ledger!Next]_[j \in DOMAIN jobs |-> LedgerEntry(jobs[j])]
  BY LedgerStep DEF Entries
<1>. QED
  BY <1>1, <1>2, QueueInitInvariant, QueueStepInvariant, PTL DEF QueueSpec,
     ImplementsLedger, Ledger!Spec

-----------------------------------------------------------------------------
(* What the control plane can rely on between its own calls.                *)

(* Row q is what became of row r while nobody submitted or consumed.        *)
Successor(r, q) ==
  /\ q.app = r.app /\ q.task = r.task /\ q.consumed = r.consumed
  /\ r.status \in JobTerminal => q.status = r.status
  /\ q.status \in {r.status, "RUNNING"} \cup Verdict

LEMMA OneRowSuccessor ==
  ASSUME jobs \in Seq(Job), NEW j \in DOMAIN jobs, NEW row \in Job,
         jobs' = [jobs EXCEPT ![j] = row], Successor(jobs[j], row)
  PROVE  DOMAIN jobs' = DOMAIN jobs /\ \A k \in DOMAIN jobs : Successor(jobs[k], jobs'[k])
<1>1. /\ DOMAIN jobs' = DOMAIN jobs
      /\ \A k \in DOMAIN jobs : jobs'[k] = IF k = j THEN row ELSE jobs[k]
  BY RowUpdate
<1>. QED
  BY <1>1 DEF Successor

(* Workers, their heartbeats and the clock neither add nor consume jobs and *)
(* leave finished ones alone (work_queue.py:71-132).                        *)
LEMMA WorkersKeepRows ==
  ASSUME QueueInv,
         \/ \E w \in Worker : WorkerStep(w) \/ Renew(w) \/ CrashWorker(w)
         \/ \E j \in DOMAIN jobs : ExpireAbandoned(j) \/ ExpireStalled(j)
  PROVE  /\ UNCHANGED dispatcher /\ DOMAIN jobs' = DOMAIN jobs
         /\ \A k \in DOMAIN jobs : Successor(jobs[k], jobs'[k])
<1>. DEFINE KeepsRows == /\ DOMAIN jobs' = DOMAIN jobs
                         /\ \A k \in DOMAIN jobs : Successor(jobs[k], jobs'[k])
<1>1. jobs \in Seq(Job) /\ \A j \in DOMAIN jobs : jobs[j] \in Job
  BY LenProperties, ElementOfSeq DEF QueueInv, QueueTypeOK
<1>2. UNCHANGED jobs => KeepsRows
  BY DEF Successor
<1>3. ASSUME NEW w \in Worker, Claim(w) PROVE KeepsRows
  <2>1. PICK j \in Claimable(w) : jobs' = [jobs EXCEPT ![j] = Claimed(jobs[j], w)]
    BY <1>3 DEF Claim
  <2>. DEFINE row == Claimed(jobs[j], w)
  <2>2. j \in DOMAIN jobs /\ jobs[j] \in Job /\ jobs[j].status \in {"QUEUED", "RUNNING"}
    BY <1>1 DEF Claimable
  <2>3. /\ row \in Job /\ row.app = jobs[j].app /\ row.task = jobs[j].task
        /\ row.consumed = jobs[j].consumed
    BY <2>2, ClaimedRow
  <2>4. row.status = "RUNNING"
    BY <2>2 DEF Claimed, Job
  <2>. HIDE DEF row
  <2>5. Successor(jobs[j], row)
    BY <2>2, <2>3, <2>4 DEF Successor, JobTerminal
  <2>6. jobs' = [jobs EXCEPT ![j] = row]
    BY <2>1 DEF row
  <2>. QED
    BY <1>1, <2>2, <2>3, <2>5, <2>6, OneRowSuccessor
<1>4. ASSUME NEW w \in Worker, NEW v \in Verdict, Finish(w, v) PROVE KeepsRows
  <2>. DEFINE j == worker[w].job
              row == [jobs[j] EXCEPT !.status = v, !.live = FALSE]
  <2>1. /\ j \in DOMAIN jobs /\ jobs[j] \in Job /\ jobs[j].status = "RUNNING"
        /\ v \in JobTerminal /\ jobs' = [jobs EXCEPT ![j] = row]
    BY <1>1, <1>4, WorkQueueAssumption DEF Finish, QueueInv, References, HoldsClaim
  <2>2. /\ row \in Job /\ row.app = jobs[j].app /\ row.task = jobs[j].task
        /\ row.consumed = jobs[j].consumed /\ row.status = v
    BY <2>1 DEF Job
  <2>. HIDE DEF row, j
  <2>3. Successor(jobs[j], row)
    BY <2>1, <2>2 DEF Successor, JobTerminal
  <2>. QED
    BY <1>1, <2>1, <2>2, <2>3, OneRowSuccessor
<1>5. ASSUME NEW w \in Worker, Renew(w) PROVE KeepsRows
  <2>. DEFINE j == worker[w].job
              row == [jobs[j] EXCEPT !.live = TRUE]
  <2>1. j \in DOMAIN jobs /\ jobs[j] \in Job
    BY <1>1, <1>5 DEF Renew, QueueInv, References
  <2>2. /\ row \in Job /\ row.app = jobs[j].app /\ row.task = jobs[j].task
        /\ row.consumed = jobs[j].consumed /\ row.status = jobs[j].status
    BY <2>1 DEF Job
  <2>3. jobs' = [jobs EXCEPT ![j] = row] \/ UNCHANGED jobs
    BY <1>5 DEF Renew
  <2>. HIDE DEF row, j
  <2>4. Successor(jobs[j], row)
    BY <2>2 DEF Successor
  <2>. QED
    BY <1>1, <1>2, <2>1, <2>2, <2>3, <2>4, OneRowSuccessor
<1>6. ASSUME NEW j \in DOMAIN jobs, ExpireAbandoned(j) \/ ExpireStalled(j) PROVE KeepsRows
  <2>. DEFINE row == [jobs[j] EXCEPT !.live = FALSE]
  <2>1. jobs[j] \in Job /\ jobs' = [jobs EXCEPT ![j] = row]
    BY <1>1, <1>6 DEF ExpireAbandoned, ExpireStalled, ClaimRunsOut
  <2>2. /\ row \in Job /\ row.app = jobs[j].app /\ row.task = jobs[j].task
        /\ row.consumed = jobs[j].consumed /\ row.status = jobs[j].status
    BY <2>1 DEF Job
  <2>. HIDE DEF row
  <2>3. Successor(jobs[j], row)
    BY <2>2 DEF Successor
  <2>. QED
    BY <1>1, <2>1, <2>2, <2>3, OneRowSuccessor
<1>7. ASSUME NEW w \in Worker,
             StartWorker(w) \/ FinishLost(w) \/ EndRun(w) \/ CrashWorker(w)
      PROVE  KeepsRows
  BY <1>2, <1>7 DEF StartWorker, FinishLost, EndRun, CrashWorker
<1>8. UNCHANGED dispatcher
  BY DEF WorkerStep, StartWorker, Claim, Finish, FinishLost, EndRun,
     Renew, CrashWorker, ExpireAbandoned, ExpireStalled, ClaimRunsOut
<1>. HIDE DEF KeepsRows
<1>9. KeepsRows
  BY <1>3, <1>4, <1>5, <1>6, <1>7 DEF WorkerStep
<1>. QED
  BY <1>8, <1>9 DEF KeepsRows

(* A submission returns the job that is to be consumed, or PENDING; a job   *)
(* it has inserted is the newest of its task, and the older ones have been  *)
(* consumed.                                                                *)
Inserted(a, t) ==
  LET n == Len(jobs) + 1 IN
  /\ DOMAIN jobs' = DOMAIN jobs \cup {n}
  /\ \A k \in DOMAIN jobs : jobs'[k] = jobs[k] /\ k < n
  /\ jobs'[n].app = a /\ jobs'[n].task = t
  /\ jobs'[n].status = "QUEUED" /\ ~jobs'[n].consumed
  /\ \A k \in DOMAIN jobs : jobs[k].app = a /\ jobs[k].task = t => jobs[k].consumed

LEMMA SubmitRows ==
  ASSUME QueueInv, NEW d \in Host, NEW a \in App, NEW t \in Task, Submit(d, a, t)
  PROVE  /\ \A e \in Host : e # d => dispatcher'[e] = dispatcher[e]
         /\ dispatcher[d].pc = "idle"
         /\ UNCHANGED jobs \/ Inserted(a, t)
         /\ \/ /\ dispatcher'[d].pc = "consume" /\ UNCHANGED jobs
               /\ dispatcher'[d].job \in DOMAIN jobs
               /\ jobs[dispatcher'[d].job].app = a /\ jobs[dispatcher'[d].job].task = t
            \/ dispatcher'[d].pc = "returned" /\ dispatcher'[d].out = "PENDING"
<1>1. dispatcher \in [Host -> DispatcherState] /\ jobs \in Seq(Job)
  BY DEF QueueInv, QueueTypeOK
<1>2. CASE SubmitNew(d, a, t)
  <2>. DEFINE row == QueuedJob(a, t)
              n == Len(jobs) + 1
  <2>1. row \in Job
    BY WorkQueueAssumption DEF QueuedJob, Job
  <2>2. /\ DOMAIN jobs' = DOMAIN jobs \cup {n} /\ jobs'[n] = row
        /\ \A k \in DOMAIN jobs : jobs'[k] = jobs[k]
    BY <1>1, <1>2, <2>1, RowInsert DEF SubmitNew
  <2>3. /\ row.app = a /\ row.task = t /\ row.status = "QUEUED" /\ ~row.consumed
    BY DEF QueuedJob
  <2>4. \A k \in DOMAIN jobs : k < n
    BY <1>1, LenProperties
  <2>5. Inserted(a, t)
    BY <1>2, <2>2, <2>3, <2>4 DEF Inserted, SubmitNew, Outstanding
  <2>. QED
    BY <1>1, <1>2, <2>5 DEF SubmitNew, Returned
<1>3. CASE SubmitExisting(d, a, t)
  BY <1>1, <1>3 DEF SubmitExisting, Outstanding, Returned
<1>. QED
  BY <1>2, <1>3 DEF Submit

(* Consuming a job returns its result.  Afterwards its task has no other    *)
(* job that is not consumed.                                                *)
LEMMA ConsumeRows ==
  ASSUME QueueInv, NEW d \in Host, Consume(d)
  PROVE  LET j == dispatcher[d].job IN
         /\ \A e \in Host : e # d => dispatcher'[e] = dispatcher[e]
         /\ dispatcher[d].pc = "consume" /\ j \in DOMAIN jobs
         /\ dispatcher'[d].pc = "returned" /\ dispatcher'[d].out = jobs[j].status
         /\ DOMAIN jobs' = DOMAIN jobs
         /\ \A k \in DOMAIN jobs :
              /\ jobs'[k].app = jobs[k].app /\ jobs'[k].task = jobs[k].task
              /\ jobs'[k].status = jobs[k].status
              /\ jobs'[k].consumed = (jobs[k].consumed \/ k = j)
         /\ \A k \in DOMAIN jobs :
              jobs[k].app = jobs[j].app /\ jobs[k].task = jobs[j].task => jobs'[k].consumed
         /\ jobs[j].status \in JobTerminal
<1>. DEFINE j == dispatcher[d].job
            row == [jobs[j] EXCEPT !.consumed = TRUE]
<1>1. /\ dispatcher \in [Host -> DispatcherState] /\ jobs \in Seq(Job)
      /\ j \in DOMAIN jobs /\ jobs[j] \in Job /\ dispatcher[d].pc = "consume"
      /\ jobs[j].status \in JobTerminal /\ ~jobs[j].consumed
  BY LenProperties, ElementOfSeq DEF Consume, QueueInv, References, QueueTypeOK
<1>2. row \in Job /\ row.app = jobs[j].app /\ row.task = jobs[j].task
      /\ row.status = jobs[j].status /\ row.consumed
  BY <1>1 DEF Job
<1>3. /\ jobs' = [jobs EXCEPT ![j] = row]
      /\ dispatcher' = [dispatcher EXCEPT ![d] = Returned(j, jobs[j].status)]
  BY DEF Consume
<1>4. \A e \in Host : e # d => dispatcher'[e] = dispatcher[e]
  BY <1>1, <1>3
<1>5. dispatcher'[d].pc = "returned" /\ dispatcher'[d].out = jobs[j].status
  BY <1>1, <1>3 DEF Returned
<1>. HIDE DEF row
<1>6. /\ DOMAIN jobs' = DOMAIN jobs
      /\ \A k \in DOMAIN jobs : jobs'[k] = IF k = j THEN row ELSE jobs[k]
  BY <1>1, <1>2, <1>3, RowUpdate
<1>7. \A k \in DOMAIN jobs : jobs[k] \in Job
  BY <1>1, ElementOfSeq, LenProperties
<1>8. \A k \in DOMAIN jobs :
         /\ jobs'[k].app = jobs[k].app /\ jobs'[k].task = jobs[k].task
         /\ jobs'[k].status = jobs[k].status
         /\ jobs'[k].consumed = (jobs[k].consumed \/ k = j)
  BY <1>1, <1>2, <1>6, <1>7 DEF Job
<1>9. \A k \in DOMAIN jobs :
         jobs[k].app = jobs[j].app /\ jobs[k].task = jobs[j].task => jobs'[k].consumed
  BY <1>1, <1>2, <1>6 DEF QueueInv, OneOutstandingJob
<1>. QED
  BY <1>1, <1>4, <1>5, <1>6, <1>8, <1>9

(* A refusal and the end of a call leave the table alone.                   *)
LEMMA CallRows ==
  ASSUME QueueInv, NEW d \in Host, ConsumeRefused(d) \/ EndCall(d)
  PROVE  /\ UNCHANGED jobs
         /\ \A e \in Host : e # d => dispatcher'[e] = dispatcher[e]
         /\ ConsumeRefused(d) =>
              /\ dispatcher[d].pc = "consume"
              /\ dispatcher'[d].pc = "returned" /\ dispatcher'[d].out = "ERROR"
         /\ EndCall(d) => dispatcher'[d].pc = "idle"
<1>1. dispatcher \in [Host -> DispatcherState]
  BY DEF QueueInv, QueueTypeOK
<1>2. UNCHANGED jobs /\ \A e \in Host : e # d => dispatcher'[e] = dispatcher[e]
  BY <1>1 DEF ConsumeRefused, EndCall
<1>3. ASSUME ConsumeRefused(d)
      PROVE  /\ dispatcher[d].pc = "consume"
             /\ dispatcher'[d].pc = "returned" /\ dispatcher'[d].out = "ERROR"
  BY <1>1, <1>3 DEF ConsumeRefused, Returned
<1>4. ASSUME EndCall(d) PROVE dispatcher'[d].pc = "idle"
  BY <1>1, <1>4 DEF EndCall, IdleDispatcher
<1>. QED
  BY <1>2, <1>3, <1>4

-----------------------------------------------------------------------------
(* What a host and the queue know of each other.                            *)

(* A worker has done the task, and its result has been taken.               *)
WorkerDone(a, t) == \E j \in JobsOf(a, t, {"DONE"}) : jobs[j].consumed

(* A call of the queue happens inside the adapter, for the task that is     *)
(* being dispatched; what it returned is a result the adapter can give, and *)
(* DONE only if a worker did the task.                                      *)
Called(h) ==
  LET c == host[h].cur
      d == dispatcher[h]
  IN /\ d.pc # "idle" => host[h].pc = "adapter"
     /\ d.pc = "consume" => jobs[d.job].app = c.app /\ jobs[d.job].task = c.task
     /\ d.pc = "returned" =>
          d.out \in Result /\ (d.out = "DONE" => WorkerDone(c.app, c.task))
     /\ host[h].pc = "finish" /\ c.result = "DONE" => WorkerDone(c.app, c.task)

(* Workers report nothing but verdicts.                                     *)
Statuses == \A j \in DOMAIN jobs : jobs[j].status \in {"QUEUED", "RUNNING"} \cup Verdict

Link == Statuses /\ (\A h \in Host : Called(h)) /\ NoPhantomDone

IInv == HostsInv /\ QueueInv /\ Link

(* Jobs stay, and so does what is known of those that have been consumed.   *)
RowsKept ==
  /\ DOMAIN jobs \subseteq DOMAIN jobs'
  /\ \A k \in DOMAIN jobs :
       /\ jobs'[k].app = jobs[k].app /\ jobs'[k].task = jobs[k].task
       /\ jobs[k].consumed => jobs'[k].consumed /\ jobs'[k].status = jobs[k].status

LEMMA SameRows == ASSUME UNCHANGED jobs PROVE RowsKept
BY DEF RowsKept

LEMMA WorkerDoneKept ==
  ASSUME RowsKept, NEW a, NEW t, WorkerDone(a, t)
  PROVE  WorkerDone(a, t)'
<1>1. PICK j \in DOMAIN jobs :
        /\ jobs[j].app = a /\ jobs[j].task = t /\ jobs[j].status = "DONE"
        /\ jobs[j].consumed
  BY DEF WorkerDone, JobsOf
<1>2. /\ j \in DOMAIN jobs' /\ jobs'[j].app = a /\ jobs'[j].task = t
      /\ jobs'[j].status = "DONE" /\ jobs'[j].consumed
  BY <1>1 DEF RowsKept
<1>. QED
  BY <1>2 DEF WorkerDone, JobsOf

LEMMA PhantomsKept ==
  ASSUME NoPhantomDone, RowsKept, UNCHANGED done
  PROVE  NoPhantomDone'
<1>. SUFFICES ASSUME NEW d \in done PROVE WorkerDone(d[1], d[2])'
  BY DEF NoPhantomDone, WorkerDone
<1>1. WorkerDone(d[1], d[2])
  BY DEF NoPhantomDone, WorkerDone
<1>. QED
  BY <1>1, WorkerDoneKept

(* A host to which nothing happens, or only what its dispatch does not see. *)
LEMMA CalledKept ==
  ASSUME RowsKept, NEW h \in Host, Called(h), QueueInv,
         UNCHANGED dispatcher[h],
         host[h].pc = "adapter" => host'[h].pc = "adapter",
         host'[h].pc \in {"adapter", "finish"} =>
           host'[h].pc = host[h].pc /\ host'[h].cur = host[h].cur
  PROVE  Called(h)'
<1>. DEFINE c == host[h].cur
            d == dispatcher[h]
<1>1. d.pc = "consume" => d.job \in DOMAIN jobs
  BY DEF QueueInv, References
<1>2. WorkerDone(c.app, c.task) => \E a, t : a = c.app /\ t = c.task /\ WorkerDone(a, t)'
  BY WorkerDoneKept
<1>3. CASE host'[h].pc = "adapter"
  <2>1. /\ host'[h].cur = c /\ dispatcher'[h] = d /\ host[h].pc = "adapter"
    BY <1>3
  <2>2. d.pc = "consume" => jobs'[d.job].app = c.app /\ jobs'[d.job].task = c.task
    BY <1>1 DEF Called, RowsKept
  <2>3. d.pc = "returned" => d.out \in Result
    BY DEF Called
  <2>4. d.pc = "returned" /\ d.out = "DONE"
          => \E a, t : a = c.app /\ t = c.task /\ WorkerDone(a, t)'
    BY <1>2 DEF Called
  <2>. QED
    BY <1>3, <2>1, <2>2, <2>3, <2>4 DEF Called, WorkerDone, JobsOf
<1>4. CASE host'[h].pc = "finish"
  <2>1. host'[h].cur = c /\ dispatcher'[h] = d /\ host[h].pc = "finish"
    BY <1>4
  <2>2. d.pc = "idle"
    BY <2>1 DEF Called
  <2>3. c.result = "DONE" => \E a, t : a = c.app /\ t = c.task /\ WorkerDone(a, t)'
    BY <1>2, <2>1 DEF Called
  <2>. QED
    BY <1>4, <2>1, <2>2, <2>3 DEF Called, WorkerDone, JobsOf
<1>5. CASE host'[h].pc \notin {"adapter", "finish"}
  <2>1. d.pc = "idle" /\ dispatcher'[h] = d
    BY <1>5 DEF Called
  <2>. QED
    BY <1>5, <2>1 DEF Called
<1>. QED
  BY <1>3, <1>4, <1>5

LEMMA HostStepLink ==
  ASSUME IInv, NEW h \in Host, StepHost(h)
  PROVE  Link'
<1>1. HostStep(h) /\ UNCHANGED <<jobs, dispatcher>>
  BY DEF StepHost, queueVars
<1>2. /\ \A g \in Host : g # h => host'[g] = host[g]
      /\ host[h].pc # "adapter" /\ host'[h].pc # "finish"
      /\ host'[h].pc = "adapter" => host[h].pc = "start"
      /\ \/ UNCHANGED done
         \/ /\ host[h].pc = "finish" /\ host[h].cur.result = "DONE"
            /\ done' = done \cup {<<host[h].cur.app, host[h].cur.task>>}
  BY <1>1, HostMoves DEF IInv
<1>3. RowsKept
  BY <1>1, SameRows
<1>4. ASSUME NEW g \in Host, g # h PROVE Called(g)'
  BY <1>1, <1>2, <1>3, <1>4, CalledKept DEF IInv, Link
<1>5. Called(h)'
  <2>1. dispatcher[h].pc = "idle"
    BY <1>2 DEF IInv, Link, Called
  <2>. QED
    BY <1>1, <1>2, <2>1 DEF Called
<1>6. NoPhantomDone'
  <2>1. CASE UNCHANGED done
    BY <1>3, <2>1, PhantomsKept DEF IInv, Link
  <2>2. CASE /\ host[h].pc = "finish" /\ host[h].cur.result = "DONE"
             /\ done' = done \cup {<<host[h].cur.app, host[h].cur.task>>}
    <3>1. \A d \in done' : WorkerDone(d[1], d[2])
      BY <2>2 DEF IInv, Link, Called, NoPhantomDone, WorkerDone
    <3>. QED
      BY <1>1, <3>1 DEF NoPhantomDone, WorkerDone, JobsOf
  <2>. QED
    BY <1>2, <2>1, <2>2
<1>7. Statuses'
  BY <1>1 DEF IInv, Link, Statuses
<1>. QED
  BY <1>4, <1>5, <1>6, <1>7 DEF Link

LEMMA EnvironmentLink ==
  ASSUME IInv, Surroundings
  PROVE  Link'
<1>1. Environment /\ UNCHANGED <<jobs, dispatcher>>
  BY DEF Surroundings, queueVars
<1>2. ASSUME NEW g \in Host
      PROVE  /\ UNCHANGED done
             /\ host[g].pc = "adapter" => host'[g].pc = "adapter"
             /\ host'[g].pc \in {"adapter", "finish"} =>
                  host'[g].pc = host[g].pc /\ host'[g].cur = host[g].cur
  BY <1>1, EnvironmentMoves DEF IInv
<1>3. RowsKept
  BY <1>1, SameRows
<1>4. ASSUME NEW g \in Host PROVE Called(g)'
  BY <1>1, <1>2, <1>3, CalledKept DEF IInv, Link
<1>5. UNCHANGED done
  BY <1>1 DEF Environment, Heartbeat, Stop, StopRaises, LeaseExpires,
     LeaseStalls, RetryDue
<1>6. NoPhantomDone' /\ Statuses'
  BY <1>1, <1>3, <1>5, PhantomsKept DEF IInv, Link, Statuses
<1>. QED
  BY <1>4, <1>6 DEF Link

(* The queue's call is over: the host takes what it returned, or is told to *)
(* stop, or is killed.                                                      *)
LEMMA CallOver ==
  ASSUME IInv, NEW h \in Host,
         (IF dispatcher[h].pc = "idle" THEN UNCHANGED queueVars ELSE EndCall(h))
  PROVE  /\ UNCHANGED <<jobs, worker, workerFaults>> /\ dispatcher'[h].pc = "idle"
         /\ \A g \in Host : g # h => dispatcher'[g] = dispatcher[g]
         /\ UNCHANGED dispatcher \/ EndCall(h)
<1>1. CASE dispatcher[h].pc = "idle"
  BY <1>1 DEF queueVars
<1>2. CASE dispatcher[h].pc # "idle"
  <2>1. EndCall(h)
    BY <1>2
  <2>2. UNCHANGED <<worker, workerFaults>>
    BY <2>1 DEF EndCall
  <2>. QED
    BY <2>1, <2>2, CallRows DEF IInv
<1>. QED
  BY <1>1, <1>2

LEMMA AnswerLink ==
  ASSUME IInv, NEW h \in Host, Unverified(h) \/ Answer(h) \/ StopInQueue(h)
  PROVE  Link'
<1>1. UNCHANGED jobs /\ dispatcher'[h].pc = "idle"
      /\ \A g \in Host : g # h => dispatcher'[g] = dispatcher[g]
  BY CallOver DEF Unverified, Answer, StopInQueue
<1>2. PICK r : /\ AdapterReturns(h, r) \/ (StopRaisesInAdapter(h) /\ r = "ERROR")
               /\ r = "DONE" => dispatcher[h].pc = "returned" /\ dispatcher[h].out = "DONE"
  <2>1. CASE Unverified(h)
    BY <2>1 DEF Unverified
  <2>2. CASE Answer(h)
    BY <2>2 DEF Answer
  <2>3. CASE StopInQueue(h)
    BY <2>3 DEF StopInQueue
  <2>. QED
    BY <2>1, <2>2, <2>3
<1>3. /\ \A g \in Host : g # h => host'[g] = host[g]
      /\ host'[h].pc = "finish" /\ host'[h].cur.result = r
      /\ host'[h].cur.app = host[h].cur.app /\ host'[h].cur.task = host[h].cur.task
      /\ UNCHANGED done
  BY <1>2, AnswerMoves DEF IInv
<1>4. RowsKept
  BY <1>1, SameRows
<1>5. ASSUME NEW g \in Host, g # h PROVE Called(g)'
  BY <1>1, <1>3, <1>4, <1>5, CalledKept DEF IInv, Link
<1>6. r = "DONE" => WorkerDone(host[h].cur.app, host[h].cur.task)
  BY <1>2 DEF IInv, Link, Called
<1>7. Called(h)'
  BY <1>1, <1>3, <1>6 DEF Called, WorkerDone, JobsOf
<1>8. NoPhantomDone' /\ Statuses'
  BY <1>1, <1>3, <1>4, PhantomsKept DEF IInv, Link, Statuses
<1>. QED
  BY <1>5, <1>7, <1>8 DEF Link

LEMMA CrashLink ==
  ASSUME IInv, NEW h \in Host, CrashHost(h)
  PROVE  Link'
<1>1. UNCHANGED jobs /\ dispatcher'[h].pc = "idle"
      /\ \A g \in Host : g # h => dispatcher'[g] = dispatcher[g]
  BY CallOver DEF CrashHost
<1>2. Crash(h) /\ host \in [Host -> HostState] /\ Off.pc = "off"
  BY DEF CrashHost, IInv, HostsInv, HostsTypeOK, Off
<1>3. /\ \A g \in Host : g # h => host'[g] = host[g]
      /\ host'[h].pc = "off" /\ UNCHANGED done
  BY <1>2 DEF Crash
<1>4. RowsKept
  BY <1>1, SameRows
<1>5. ASSUME NEW g \in Host, g # h PROVE Called(g)'
  BY <1>1, <1>3, <1>4, <1>5, CalledKept DEF IInv, Link
<1>6. Called(h)'
  BY <1>1, <1>3 DEF Called
<1>7. NoPhantomDone' /\ Statuses'
  BY <1>1, <1>3, <1>4, PhantomsKept DEF IInv, Link, Statuses
<1>. QED
  BY <1>5, <1>6, <1>7 DEF Link

LEMMA CallLink ==
  ASSUME IInv, NEW h \in Host, CallQueue(h)
  PROVE  Link'
<1>1. /\ host[h].pc = "adapter" /\ UNCHANGED <<host, done>>
      /\ host[h].cur.app \in App /\ host[h].cur.task \in Task
  BY DEF CallQueue, InAdapter, hostVars, IInv, HostsInv, HostOK, Dispatching, Dispatch
<1>. DEFINE c == host[h].cur
            d == dispatcher[h]
<1>2. ASSUME RowsKept, Statuses', \A g \in Host : g # h => dispatcher'[g] = dispatcher[g],
             Called(h)'
      PROVE  Link'
  <2>1. ASSUME NEW g \in Host, g # h PROVE Called(g)'
    BY <1>1, <1>2, <2>1, CalledKept DEF IInv, Link
  <2>. QED
    BY <1>1, <1>2, <2>1, PhantomsKept DEF IInv, Link
<1>3. CASE Submit(h, c.app, c.task)
  <2>1. Submit(h, c.app, c.task)
    BY <1>3
  <2>2. /\ \A e \in Host : e # h => dispatcher'[e] = dispatcher[e]
        /\ UNCHANGED jobs \/ Inserted(c.app, c.task)
        /\ \/ /\ dispatcher'[h].pc = "consume" /\ UNCHANGED jobs
              /\ dispatcher'[h].job \in DOMAIN jobs
              /\ jobs[dispatcher'[h].job].app = c.app
              /\ jobs[dispatcher'[h].job].task = c.task
           \/ dispatcher'[h].pc = "returned" /\ dispatcher'[h].out = "PENDING"
    BY <1>1, <2>1, SubmitRows DEF IInv
  <2>3. RowsKept /\ Statuses'
    BY <2>2 DEF Inserted, RowsKept, IInv, Link, Statuses
  <2>4. Called(h)'
    BY <1>1, <2>2, FactoryCloudAssumption DEF Called
  <2>. QED
    BY <1>2, <2>2, <2>3, <2>4
<1>4. CASE Consume(h)
  <2>1. Consume(h)
    BY <1>4
  <2>2. /\ \A e \in Host : e # h => dispatcher'[e] = dispatcher[e]
        /\ d.pc = "consume" /\ d.job \in DOMAIN jobs
        /\ dispatcher'[h].pc = "returned" /\ dispatcher'[h].out = jobs[d.job].status
        /\ DOMAIN jobs' = DOMAIN jobs
        /\ \A k \in DOMAIN jobs :
             /\ jobs'[k].app = jobs[k].app /\ jobs'[k].task = jobs[k].task
             /\ jobs'[k].status = jobs[k].status
             /\ jobs'[k].consumed = (jobs[k].consumed \/ k = d.job)
        /\ jobs[d.job].status \in JobTerminal
    BY <2>1, ConsumeRows DEF IInv
  <2>3. RowsKept /\ Statuses'
    BY <2>2 DEF RowsKept, IInv, Link, Statuses
  <2>4. jobs[d.job].app = c.app /\ jobs[d.job].task = c.task /\ jobs[d.job].status \in Verdict
    BY <2>2 DEF IInv, Link, Called, Statuses, JobTerminal
  <2>5. dispatcher'[h].out = "DONE" => WorkerDone(c.app, c.task)'
    <3>1. d.job \in DOMAIN jobs' /\ jobs'[d.job].app = c.app /\ jobs'[d.job].task = c.task
          /\ jobs'[d.job].consumed /\ jobs'[d.job].status = dispatcher'[h].out
      BY <2>2, <2>4
    <3>. HIDE DEF d
    <3>. QED
      BY <1>1, <3>1 DEF WorkerDone, JobsOf
  <2>6. Called(h)'
    BY <1>1, <2>2, <2>4, <2>5, FactoryCloudAssumption DEF Called
  <2>. QED
    BY <1>2, <2>2, <2>3, <2>6
<1>5. CASE ConsumeRefused(h)
  <2>1. ConsumeRefused(h)
    BY <1>5
  <2>2. /\ UNCHANGED jobs /\ \A e \in Host : e # h => dispatcher'[e] = dispatcher[e]
        /\ dispatcher'[h].pc = "returned" /\ dispatcher'[h].out = "ERROR"
    BY <2>1, CallRows DEF IInv
  <2>3. RowsKept /\ Statuses'
    BY <2>2, SameRows DEF IInv, Link, Statuses
  <2>4. Called(h)'
    BY <1>1, <2>2, FactoryCloudAssumption DEF Called
  <2>. QED
    BY <1>2, <2>2, <2>3, <2>4
<1>. QED
  BY <1>3, <1>4, <1>5 DEF CallQueue

(* Workers and the clock.                                                   *)
LEMMA WorkersKeep ==
  ASSUME IInv,
         \/ \E w \in Worker : StepWorker(w) \/ WorkerFault(w)
         \/ \E j \in DOMAIN jobs : ClaimExpires(j)
  PROVE  /\ UNCHANGED <<dispatcher, lease, app, history, done, host, faults>>
         /\ DOMAIN jobs' = DOMAIN jobs
         /\ \A k \in DOMAIN jobs : Successor(jobs[k], jobs'[k])
<1>1. /\ UNCHANGED hostVars
      /\ \/ \E w \in Worker : WorkerStep(w) \/ Renew(w) \/ CrashWorker(w)
         \/ \E j \in DOMAIN jobs : ExpireAbandoned(j) \/ ExpireStalled(j)
  BY DEF StepWorker, WorkerFault, ClaimExpires
<1>2. /\ UNCHANGED dispatcher /\ DOMAIN jobs' = DOMAIN jobs
      /\ \A k \in DOMAIN jobs : Successor(jobs[k], jobs'[k])
  BY <1>1, WorkersKeepRows DEF IInv
<1>. QED
  BY <1>1, <1>2 DEF hostVars

LEMMA WorkersLink ==
  ASSUME IInv,
         \/ \E w \in Worker : StepWorker(w) \/ WorkerFault(w)
         \/ \E j \in DOMAIN jobs : ClaimExpires(j)
  PROVE  Link'
<1>1. /\ UNCHANGED <<dispatcher, done, host>> /\ DOMAIN jobs' = DOMAIN jobs
      /\ \A k \in DOMAIN jobs : Successor(jobs[k], jobs'[k])
  BY WorkersKeep
<1>2. \A k \in DOMAIN jobs : jobs[k].consumed => jobs[k].status \in JobTerminal
  BY DEF IInv, QueueInv, ConsumedIsTerminal
<1>3. RowsKept /\ Statuses'
  BY <1>1, <1>2 DEF RowsKept, Successor, IInv, Link, Statuses
<1>4. ASSUME NEW g \in Host PROVE Called(g)'
  BY <1>1, <1>3, CalledKept DEF IInv, Link
<1>. QED
  BY <1>1, <1>3, <1>4, PhantomsKept DEF IInv, Link

LEMMA StepLink == ASSUME IInv, [Next]_vars PROVE Link'
<1>1. CASE UNCHANGED vars
  BY <1>1 DEF vars, IInv, Link, Statuses, Called, NoPhantomDone, WorkerDone, JobsOf
<1>. QED
  BY <1>1, HostStepLink, EnvironmentLink, AnswerLink, CrashLink, CallLink, WorkersLink DEF
     Next

-----------------------------------------------------------------------------
(* Each half behaves as its own module says.                                *)

LEMMA HostsKeepTheirNext ==
  ASSUME IInv, [Next]_vars
  PROVE  [HostsNext]_hostVars
<1>1. CASE UNCHANGED vars
  BY <1>1 DEF vars, hostVars
<1>2. ASSUME NEW h \in Host, StepHost(h) PROVE HostsNext
  BY <1>2 DEF StepHost, HostsNext
<1>3. ASSUME NEW h \in Host, CrashHost(h) PROVE HostsNext
  BY <1>3 DEF CrashHost, HostsNext
<1>4. ASSUME NEW h \in Host, StopInQueue(h) PROVE HostsNext
  BY <1>4 DEF StopInQueue, HostsNext
<1>5. ASSUME NEW h \in Host, Unverified(h) \/ Answer(h) PROVE HostsNext
  <2>1. dispatcher[h].pc = "returned" => dispatcher[h].out \in Result
    BY DEF IInv, Link, Called
  <2>2. PICK r \in Result : AdapterReturns(h, r)
    BY <1>5, <2>1, FactoryCloudAssumption DEF Unverified, Answer
  <2>3. AdapterReturns(h, r)
    BY <2>2
  <2>. QED
    BY <2>2, <2>3 DEF HostsNext
<1>6. CASE Surroundings
  BY <1>6 DEF Surroundings, HostsNext
<1>7. ASSUME NEW h \in Host, CallQueue(h) PROVE UNCHANGED hostVars
  BY <1>7 DEF CallQueue
<1>8. ASSUME \/ \E w \in Worker : StepWorker(w) \/ WorkerFault(w)
             \/ \E j \in DOMAIN jobs : ClaimExpires(j)
      PROVE  UNCHANGED hostVars
  BY <1>8 DEF StepWorker, WorkerFault, ClaimExpires
<1>. QED
  BY <1>1, <1>2, <1>3, <1>4, <1>5, <1>6, <1>7, <1>8 DEF Next

LEMMA QueueKeepsItsNext ==
  ASSUME IInv, [Next]_vars
  PROVE  [QueueNext]_queueVars
<1>1. CASE UNCHANGED vars
  BY <1>1 DEF vars, queueVars
<1>2. ASSUME NEW h \in Host, StepHost(h) \/ Unverified(h) PROVE UNCHANGED queueVars
  BY <1>2 DEF StepHost, Unverified
<1>3. ASSUME NEW h \in Host, CrashHost(h) \/ StopInQueue(h) \/ Answer(h)
      PROVE  UNCHANGED queueVars \/ (QueueNext)
  <2>1. UNCHANGED queueVars \/ EndCall(h)
    BY <1>3 DEF CrashHost, StopInQueue, Answer
  <2>. QED
    BY <2>1 DEF QueueNext, ExecuteStep
<1>4. ASSUME NEW h \in Host, CallQueue(h) PROVE QueueNext
  <2>1. host[h].cur.app \in App /\ host[h].cur.task \in Task
    BY <1>4 DEF CallQueue, InAdapter, IInv, HostsInv, HostOK, Dispatching, Dispatch
  <2>2. CASE Submit(h, host[h].cur.app, host[h].cur.task)
    BY <2>1, <2>2 DEF QueueNext, ExecuteStep
  <2>3. CASE Consume(h) \/ ConsumeRefused(h)
    BY <2>3 DEF QueueNext, ExecuteStep
  <2>. QED
    BY <1>4, <2>2, <2>3 DEF CallQueue
<1>5. ASSUME NEW w \in Worker, StepWorker(w) \/ WorkerFault(w) PROVE QueueNext
  BY <1>5 DEF StepWorker, WorkerFault, QueueNext
<1>6. ASSUME NEW j \in DOMAIN jobs, ClaimExpires(j) PROVE QueueNext
  BY <1>6 DEF ClaimExpires, QueueNext
<1>7. CASE Surroundings
  BY <1>7 DEF Surroundings
<1>. QED
  BY <1>1, <1>2, <1>3, <1>4, <1>5, <1>6, <1>7 DEF Next

LEMMA InitInvariant == Init => IInv
<1>. SUFFICES ASSUME Init PROVE IInv
  OBVIOUS
<1>1. HostsInv /\ QueueInv
  BY HostsInitInvariant, QueueInitInvariant DEF Init
<1>2. /\ \A h \in Host : host[h].pc = "off" /\ dispatcher[h].pc = "idle"
      /\ done = {} /\ jobs = <<>>
  BY DEF Init, HostsInit, Off, QueueInit, IdleDispatcher
<1>3. Link
  BY <1>2 DEF Link, Statuses, Called, NoPhantomDone
<1>. QED
  BY <1>1, <1>3 DEF IInv

LEMMA StepInvariant == IInv /\ [Next]_vars => IInv'
<1>. SUFFICES ASSUME IInv, [Next]_vars PROVE IInv'
  OBVIOUS
<1>1. [HostsNext]_hostVars
  BY HostsKeepTheirNext DEF hostVars
<1>2. HostsInv'
  BY <1>1, HostsStepInvariant DEF IInv
<1>3. [QueueNext]_queueVars
  BY QueueKeepsItsNext DEF queueVars
<1>4. QueueInv'
  BY <1>3, QueueStepInvariant DEF IInv
<1>. QED
  BY <1>2, <1>4, StepLink DEF IInv

THEOREM InvariantHolds == Spec => []IInv
BY InitInvariant, StepInvariant, PTL DEF Spec

(* Whatever the workers do, the hosts of the composition do nothing that    *)
(* the control plane's own module does not describe, so that what holds of  *)
(* it holds here: the adapter gives no other answers (worker.py:60-75,      *)
(* work_queue.py:161-181).                                                  *)
THEOREM ControlPlaneHolds == Spec => HostsSpec
<1>1. IInv /\ [Next]_vars => [HostsNext]_hostVars
  BY HostsKeepTheirNext DEF hostVars
<1>2. Init => HostsInit
  BY DEF Init
<1>. QED
  BY <1>1, <1>2, InvariantHolds, PTL DEF Spec, HostsSpec

(* And the queue sees no other callers than its own module describes: every *)
(* call is submit_or_get or consume of a task of the batons, and one host   *)
(* makes one call at a time (work_queue.py:50-69, 134-181).                 *)
THEOREM WorkQueueHolds == Spec => QueueSpec
<1>1. IInv /\ [Next]_vars => [QueueNext]_queueVars
  BY QueueKeepsItsNext DEF queueVars
<1>2. Init => QueueInit
  BY DEF Init
<1>. QED
  BY <1>1, <1>2, InvariantHolds, PTL DEF Spec, QueueSpec

(* What the control plane records as done is the verdict of a job that a    *)
(* worker finished and the control plane consumed, whatever hosts and       *)
(* workers crash, stall, are stopped and repeat (orchestrator.py:227-277,   *)
(* work_queue.py:134-181).                                                  *)
THEOREM NoPhantomDoneHolds == Spec => []NoPhantomDone
<1>1. IInv => NoPhantomDone
  BY DEF IInv, Link
<1>. QED
  BY <1>1, InvariantHolds, PTL

-----------------------------------------------------------------------------
(* While nobody is stopped and no lease stalls: one host at a time.         *)

Undisturbed == HostsUndisturbed

(* A host has the result of a finished task in hand: in its adapter, or on  *)
(* its way into the baton.                                                  *)
Finished(h) ==
  \/ dispatcher[h].pc = "returned" /\ dispatcher[h].out = "DONE"
  \/ host[h].pc \in {"finish", "readback", "checkpoint"} /\ host[h].cur.result = "DONE"

(* Of such a task no job is left that has not been consumed.                *)
Taken ==
  \A h \in Host : Finished(h) =>
    \A j \in DOMAIN jobs :
      jobs[j].app = host[h].cur.app /\ jobs[j].task = host[h].cur.task => jobs[j].consumed

Alone == Exclusive /\ ActiveTask /\ Fenced

Steady == Alone /\ Taken /\ NoStrandedJob

Calm == Undisturbed => Steady

LEMMA UndisturbedSoFar ==
  ASSUME IInv, [Next]_vars, Undisturbed'
  PROVE  /\ Undisturbed
         /\ \A h \in Host : ~StopInQueue(h) /\ ~StopRaises(h)
<1>1. [HostsNext]_hostVars
  BY HostsKeepTheirNext
<1>2. CASE UNCHANGED hostVars
  <2>1. Undisturbed
    BY <1>2 DEF hostVars, Undisturbed, HostsUndisturbed
  <2>2. ASSUME NEW h \in Host PROVE ~StopInQueue(h) /\ ~StopRaises(h)
    <3>1. faults \in Faults /\ \A n \in Nat : n + 1 # n
      BY DEF IInv, HostsInv, HostsTypeOK, Faults
    <3>2. ~StopRaises(h) /\ ~StopRaisesInAdapter(h)
      BY <1>2, <3>1 DEF hostVars, StopRaises, StopRaisesInAdapter, Faults
    <3>. QED
      BY <3>2 DEF StopInQueue
  <2>. QED
    BY <2>1, <2>2
<1>3. CASE HostsNext
  <2>1. HostsUndisturbed
        /\ \A h \in Host : ~StopRaises(h) /\ ~StopRaisesInAdapter(h)
    BY <1>3, UndisturbedBefore DEF IInv, Undisturbed
  <2>. QED
    BY <2>1 DEF Undisturbed, StopInQueue
<1>. QED
  BY <1>1, <1>2, <1>3

LEMMA AloneStep ==
  ASSUME IInv, Alone, [Next]_vars, Undisturbed'
  PROVE  Alone'
<1>1. [HostsNext]_hostVars
  BY HostsKeepTheirNext
<1>2. CASE UNCHANGED hostVars
  BY <1>2 DEF hostVars, Alone, Exclusive, InCycle, ActiveTask, Fenced
<1>3. CASE HostsNext
  BY <1>3, ExclusiveStep, ActiveTaskStep, FencedStep DEF IInv, Alone, Undisturbed
<1>. QED
  BY <1>1, <1>2, <1>3

(* Whoever has a finished task in hand, or is in its adapter, is alone.     *)
LEMMA AloneAtWork ==
  ASSUME IInv, Alone, NEW h \in Host, host[h].pc \in {"adapter", "checkpoint"} \/ Finished(h),
         NEW g \in Host, g # h
  PROVE  ~Finished(g) /\ dispatcher[g].pc = "idle" /\ host[g].pc # "adapter"
<1>1. /\ dispatcher[g].pc # "idle" => host[g].pc = "adapter"
      /\ dispatcher[h].pc # "idle" => host[h].pc = "adapter"
  BY DEF IInv, Link, Called
<1>2. InCycle(h)
  BY <1>1 DEF Finished, InCycle
<1>3. ~InCycle(g)
  BY <1>2 DEF Alone, Exclusive
<1>. QED
  BY <1>1, <1>3 DEF InCycle, Finished

(* A step after which a host has no more in hand than before, and which     *)
(* leaves the table alone.                                                  *)
LEMMA TakenKept ==
  ASSUME Taken, DOMAIN jobs' = DOMAIN jobs,
         \A k \in DOMAIN jobs :
           /\ jobs'[k].app = jobs[k].app /\ jobs'[k].task = jobs[k].task
           /\ jobs[k].consumed => jobs'[k].consumed,
         \A g \in Host : Finished(g)' =>
           /\ Finished(g)
           /\ host'[g].cur.app = host[g].cur.app /\ host'[g].cur.task = host[g].cur.task
  PROVE  Taken'
BY DEF Taken

(* Steps other than a host's calls of the queue add and consume no job, and *)
(* put no finished task into anybody's hands.                               *)
LEMMA OtherRows ==
  ASSUME IInv, [Next]_vars, \A h \in Host : ~CallQueue(h)
  PROVE  /\ DOMAIN jobs' = DOMAIN jobs
         /\ \A k \in DOMAIN jobs : Successor(jobs[k], jobs'[k])
<1>1. UNCHANGED jobs => /\ DOMAIN jobs' = DOMAIN jobs
                        /\ \A k \in DOMAIN jobs : Successor(jobs[k], jobs'[k])
  BY DEF Successor
<1>2. ASSUME NEW h \in Host,
             StepHost(h) \/ CrashHost(h) \/ StopInQueue(h) \/ Unverified(h) \/ Answer(h)
      PROVE  UNCHANGED jobs
  BY <1>2, CallOver DEF StepHost, CrashHost, StopInQueue, Unverified, Answer, queueVars
<1>3. CASE Surroundings \/ UNCHANGED vars
  BY <1>1, <1>3 DEF Surroundings, queueVars, vars
<1>. QED
  BY <1>1, <1>2, <1>3, WorkersKeep DEF Next

LEMMA OtherHands ==
  ASSUME IInv, [Next]_vars, Undisturbed', \A h \in Host : ~CallQueue(h),
         NEW g \in Host, Finished(g)'
  PROVE  /\ Finished(g)
         /\ host'[g].cur.app = host[g].cur.app /\ host'[g].cur.task = host[g].cur.task
<1>. DEFINE Same == /\ Finished(g)
                    /\ host'[g].cur.app = host[g].cur.app
                    /\ host'[g].cur.task = host[g].cur.task
<1>1. CASE UNCHANGED <<host, dispatcher>>
  BY <1>1 DEF Finished
<1>2. ASSUME NEW h \in Host, StepHost(h) PROVE Same
  <2>1. HostStep(h) /\ UNCHANGED dispatcher
    BY <1>2 DEF StepHost, queueVars
  <2>2. /\ \A e \in Host : e # h => host'[e] = host[e]
        /\ host[h].pc # "adapter" /\ host'[h].pc # "finish"
        /\ host'[h].pc \in {"readback", "checkpoint"} =>
             host[h].pc = IF host'[h].pc = "readback" THEN "finish" ELSE "readback"
        /\ host'[h].pc \in {"readback", "checkpoint"} =>
             /\ host'[h].cur.app = host[h].cur.app
             /\ host'[h].cur.task = host[h].cur.task
             /\ host'[h].cur.result = host[h].cur.result
    BY <2>1, HostMoves DEF IInv
  <2>3. dispatcher[h].pc = "idle"
    BY <2>2 DEF IInv, Link, Called
  <2>4. CASE g = h
    BY <2>1, <2>2, <2>3, <2>4 DEF Finished
  <2>5. CASE g # h
    BY <2>1, <2>2, <2>5 DEF Finished
  <2>. QED
    BY <2>4, <2>5
<1>3. CASE Surroundings
  <2>1. Environment /\ UNCHANGED dispatcher
    BY <1>3 DEF Surroundings, queueVars
  <2>2. host'[g].pc = host[g].pc /\ host'[g].cur = host[g].cur
    BY <2>1, UndisturbedSoFar, EnvironmentMoves DEF IInv
  <2>. QED
    BY <2>1, <2>2 DEF Finished
<1>4. ASSUME NEW h \in Host, Unverified(h) \/ Answer(h) PROVE Same
  <2>1. dispatcher'[h].pc = "idle" /\ \A e \in Host : e # h => dispatcher'[e] = dispatcher[e]
    BY <1>4, CallOver DEF Unverified, Answer
  <2>2. PICK r : /\ AdapterReturns(h, r)
                 /\ r = "DONE" => dispatcher[h].pc = "returned" /\ dispatcher[h].out = "DONE"
    BY <1>4 DEF Unverified, Answer
  <2>3. /\ \A e \in Host : e # h => host'[e] = host[e]
        /\ host'[h].pc = "finish" /\ host'[h].cur.result = r
        /\ host'[h].cur.app = host[h].cur.app /\ host'[h].cur.task = host[h].cur.task
    BY <2>2, AnswerMoves DEF IInv
  <2>4. CASE g = h
    BY <2>1, <2>2, <2>3, <2>4 DEF Finished
  <2>5. CASE g # h
    BY <2>1, <2>3, <2>5 DEF Finished
  <2>. QED
    BY <2>4, <2>5
<1>5. ASSUME NEW h \in Host, CrashHost(h) PROVE Same
  <2>1. dispatcher'[h].pc = "idle" /\ \A e \in Host : e # h => dispatcher'[e] = dispatcher[e]
    BY <1>5, CallOver DEF CrashHost
  <2>2. Crash(h) /\ host \in [Host -> HostState] /\ Off.pc = "off"
    BY <1>5 DEF CrashHost, IInv, HostsInv, HostsTypeOK, Off
  <2>3. (\A e \in Host : e # h => host'[e] = host[e]) /\ host'[h].pc = "off"
    BY <2>2 DEF Crash
  <2>4. g # h
    BY <2>1, <2>3 DEF Finished
  <2>. QED
    BY <2>1, <2>3, <2>4 DEF Finished
<1>6. UNCHANGED vars => UNCHANGED <<host, dispatcher>>
  BY DEF vars
<1>. HIDE DEF Same
<1>7. CASE Next
  BY <1>1, <1>2, <1>3, <1>4, <1>5, <1>7, UndisturbedSoFar, WorkersKeep DEF Next, Same
<1>. QED
  BY <1>1, <1>6, <1>7 DEF Same

LEMMA CallTaken ==
  ASSUME IInv, Alone, Taken, NEW h \in Host, CallQueue(h)
  PROVE  Taken'
<1>1. /\ host[h].pc = "adapter" /\ UNCHANGED host
      /\ host[h].cur.app \in App /\ host[h].cur.task \in Task
  BY DEF CallQueue, InAdapter, hostVars, IInv, HostsInv, HostOK, Dispatching, Dispatch
<1>. DEFINE c == host[h].cur
            d == dispatcher[h]
<1>2. ASSUME \A g \in Host : g # h => dispatcher'[g] = dispatcher[g],
             Finished(h)' => \A j \in DOMAIN jobs' :
               jobs'[j].app = c.app /\ jobs'[j].task = c.task => jobs'[j].consumed
      PROVE  Taken'
  <2>1. ASSUME NEW g \in Host, g # h PROVE ~Finished(g)'
    BY <1>1, <1>2, <2>1, AloneAtWork DEF Finished
  <2>. QED
    BY <1>1, <1>2, <2>1 DEF Taken
<1>3. CASE Submit(h, c.app, c.task)
  <2>1. /\ \A e \in Host : e # h => dispatcher'[e] = dispatcher[e]
        /\ \/ dispatcher'[h].pc = "consume"
           \/ dispatcher'[h].pc = "returned" /\ dispatcher'[h].out = "PENDING"
    BY <1>1, <1>3, SubmitRows DEF IInv
  <2>2. ~Finished(h)'
    BY <1>1, <2>1 DEF Finished
  <2>. QED
    BY <1>2, <2>1, <2>2
<1>4. CASE Consume(h)
  <2>1. /\ \A e \in Host : e # h => dispatcher'[e] = dispatcher[e]
        /\ d.pc = "consume" /\ DOMAIN jobs' = DOMAIN jobs
        /\ \A k \in DOMAIN jobs :
             jobs'[k].app = jobs[k].app /\ jobs'[k].task = jobs[k].task
        /\ \A k \in DOMAIN jobs :
             jobs[k].app = jobs[d.job].app /\ jobs[k].task = jobs[d.job].task
               => jobs'[k].consumed
    BY <1>4, ConsumeRows DEF IInv
  <2>2. jobs[d.job].app = c.app /\ jobs[d.job].task = c.task
    BY <2>1 DEF IInv, Link, Called
  <2>. QED
    BY <1>2, <2>1, <2>2
<1>5. CASE ConsumeRefused(h)
  <2>1. /\ \A e \in Host : e # h => dispatcher'[e] = dispatcher[e]
        /\ dispatcher'[h].pc = "returned" /\ dispatcher'[h].out = "ERROR"
    BY <1>5, CallRows DEF IInv
  <2>2. ~Finished(h)'
    BY <1>1, <2>1 DEF Finished
  <2>. QED
    BY <1>2, <2>1, <2>2
<1>. QED
  BY <1>3, <1>4, <1>5 DEF CallQueue

LEMMA TakenStep ==
  ASSUME IInv, Alone, Taken, [Next]_vars, Undisturbed'
  PROVE  Taken'
<1>1. ASSUME NEW h \in Host, CallQueue(h) PROVE Taken'
  BY <1>1, CallTaken
<1>2. CASE \A h \in Host : ~CallQueue(h)
  <2>1. /\ DOMAIN jobs' = DOMAIN jobs
        /\ \A k \in DOMAIN jobs :
             /\ jobs'[k].app = jobs[k].app /\ jobs'[k].task = jobs[k].task
             /\ jobs[k].consumed => jobs'[k].consumed
    BY <1>2, OtherRows DEF Successor
  <2>. QED
    BY <1>2, <2>1, OtherHands, TakenKept
<1>. QED
  BY <1>1, <1>2

(* A host's checkpoint of a finished task drops it from the work, which     *)
(* nothing else changes.                                                    *)
Drops(h, a) ==
  /\ StepHost(h) /\ host[h].pc = "checkpoint" /\ host[h].cur.result = "DONE"
  /\ host[h].cur.app = a

LEMMA WorkOfStep ==
  ASSUME IInv, Alone, [Next]_vars, NEW a \in App
  PROVE  LET w == Work(app[a])
             v == Work(app'[a])
         IN /\ \A h \in Host : Drops(h, a) =>
                 w # <<>> /\ Head(w) = host[h].cur.task /\ v = Tail(w)
            /\ (\A h \in Host : ~Drops(h, a)) => v = w
<1>. DEFINE w == Work(app[a])
            v == Work(app'[a])
<1>1. ASSUME NEW h \in Host, StepHost(h)
      PROVE  v = IF host[h].pc = "checkpoint" /\ host[h].cur.result = "DONE"
                    /\ host[h].cur.app = a
                 THEN Tail(w) ELSE w
  <2>1. HostStep(h)
    BY <1>1 DEF StepHost
  <2>. QED
    BY <2>1, HostWork DEF IInv, Alone
<1>2. ASSUME NEW h \in Host, Drops(h, a)
      PROVE  w # <<>> /\ Head(w) = host[h].cur.task /\ v = Tail(w)
  <2>1. w # <<>> /\ Head(w) = host[h].cur.task
    BY <1>2, FirstOfWork DEF Drops, IInv, Alone, Dispatching
  <2>. QED
    BY <1>1, <1>2, <2>1 DEF Drops
<1>3. ASSUME \A h \in Host : ~Drops(h, a) PROVE v = w
  <2>1. ASSUME NEW h \in Host, StepHost(h) PROVE v = w
    BY <1>1, <1>3, <2>1 DEF Drops
  <2>2. CASE Surroundings
    BY <2>2, EnvironmentWork DEF Surroundings, IInv
  <2>3. ASSUME NEW h \in Host,
               CrashHost(h) \/ StopInQueue(h) \/ Unverified(h) \/ Answer(h) \/ CallQueue(h)
        PROVE  v = w
    <3>1. UNCHANGED app
      BY <2>3 DEF CrashHost, Crash, StopInQueue, StopRaisesInAdapter, Unverified,
         Answer, AdapterReturns, CallQueue, hostVars
    <3>. QED
      BY <3>1
  <2>4. UNCHANGED app => v = w
    OBVIOUS
  <2>5. UNCHANGED vars => UNCHANGED app
    BY DEF vars
  <2>. HIDE DEF v, w
  <2>. QED
    BY <2>1, <2>2, <2>3, <2>4, <2>5, WorkersKeep DEF Next
<1>. QED
  BY <1>2, <1>3

(* What is left to do never grows, and what goes is a task that a host has  *)
(* finished.                                                                *)
LEMMA RemainingOfStep ==
  ASSUME IInv, Alone, [Next]_vars, NEW a \in App
  PROVE  /\ Remaining(app'[a]) \subseteq Remaining(app[a])
         /\ \A t \in Remaining(app[a]) :
              \/ t \in Remaining(app'[a])
              \/ \E h \in Host : Finished(h) /\ host[h].cur.app = a /\ host[h].cur.task = t
         /\ NoRepeats(Work(app[a])) =>
              /\ NoRepeats(Work(app'[a]))
              /\ \A h \in Host :
                   Drops(h, a) => host[h].cur.task \notin Remaining(app'[a])
<1>. DEFINE w == Work(app[a])
            v == Work(app'[a])
<1>1. IInv'
  BY StepInvariant
<1>2. app[a] \in AppState /\ app'[a] \in AppState
  BY <1>1 DEF IInv, HostsInv, HostsTypeOK
<1>3. /\ w \in Seq(Task) /\ Remaining(app[a]) = TasksIn(w)
      /\ v \in Seq(Task) /\ Remaining(app'[a]) = TasksIn(v)
  BY <1>2, RemainingIsWork
<1>4. /\ \A h \in Host : Drops(h, a) =>
           w # <<>> /\ Head(w) = host[h].cur.task /\ v = Tail(w)
      /\ (\A h \in Host : ~Drops(h, a)) => v = w
  BY WorkOfStep
<1>. HIDE DEF v, w
<1>5. CASE \A h \in Host : ~Drops(h, a)
  BY <1>3, <1>4, <1>5 DEF v, w
<1>6. ASSUME NEW h \in Host, Drops(h, a)
      PROVE  /\ TasksIn(v) \subseteq TasksIn(w)
             /\ NoRepeats(w) =>
                  NoRepeats(v) /\ host[h].cur.task \notin TasksIn(v)
             /\ \A t \in TasksIn(w) : t \in TasksIn(v) \/ host[h].cur.task = t
  <2>1. w \in Seq(Task) /\ w # <<>> /\ Head(w) = host[h].cur.task /\ v = Tail(w)
    BY <1>3, <1>4, <1>6
  <2>. QED
    BY <2>1, TailDrops, TailKeeps
<1>7. \A h \in Host : Drops(h, a) => Finished(h) /\ host[h].cur.app = a
  BY DEF Drops, Finished
<1>8. CASE \E h \in Host : Drops(h, a)
  BY <1>3, <1>6, <1>7, <1>8 DEF v, w
<1>. QED
  BY <1>5, <1>8

LEMMA NoStrandedStep ==
  ASSUME IInv, Alone, Taken, NoStrandedJob, [Next]_vars, Undisturbed'
  PROVE  NoStrandedJob'
<1>. DEFINE Left(a) == Remaining(app[a])
            LeftNow(a) == Remaining(app'[a])
<1>1. IInv'
  BY StepInvariant
<1>2. \A j \in DOMAIN jobs : jobs[j].app \in App
  <2>1. jobs \in Seq(Job)
    BY DEF IInv, QueueInv, QueueTypeOK
  <2>2. \A j \in DOMAIN jobs : jobs[j] \in Job
    BY <2>1, LenProperties, ElementOfSeq
  <2>. QED
    BY <2>2 DEF Job
<1>3. \A j \in DOMAIN jobs : ~jobs[j].consumed => jobs[j].task \in Left(jobs[j].app)
  BY DEF NoStrandedJob
<1>4. ASSUME NEW a \in App, NEW t \in Left(a)
      PROVE  \/ t \in LeftNow(a)
             \/ \E h \in Host : Finished(h) /\ host[h].cur.app = a /\ host[h].cur.task = t
  BY <1>4, RemainingOfStep
<1>. HIDE DEF Left, LeftNow
<1>5. \A j \in DOMAIN jobs : ~jobs[j].consumed => jobs[j].task \in LeftNow(jobs[j].app)
  BY <1>2, <1>3, <1>4 DEF Taken
<1>6. SUFFICES \A j \in DOMAIN jobs' :
                 ~jobs'[j].consumed => jobs'[j].task \in LeftNow(jobs'[j].app)
  BY DEF NoStrandedJob, LeftNow
<1>7. CASE \A h \in Host : ~CallQueue(h)
  BY <1>5, <1>7, OtherRows DEF Successor
<1>8. ASSUME NEW h \in Host, CallQueue(h)
      PROVE  \A j \in DOMAIN jobs' :
               ~jobs'[j].consumed => jobs'[j].task \in LeftNow(jobs'[j].app)
  <2>. DEFINE c == host[h].cur
  <2>1. /\ host[h].pc = "adapter" /\ UNCHANGED <<host, app>>
    BY <1>8 DEF CallQueue, InAdapter, hostVars
  <2>2. c.app \in App /\ c.task \in Task /\ c.task \in Left(c.app)
    BY <2>1, FirstOfWork DEF IInv, Alone, Dispatching, Left
  <2>3. c.task \in LeftNow(c.app)
    BY <2>1, <2>2 DEF Left, LeftNow
  <2>. HIDE DEF c
  <2>4. CASE Submit(h, c.app, c.task)
    <3>1. UNCHANGED jobs \/ Inserted(c.app, c.task)
      BY <2>2, <2>4, SubmitRows DEF IInv
    <3>. QED
      BY <1>5, <2>3, <3>1 DEF Inserted
  <2>5. CASE Consume(h)
    <3>1. /\ DOMAIN jobs' = DOMAIN jobs
          /\ \A k \in DOMAIN jobs :
               /\ jobs'[k].app = jobs[k].app /\ jobs'[k].task = jobs[k].task
               /\ jobs'[k].consumed = (jobs[k].consumed \/ k = dispatcher[h].job)
      BY <2>5, ConsumeRows DEF IInv
    <3>. QED
      BY <1>5, <3>1
  <2>6. CASE ConsumeRefused(h)
    <3>1. UNCHANGED jobs
      BY <2>6, CallRows DEF IInv
    <3>. QED
      BY <1>5, <3>1
  <2>. QED
    BY <1>8, <2>4, <2>5, <2>6 DEF CallQueue, c
<1>. QED
  BY <1>7, <1>8

LEMMA InitCalm == Init => Calm
<1>. SUFFICES ASSUME Init PROVE Steady
  BY DEF Calm
<1>1. /\ \A h \in Host : host[h].pc = "off" /\ ~host[h].beat /\ dispatcher[h].pc = "idle"
      /\ jobs = <<>> /\ lease.owner = None /\ \A a \in App : app[a].cur = None
  BY DEF Init, HostsInit, Off, QueueInit, IdleDispatcher
<1>2. None \notin Host
  BY ControlPlaneAssumption
<1>3. Alone
  BY <1>1, <1>2 DEF Alone, Exclusive, InCycle, ActiveTask, Fenced, Dispatching
<1>4. Taken /\ NoStrandedJob
  BY <1>1 DEF Taken, NoStrandedJob
<1>. QED
  BY <1>3, <1>4 DEF Steady

LEMMA CalmHolds == Spec => []Calm
<1>1. IInv /\ Calm /\ [Next]_vars => Calm'
  <2>. SUFFICES ASSUME IInv, Calm, [Next]_vars, Undisturbed' PROVE Steady'
    BY DEF Calm
  <2>1. Steady
    BY UndisturbedSoFar DEF Calm
  <2>. QED
    BY <2>1, AloneStep, TakenStep, NoStrandedStep DEF Steady
<1>. QED
  BY <1>1, InitCalm, InvariantHolds, PTL DEF Spec

(* Until a host is told to stop or its lease stalls, no job outlives its    *)
(* task, although hosts and workers are killed at any point and workers     *)
(* lose their claims: what is queued, running or unread will be asked for   *)
(* (orchestrator.py:227-277, work_queue.py:161-181).                        *)
THEOREM NoStrandedJobHolds == Spec => [](Undisturbed => NoStrandedJob)
<1>1. Calm => (Undisturbed => NoStrandedJob)
  BY DEF Calm, Steady
<1>. QED
  BY <1>1, CalmHolds, PTL

-----------------------------------------------------------------------------
(* No task is dispatched twice, as long as nothing happens to the hosts.    *)

(* Of the jobs of a task all but the last have been consumed.               *)
Newest ==
  \A i, j \in DOMAIN jobs :
    i < j /\ jobs[i].app = jobs[j].app /\ jobs[i].task = jobs[j].task => jobs[i].consumed

(* A task whose answer was consumed is off its baton, or some host has the  *)
(* answer in hand.                                                          *)
Dropped ==
  \A i \in DOMAIN jobs : jobs[i].consumed /\ jobs[i].status = "DONE" =>
    \/ jobs[i].task \notin Remaining(app[jobs[i].app])
    \/ \E h \in Host :
         Finished(h) /\ host[h].cur.app = jobs[i].app /\ host[h].cur.task = jobs[i].task

Untouched == Undisturbed /\ faults.crashes = 0

Distinct == \A a \in App : NoRepeats(Work(app[a]))

Once == Untouched => Distinct /\ Dropped /\ NoDuplicateDispatch

LEMMA NewestStep ==
  ASSUME IInv, Newest, [Next]_vars
  PROVE  Newest'
<1>1. CASE \A h \in Host : ~CallQueue(h)
  BY <1>1, OtherRows DEF Newest, Successor
<1>2. ASSUME NEW h \in Host, CallQueue(h) PROVE Newest'
  <2>. DEFINE c == host[h].cur
  <2>1. c.app \in App /\ c.task \in Task
    BY <1>2 DEF CallQueue, InAdapter, IInv, HostsInv, HostOK, Dispatching, Dispatch
  <2>. HIDE DEF c
  <2>2. CASE Submit(h, c.app, c.task)
    <3>1. UNCHANGED jobs \/ Inserted(c.app, c.task)
      BY <2>1, <2>2, SubmitRows DEF IInv
    <3>2. CASE UNCHANGED jobs
      BY <3>2 DEF Newest
    <3>3. CASE Inserted(c.app, c.task)
      <4>. DEFINE n == Len(jobs) + 1
      <4>1. /\ DOMAIN jobs' = DOMAIN jobs \cup {n}
            /\ \A k \in DOMAIN jobs : jobs'[k] = jobs[k] /\ k < n
            /\ jobs'[n].app = c.app /\ jobs'[n].task = c.task
            /\ \A k \in DOMAIN jobs :
                 jobs[k].app = c.app /\ jobs[k].task = c.task => jobs[k].consumed
        BY <3>3 DEF Inserted
      <4>2. n \in Nat /\ DOMAIN jobs \subseteq Nat
        BY LenProperties DEF IInv, QueueInv, QueueTypeOK
      <4>. HIDE DEF n
      <4>3. ASSUME NEW i \in DOMAIN jobs', NEW j \in DOMAIN jobs', i < j,
                   jobs'[i].app = jobs'[j].app, jobs'[i].task = jobs'[j].task
            PROVE  jobs'[i].consumed
        <5>1. i \in DOMAIN jobs
          BY <4>1, <4>2, <4>3
        <5>. QED
          BY <4>1, <4>3, <5>1 DEF Newest
      <4>. QED
        BY <4>3 DEF Newest
    <3>. QED
      BY <3>1, <3>2, <3>3
  <2>3. CASE Consume(h)
    <3>1. /\ DOMAIN jobs' = DOMAIN jobs
          /\ \A k \in DOMAIN jobs :
               /\ jobs'[k].app = jobs[k].app /\ jobs'[k].task = jobs[k].task
               /\ jobs'[k].consumed = (jobs[k].consumed \/ k = dispatcher[h].job)
      BY <2>3, ConsumeRows DEF IInv
    <3>. QED
      BY <3>1 DEF Newest
  <2>4. CASE ConsumeRefused(h)
    <3>1. UNCHANGED jobs
      BY <2>4, CallRows DEF IInv
    <3>. QED
      BY <3>1 DEF Newest
  <2>. QED
    BY <1>2, <2>2, <2>3, <2>4 DEF CallQueue, c
<1>. QED
  BY <1>1, <1>2

LEMMA UntouchedSoFar ==
  ASSUME IInv, [Next]_vars, Untouched'
  PROVE  Untouched /\ \A h \in Host : ~CrashHost(h) /\ ~StopInQueue(h) /\ ~StopRaises(h)
<1>1. Undisturbed /\ \A h \in Host : ~StopInQueue(h) /\ ~StopRaises(h)
  BY UndisturbedSoFar DEF Untouched
<1>2. [HostsNext]_hostVars
  BY HostsKeepTheirNext DEF hostVars
<1>3. faults.crashes = 0 /\ \A h \in Host : ~Crash(h)
  BY <1>2, CrashesBefore DEF IInv, Untouched
<1>. QED
  BY <1>1, <1>3 DEF Untouched, CrashHost

(* A finished task stays in hand until its checkpoint.                      *)
LEMMA HandsHold ==
  ASSUME IInv, Alone, [Next]_vars, Untouched', NEW g \in Host, Finished(g)
  PROVE  \/ Drops(g, host[g].cur.app)
         \/ /\ Finished(g)'
            /\ host'[g].cur.app = host[g].cur.app /\ host'[g].cur.task = host[g].cur.task
<1>. DEFINE Same == /\ Finished(g)'
                    /\ host'[g].cur.app = host[g].cur.app
                    /\ host'[g].cur.task = host[g].cur.task
<1>1. CASE UNCHANGED <<host, dispatcher>>
  BY <1>1 DEF Finished
<1>2. ASSUME NEW h \in Host, StepHost(h) PROVE Same \/ Drops(g, host[g].cur.app)
  <2>1. HostStep(h) /\ UNCHANGED dispatcher
    BY <1>2 DEF StepHost, queueVars
  <2>2. /\ \A e \in Host : e # h => host'[e] = host[e]
        /\ host[h].pc # "adapter"
        /\ host[h].pc = "finish" /\ history[host[h].cur.exec] = "EXECUTING"
             => host'[h].pc = "readback"
        /\ host[h].pc = "readback" => host'[h].pc = "checkpoint"
        /\ host'[h].pc \in {"readback", "checkpoint"} =>
             /\ host'[h].cur.app = host[h].cur.app
             /\ host'[h].cur.task = host[h].cur.task
             /\ host'[h].cur.result = host[h].cur.result
    BY <2>1, HostMoves DEF IInv
  <2>3. dispatcher[h].pc = "idle"
    BY <2>2 DEF IInv, Link, Called
  <2>4. CASE g = h
    BY <1>2, <2>1, <2>2, <2>3, <2>4 DEF Finished, Drops, Alone, Fenced
  <2>5. CASE g # h
    BY <2>1, <2>2, <2>5 DEF Finished
  <2>. QED
    BY <2>4, <2>5
<1>3. CASE Surroundings
  <2>1. Environment /\ UNCHANGED dispatcher
    BY <1>3 DEF Surroundings, queueVars
  <2>2. host'[g].pc = host[g].pc /\ host'[g].cur = host[g].cur
    BY <2>1, UntouchedSoFar, EnvironmentMoves DEF IInv
  <2>. QED
    BY <2>1, <2>2 DEF Finished
<1>4. ASSUME NEW h \in Host, Unverified(h) \/ Answer(h) PROVE Same
  <2>1. dispatcher'[h].pc = "idle" /\ \A e \in Host : e # h => dispatcher'[e] = dispatcher[e]
    BY <1>4, CallOver DEF Unverified, Answer
  <2>2. PICK r : /\ AdapterReturns(h, r)
                 /\ dispatcher[h].pc = "returned" => r = dispatcher[h].out
    BY <1>4 DEF Unverified, Answer
  <2>3. /\ \A e \in Host : e # h => host'[e] = host[e]
        /\ host[h].pc = "adapter" /\ host'[h].pc = "finish" /\ host'[h].cur.result = r
        /\ host'[h].cur.app = host[h].cur.app /\ host'[h].cur.task = host[h].cur.task
    BY <2>2, AnswerMoves DEF IInv
  <2>4. CASE g = h
    BY <2>1, <2>2, <2>3, <2>4 DEF Finished
  <2>5. CASE g # h
    BY <2>1, <2>3, <2>5 DEF Finished
  <2>. QED
    BY <2>4, <2>5
<1>5. ASSUME NEW h \in Host, CallQueue(h) PROVE Same
  <2>1. UNCHANGED host /\ host[h].pc = "adapter"
        /\ host[h].cur.app \in App /\ host[h].cur.task \in Task
    BY <1>5 DEF CallQueue, InAdapter, hostVars, IInv, HostsInv, HostOK, Dispatching,
       Dispatch
  <2>2. /\ \A e \in Host : e # h => dispatcher'[e] = dispatcher[e]
        /\ dispatcher[h].pc # "returned"
    BY <1>5, <2>1, SubmitRows, ConsumeRows, CallRows DEF CallQueue, IInv
  <2>. QED
    BY <2>1, <2>2 DEF Finished
<1>6. UNCHANGED vars => UNCHANGED <<host, dispatcher>>
  BY DEF vars
<1>. HIDE DEF Same
<1>7. CASE Next
  BY <1>1, <1>2, <1>3, <1>4, <1>5, <1>7, UntouchedSoFar, WorkersKeep DEF Next, Same
<1>. QED
  BY <1>1, <1>6, <1>7 DEF Same

(* So a task that was off its baton, or in hand, still is.                  *)
LEMMA DroppedStays ==
  ASSUME IInv, Alone, Distinct, Dropped, [Next]_vars, Untouched',
         NEW i \in DOMAIN jobs, jobs[i].consumed, jobs[i].status = "DONE"
  PROVE  \/ jobs[i].task \notin Remaining(app'[jobs[i].app])
         \/ \E h \in Host : /\ Finished(h)' /\ host'[h].cur.app = jobs[i].app
                            /\ host'[h].cur.task = jobs[i].task
<1>1. jobs[i].app \in App
  <2>1. jobs \in Seq(Job)
    BY DEF IInv, QueueInv, QueueTypeOK
  <2>2. jobs[i] \in Job
    BY <2>1, LenProperties, ElementOfSeq
  <2>. QED
    BY <2>2 DEF Job
<1>2. CASE jobs[i].task \notin Remaining(app[jobs[i].app])
  BY <1>1, <1>2, RemainingOfStep
<1>3. ASSUME NEW h \in Host, Finished(h),
             host[h].cur.app = jobs[i].app, host[h].cur.task = jobs[i].task
      PROVE  \/ jobs[i].task \notin Remaining(app'[jobs[i].app])
             \/ /\ Finished(h)' /\ host'[h].cur.app = jobs[i].app
                /\ host'[h].cur.task = jobs[i].task
  BY <1>1, <1>3, HandsHold, RemainingOfStep DEF Distinct
<1>. QED
  BY <1>2, <1>3 DEF Dropped

(* A host that is about to submit a task finds no finished job of it.       *)
LEMMA NothingFinished ==
  ASSUME IInv, Alone, Dropped, NEW h \in Host, host[h].pc = "adapter",
         dispatcher[h].pc = "idle", NEW i \in DOMAIN jobs, jobs[i].consumed,
         jobs[i].app = host[h].cur.app, jobs[i].task = host[h].cur.task
  PROVE  jobs[i].status # "DONE"
<1>1. host[h].cur.task \in Remaining(app[host[h].cur.app])
  BY FirstOfWork DEF IInv, Alone, Dispatching
<1>2. \A g \in Host : ~Finished(g)
  BY AloneAtWork DEF Finished
<1>. QED
  BY <1>1, <1>2 DEF Dropped

LEMMA OnceStep ==
  ASSUME IInv, Alone, Newest, Distinct, Dropped, NoDuplicateDispatch, [Next]_vars, Untouched'
  PROVE  Distinct' /\ Dropped' /\ NoDuplicateDispatch'
<1>. DEFINE Row(i) == \/ jobs'[i].task \notin Remaining(app'[jobs'[i].app])
                      \/ \E g \in Host : /\ Finished(g)' /\ host'[g].cur.app = jobs'[i].app
                                         /\ host'[g].cur.task = jobs'[i].task
<1>1. Distinct'
  BY RemainingOfStep DEF Distinct
<1>2. ASSUME NEW i \in DOMAIN jobs, jobs[i].consumed, jobs[i].status = "DONE",
             jobs'[i].app = jobs[i].app, jobs'[i].task = jobs[i].task
      PROVE  Row(i)
  BY <1>2, DroppedStays
<1>3. DOMAIN jobs \subseteq Nat
  BY LenProperties DEF IInv, QueueInv, QueueTypeOK
<1>4. \A i, j \in DOMAIN jobs :
        jobs[i].status = "DONE" /\ jobs[i].app = jobs[j].app /\ jobs[i].task = jobs[j].task
          /\ jobs[i].app \in App /\ jobs[i].task \in Task
          => j <= i
  BY DEF NoDuplicateDispatch, JobsOf
<1>5. \A i \in DOMAIN jobs : jobs[i].app \in App /\ jobs[i].task \in Task
  <2>1. jobs \in Seq(Job)
    BY DEF IInv, QueueInv, QueueTypeOK
  <2>2. \A i \in DOMAIN jobs : jobs[i] \in Job
    BY <2>1, LenProperties, ElementOfSeq
  <2>. QED
    BY <2>2 DEF Job
<1>. DEFINE Last == \A i, j \in DOMAIN jobs' :
              jobs'[i].status = "DONE" /\ jobs'[i].app = jobs'[j].app
                /\ jobs'[i].task = jobs'[j].task
                => j <= i
<1>6. ASSUME \A i \in DOMAIN jobs' : jobs'[i].consumed /\ jobs'[i].status = "DONE" => Row(i),
             Last
      PROVE  Dropped' /\ NoDuplicateDispatch'
  <2>1. Dropped'
    BY <1>6 DEF Dropped
  <2>2. NoDuplicateDispatch'
    <3>. HIDE DEF Row
    <3>. QED
      BY <1>6 DEF NoDuplicateDispatch, JobsOf
  <2>. QED
    BY <2>1, <2>2
<1>. HIDE DEF Row
<1>7. CASE \A h \in Host : ~CallQueue(h)
  <2>1. /\ DOMAIN jobs' = DOMAIN jobs
        /\ \A k \in DOMAIN jobs : Successor(jobs[k], jobs'[k])
    BY <1>7, OtherRows
  <2>2. \A k \in DOMAIN jobs : jobs[k].consumed => jobs'[k].status = jobs[k].status
    BY <2>1 DEF Successor, IInv, QueueInv, ConsumedIsTerminal
  <2>3. \A i \in DOMAIN jobs' : jobs'[i].consumed /\ jobs'[i].status = "DONE" => Row(i)
    BY <1>2, <2>1, <2>2 DEF Successor
  <2>4. ASSUME NEW i \in DOMAIN jobs', NEW j \in DOMAIN jobs', jobs'[i].status = "DONE",
               jobs'[i].app = jobs'[j].app, jobs'[i].task = jobs'[j].task
        PROVE  j <= i
    <3>1. /\ i \in DOMAIN jobs /\ j \in DOMAIN jobs /\ i \in Nat /\ j \in Nat
          /\ jobs[i].app = jobs[j].app /\ jobs[i].task = jobs[j].task
      BY <1>3, <2>1, <2>4 DEF Successor
    <3>2. CASE jobs[i].consumed
      BY <1>4, <1>5, <2>2, <2>4, <3>1, <3>2
    <3>3. CASE ~jobs[i].consumed
      BY <3>1, <3>3 DEF Newest
    <3>. QED
      BY <3>2, <3>3
  <2>. QED
    BY <1>1, <1>6, <2>1, <2>3, <2>4
<1>8. ASSUME NEW h \in Host, CallQueue(h) PROVE Dropped' /\ NoDuplicateDispatch'
  <2>. DEFINE c == host[h].cur
              d == dispatcher[h]
  <2>1. /\ host[h].pc = "adapter" /\ UNCHANGED host
        /\ c.app \in App /\ c.task \in Task
    BY <1>8 DEF CallQueue, InAdapter, hostVars, IInv, HostsInv, HostOK, Dispatching,
       Dispatch
  <2>2. UNCHANGED jobs => Dropped' /\ NoDuplicateDispatch'
    BY <1>2, <1>4, <1>5, <1>6
  <2>3. CASE Submit(h, c.app, c.task)
    <3>1. (UNCHANGED jobs \/ Inserted(c.app, c.task)) /\ d.pc = "idle"
      BY <2>1, <2>3, SubmitRows DEF IInv
    <3>2. CASE Inserted(c.app, c.task)
      <4>. DEFINE n == Len(jobs) + 1
      <4>1. /\ DOMAIN jobs' = DOMAIN jobs \cup {n}
            /\ \A k \in DOMAIN jobs : jobs'[k] = jobs[k] /\ k < n
            /\ jobs'[n].app = c.app /\ jobs'[n].task = c.task
            /\ jobs'[n].status = "QUEUED" /\ ~jobs'[n].consumed
            /\ \A k \in DOMAIN jobs :
                 jobs[k].app = c.app /\ jobs[k].task = c.task => jobs[k].consumed
        BY <3>2 DEF Inserted
      <4>. HIDE DEF n
      <4>2. \A k \in DOMAIN jobs :
              jobs[k].app = c.app /\ jobs[k].task = c.task => jobs[k].status # "DONE"
        BY <2>1, <3>1, <4>1, NothingFinished
      <4>. HIDE DEF c
      <4>3. \A i \in DOMAIN jobs' : jobs'[i].consumed /\ jobs'[i].status = "DONE" => Row(i)
        BY <1>2, <4>1
      <4>4. Last
        BY <1>4, <1>5, <4>1, <4>2
      <4>. QED
        BY <1>6, <4>3, <4>4
    <3>. QED
      BY <2>2, <3>1, <3>2
  <2>4. CASE Consume(h)
    <3>1. /\ d.pc = "consume" /\ d.job \in DOMAIN jobs
          /\ dispatcher'[h].pc = "returned" /\ dispatcher'[h].out = jobs[d.job].status
          /\ DOMAIN jobs' = DOMAIN jobs
          /\ \A k \in DOMAIN jobs :
               /\ jobs'[k].app = jobs[k].app /\ jobs'[k].task = jobs[k].task
               /\ jobs'[k].status = jobs[k].status
               /\ jobs'[k].consumed = (jobs[k].consumed \/ k = d.job)
      BY <2>4, ConsumeRows DEF IInv
    <3>2. jobs[d.job].app = c.app /\ jobs[d.job].task = c.task
      BY <3>1 DEF IInv, Link, Called
    <3>3. jobs[d.job].status = "DONE" => Row(d.job)
      BY <2>1, <3>1, <3>2 DEF Row, Finished
    <3>. HIDE DEF d
    <3>4. \A i \in DOMAIN jobs' : jobs'[i].consumed /\ jobs'[i].status = "DONE" => Row(i)
      BY <1>2, <3>1, <3>3
    <3>5. Last
      BY <1>4, <1>5, <3>1
    <3>. QED
      BY <1>6, <3>4, <3>5
  <2>5. CASE ConsumeRefused(h)
    <3>1. UNCHANGED jobs
      BY <2>5, CallRows DEF IInv
    <3>. QED
      BY <2>2, <3>1
  <2>. QED
    BY <1>8, <2>3, <2>4, <2>5 DEF CallQueue
<1>. QED
  BY <1>1, <1>7, <1>8

(* No baton is to do a task twice.                                          *)
PlansDistinct == \A p \in Plans : \A a \in App : NoRepeats(Work(p[a]))

(* A task that a worker has finished is not handed over again, as long as   *)
(* no host is killed or told to stop and no lease stalls, whatever workers  *)
(* crash, stall and lose their claims ("without duplicate dispatch",        *)
(* runtime/README.md:57; work_queue.py:50-69, 134-181).  The batons must    *)
(* not name a task twice, which would ask for it to be done twice.          *)
THEOREM NoDuplicateHolds ==
  ASSUME PlansDistinct
  PROVE  Spec => [](Undisturbed => NoDuplicateWithoutHostCrash)
<1>1. Init => Newest /\ Once
  <2>. SUFFICES ASSUME Init PROVE Newest /\ Distinct /\ Dropped /\ NoDuplicateDispatch
    BY DEF Once
  <2>1. jobs = <<>>
    BY DEF Init, QueueInit
  <2>2. PICK p \in Plans :
          app = [a \in App |-> [active |-> p[a].active, next |-> p[a].next,
                                cur |-> None, gate |-> None]]
    BY DEF Init, HostsInit
  <2>3. \A a \in App : Work(app[a]) = Work(p[a])
    BY <2>2 DEF Work
  <2>4. Distinct
    BY <2>3 DEF Distinct, PlansDistinct
  <2>. QED
    BY <2>1, <2>4 DEF Newest, Dropped, NoDuplicateDispatch, JobsOf
<1>2. IInv /\ Newest /\ [Next]_vars => Newest'
  BY NewestStep
<1>3. IInv /\ Calm /\ Newest /\ Once /\ [Next]_vars => Once'
  BY UntouchedSoFar, OnceStep DEF Once, Calm, Steady, Untouched
<1>4. Once => (Undisturbed => NoDuplicateWithoutHostCrash)
  BY DEF Once, Untouched, NoDuplicateWithoutHostCrash
<1>. QED
  BY <1>1, <1>2, <1>3, <1>4, InvariantHolds, CalmHolds, PTL DEF Spec

(* The same two for hosts that can only crash, as in the run of this name:  *)
(* there nothing ever disturbs.                                             *)
THEOREM CrashesOnly ==
  ASSUME MaxStops = 0, MaxStalls = 0, PlansDistinct
  PROVE  Spec => []NoStrandedJob /\ []NoDuplicateWithoutHostCrash
<1>1. Init => Undisturbed
  BY DEF Init, Undisturbed, HostsUndisturbed, HostsInit
<1>2. IInv /\ Undisturbed /\ [Next]_vars => Undisturbed'
  <2>. SUFFICES ASSUME IInv, Undisturbed, [Next]_vars PROVE Undisturbed'
    OBVIOUS
  <2>1. [HostsNext]_hostVars
    BY HostsKeepTheirNext DEF hostVars
  <2>. QED
    BY <2>1, NothingDisturbs DEF IInv, Undisturbed
<1>3. Spec => []Undisturbed
  BY <1>1, <1>2, InvariantHolds, PTL DEF Spec
<1>. QED
  BY <1>3, NoStrandedJobHolds, NoDuplicateHolds, PTL
=============================================================================
