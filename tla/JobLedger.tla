------------------------------ MODULE JobLedger ------------------------------
(***************************************************************************)
(* What the durable work queue promises the control plane, with no workers,*)
(* claims or crashes in sight: a task has at most one outstanding entry,   *)
(* an entry gets one verdict, and its verdict is taken once.               *)
(***************************************************************************)
EXTENDS Naturals, Sequences

CONSTANTS App, Task, Verdict, None

VARIABLE ledger

Entry ==
  [app : App, task : Task, phase : {"open", "settled", "taken"},
   verdict : Verdict \cup {None}]

Init == ledger = <<>>

(* A task is posted only when its previous entry has been taken.            *)
Post(a, t) ==
  /\ \A j \in DOMAIN ledger :
       ledger[j].app = a /\ ledger[j].task = t => ledger[j].phase = "taken"
  /\ ledger' = Append(ledger, [app |-> a, task |-> t, phase |-> "open",
                               verdict |-> None])

Settled(entry, v) ==
  [app |-> entry.app, task |-> entry.task, phase |-> "settled", verdict |-> v]

Settle(j, v) ==
  /\ ledger[j].phase = "open"
  /\ ledger' = [ledger EXCEPT ![j] = Settled(@, v)]

Take(j) ==
  /\ ledger[j].phase = "settled"
  /\ ledger' = [ledger EXCEPT ![j] = [@ EXCEPT !.phase = "taken"]]

Next ==
  \/ \E a \in App, t \in Task : Post(a, t)
  \/ \E j \in DOMAIN ledger : (\E v \in Verdict : Settle(j, v)) \/ Take(j)

Spec == Init /\ [][Next]_ledger
=============================================================================
