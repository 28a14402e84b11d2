---------------------------- MODULE OrderedBacklog ----------------------------
(***************************************************************************)
(* What the batons promise when one control-plane host dispatches at a     *)
(* time: every application's tasks are done in order, and a task goes once *)
(* it is recorded as done and never comes back.                            *)
(***************************************************************************)
EXTENDS Sequences

CONSTANTS App, Plans

VARIABLES work, done

Init ==
  /\ done = {}
  /\ \E p \in Plans : work = p

(* The first task of a backlog is recorded as done.                         *)
Record(a) ==
  /\ work[a] # <<>>
  /\ done' = done \cup {<<a, Head(work[a])>>}
  /\ UNCHANGED work

Drop(a) ==
  /\ work[a] # <<>> /\ <<a, Head(work[a])>> \in done
  /\ work' = [work EXCEPT ![a] = Tail(@)]
  /\ UNCHANGED done

Next == \E a \in App : Record(a) \/ Drop(a)

Spec == Init /\ [][Next]_<<work, done>>
=============================================================================
