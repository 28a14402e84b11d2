------------------------------ MODULE PolandBZP -----------------------------
(***************************************************************************)
(* The BZP connector of Poland (poland_bzp.py): windows of publication     *)
(* times are read in order, each checked against the register's own counts *)
(* (a mismatch raises and nothing changes).  Notices are applied in the    *)
(* order of publication and not compared with what is already known; an    *)
(* update or a result only concerns a procedure that is tracked.           *)
(***************************************************************************)
EXTENDS PublicRegister

Kinds == {"tender", "close", "leave", "correct"}

Procedure == [deadline : Int \cup {None}, visible : BOOLEAN]   \* was_actionable

Cursor ==
  [through : Int,                             \* completed_through
   tracked : [Lot -> Procedure \cup {None}],
   closed : [Lot -> Procedure \cup {None}]]

(* A ContractNotice of public works: the procedure as it is now tracked.    *)
FromContract(previous, n) ==
  [deadline |-> n.deadline, visible |-> Visible(previous)]

(* A NoticeUpdateNotice: the deadline it corrects, if it names one.         *)
Refreshed(state, n) ==
  IF n.deadline = None THEN state ELSE [state EXCEPT !.deadline = n.deadline]

ProcessEvent(s, n) ==
  LET l == n.lot
      current == s.tracked[l]
  IN CASE n.kind = "tender" ->
            [s EXCEPT !.tracked[l] = FromContract(current, n), !.closed[l] = None]
       [] n.kind = "correct" /\ current # None ->
            [s EXCEPT !.tracked[l] = Refreshed(current, n)]
       [] n.kind \in {"close", "leave"} /\ current # None ->
            [s EXCEPT !.tracked[l] = None, !.closed[l] = current]
       [] OTHER -> s

(* A row to publish, or only the end of one.                                *)
Observation(actionable) == IF actionable THEN "open" ELSE "closed"

Observed(s, now) ==
  [l \in Lot |->
     LET t == s.tracked[l] IN
     IF t # None /\ Future(t.deadline, now) THEN Observation(TRUE)
     ELSE IF Visible(t) \/ Visible(s.closed[l]) THEN Observation(FALSE) ELSE "none"]

Survivors(s, now) ==
  [l \in Lot |->
     LET t == s.tracked[l] IN
     IF t = None \/ Elapsed(t.deadline, now) THEN None
     ELSE [t EXCEPT !.visible = t.deadline # None]]

WindowStart(cursor, now) ==
  IF cursor = None THEN now - Lookback ELSE cursor.through - Overlap

(* The register's lists, whose lengths its statistics confirm.              *)
FetchInterval(notices, first, last) == Published(notices, first, last)

Fetch(cursor, notices, now) ==
  LET first == WindowStart(cursor, now)
      last == LesserOf(now, first + Budget)
      before == IF cursor = None THEN [tracked |-> Absent, closed |-> Absent]
                ELSE [tracked |-> cursor.tracked, closed |-> cursor.closed]
      s == Replay(ProcessEvent, Newest, before, FetchInterval(notices, first, last))
  IN IF last >= now
     THEN Result([through |-> last, tracked |-> Survivors(s, now), closed |-> Absent],
                 Observed(s, now), TRUE, first)
     ELSE Result([through |-> last, tracked |-> s.tracked, closed |-> s.closed],
                 Silent, FALSE, first)
=============================================================================
