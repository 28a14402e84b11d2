---------------------------- MODULE LithuaniaVPT ----------------------------
(***************************************************************************)
(* The VPT connector of Lithuania (lithuania_vpt.py): every call reads a   *)
(* snapshot of the whole register.  A snapshot that is cut, repeats a row  *)
(* or starts empty raises and nothing changes.                             *)
(***************************************************************************)
EXTENDS PublicRegister

Kinds == {"tender", "close", "leave"}

Row == [accepting : BOOLEAN, deadline : Int \cup {None}]

Cursor ==
  [through : Int,                             \* observed_through
   tracked : [Lot -> Int \cup {None}]]        \* the deadline it was shown with

(* One row for each lot, with its present state; a lot may be taken out.    *)
Snapshot(notices) ==
  LET latest(l) == Newest({n \in notices : n.lot = l})
  IN [l \in Lot |->
        IF (\A n \in notices : n.lot # l) \/ latest(l).kind = "leave" THEN None
        ELSE [accepting |-> latest(l).kind = "tender", deadline |-> latest(l).deadline]]

Actionable(row, now) == row # None /\ row.accepting /\ Future(row.deadline, now)

(* A row to publish, or only the end of one.                                *)
Observation(actionable) == IF actionable THEN "open" ELSE "closed"

(* A lot that is shown as it is needs no observation.                       *)
Observed(previous, rows, now) ==
  [l \in Lot |->
     IF Actionable(rows[l], now)
     THEN IF previous[l] = rows[l].deadline THEN "none" ELSE Observation(TRUE)
     ELSE IF previous[l] # None THEN Observation(FALSE) ELSE "none"]

Tracked(rows, now) ==
  [l \in Lot |-> IF Actionable(rows[l], now) THEN rows[l].deadline ELSE None]

Fetch(cursor, notices, now) ==
  LET rows == Snapshot(notices)
      previous == IF cursor = None THEN Absent ELSE cursor.tracked
  IN Result([through |-> now, tracked |-> Tracked(rows, now)],
            Observed(previous, rows, now), TRUE, 0)
=============================================================================
