----------------------------- MODULE CanadaBuys -----------------------------
(***************************************************************************)
(* The CanadaBuys connector (canada_buys.py) and the three files it reads: *)
(* New, the tenders published today; Open, a snapshot made once a day and  *)
(* read only when it has changed; Complete, every tender with its status.  *)
(* Each tender is published once and may be amended.  A row without an     *)
(* identity or a closing time, or a tender listed twice, raises and        *)
(* nothing changes.                                                        *)
(***************************************************************************)
EXTENDS PublicRegister

Kinds == {"tender", "correct", "close"}

Cursor ==
  [version : Int,                             \* etag_open
   tracked : [Lot -> Int \cup {None}]]        \* the deadline it was shown with

(* A tender's deadline as of a set of notices; None when it is not open.    *)
OpenDeadline(notices, l) ==
  LET mine == {n \in notices : n.lot = l}
  IN IF mine = {} \/ Newest(mine).kind = "close" THEN None ELSE Newest(mine).deadline

(* New: the tenders of today that are still open.                           *)
NewFile(notices, today) ==
  [l \in Lot |->
     IF \E n \in notices : n.lot = l /\ n.kind = "tender" /\ n.day = today
     THEN OpenDeadline(notices, l) ELSE None]

(* Open: as the register was when the day began.                            *)
OpenFile(notices, today) ==
  [l \in Lot |-> LET d == OpenDeadline({n \in notices : n.day < today}, l)
                 IN IF Future(d, today - 1) THEN d ELSE None]

(* Complete: Open or Expired by its closing time, or Cancelled (None).      *)
Resolved(notices, now, l) ==
  LET d == OpenDeadline(notices, l) IN IF Future(d, now) THEN d ELSE None

(* New adds and never closes.                                               *)
WithNew(tracked, new, now) ==
  [l \in Lot |-> IF Future(new[l], now) THEN new[l] ELSE tracked[l]]

(* Open replaces; a tender missing from it before its deadline is looked up.*)
Reconciled(tracked, open, notices, now) ==
  [l \in Lot |->
     IF open[l] # None THEN IF Future(open[l], now) THEN open[l] ELSE None
     ELSE IF Future(tracked[l], now) THEN Resolved(notices, now, l) ELSE None]

(* Open has not changed: only closing times pass.                           *)
Unelapsed(tracked, now) ==
  [l \in Lot |-> IF Future(tracked[l], now) THEN tracked[l] ELSE None]

(* A row to publish, or only the end of one.                                *)
Observation(actionable) == IF actionable THEN "open" ELSE "closed"

(* Everything tracked has been shown.                                       *)
Observed(previous, tracked) ==
  [l \in Lot |->
     IF tracked[l] # None THEN IF tracked[l] = previous[l] THEN "none" ELSE Observation(TRUE)
     ELSE IF previous[l] # None THEN Observation(FALSE) ELSE "none"]

Fetch(cursor, notices, now) ==
  LET previous == IF cursor = None THEN Absent ELSE cursor.tracked
      current == WithNew(previous, NewFile(notices, now), now)
      next == IF cursor # None /\ cursor.version = now
              THEN Unelapsed(current, now)
              ELSE Reconciled(current, OpenFile(notices, now), notices, now)
  IN Result([version |-> now, tracked |-> next], Observed(previous, next), TRUE, 0)
=============================================================================
