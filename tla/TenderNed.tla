----------------------------- MODULE TenderNed ------------------------------
(***************************************************************************)
(* The TenderNed connector of the Netherlands                              *)
(* (netherlands_tenderned.py): each call reads every publication since the *)
(* last call and the overlap before it; the last publication of a          *)
(* procedure decides.  A list that changes under the scan, or is too long, *)
(* raises and nothing changes.                                             *)
(***************************************************************************)
EXTENDS PublicRegister

Kinds == {"tender", "close", "leave"}

(* phase: an open publication, one that awards or terminates, and any other *)
(* one (a consultation, an inactive status).                                *)
Phase == {"open", "terminal", "other"}

Procedure ==
  [phase : Phase, deadline : Int \cup {None}, visible : BOOLEAN]   \* was_actionable

Cursor == [through : Int, tracked : [Lot -> Procedure \cup {None}]]

FromDetail(previous, n) ==
  [phase |-> CASE n.kind = "tender" -> "open" [] n.kind = "close" -> "terminal"
               [] OTHER -> "other",
   deadline |-> n.deadline, visible |-> Visible(previous)]

IsOpen(state, now) == state.phase = "open" /\ Future(state.deadline, now)

(* Only an open publication makes a procedure known.                        *)
ApplyDetail(tracked, n) ==
  LET state == FromDetail(tracked[n.lot], n)
  IN IF tracked[n.lot] # None \/ state.phase = "open"
     THEN [tracked EXCEPT ![n.lot] = state] ELSE tracked

(* A row to publish, or only the end of one.                                *)
Observation(actionable) == IF actionable THEN "open" ELSE "closed"

Observed(tracked, now) ==
  [l \in Lot |->
     LET t == tracked[l] IN
     IF t # None /\ IsOpen(t, now) THEN Observation(TRUE)
     ELSE IF Visible(t) THEN Observation(FALSE) ELSE "none"]

(* Of those not open, only an open publication without a deadline is kept.  *)
Survivors(tracked, now) ==
  [l \in Lot |->
     LET t == tracked[l] IN
     IF t = None \/ t.phase # "open" \/ Elapsed(t.deadline, now) THEN None
     ELSE [t EXCEPT !.visible = t.deadline # None]]

StartDate(cursor, today) ==
  IF cursor = None THEN today - Lookback ELSE cursor.through - Overlap

(* The pages back to the first date, and the detail of each works notice.   *)
Discover(notices, first, today) == Published(notices, first, today)

Fetch(cursor, notices, today) ==
  LET first == StartDate(cursor, today)
      before == IF cursor = None THEN Absent ELSE cursor.tracked
      tracked == Replay(ApplyDetail, Newest, before, Discover(notices, first, today))
  IN Result([through |-> today, tracked |-> Survivors(tracked, today)],
            Observed(tracked, today), TRUE, first)
=============================================================================
