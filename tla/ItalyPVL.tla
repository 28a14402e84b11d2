------------------------------ MODULE ItalyPVL ------------------------------
(***************************************************************************)
(* The ANAC PVL connector of Italy (italy_anac_pvl.py): publication days   *)
(* are read whole, one after the other, with the last one read again; the  *)
(* cursor carries the lots it tracks and, during a catch-up, the lots that *)
(* left.  A day whose pages do not add up raises and nothing changes.      *)
(***************************************************************************)
EXTENDS PublicRegister

Kinds == {"tender", "close", "leave"}

LotState == [at : Nat, deadline : Int \cup {None}, visible : BOOLEAN]

Cursor ==
  [through : Int,                             \* completed_through
   tracked : [Lot -> LotState \cup {None}],
   closed : [Lot -> LotState \cup {None}]]

(* One lot of one notice, as parsed.                                        *)
LotEvent(n) ==
  [lot |-> n.lot, works |-> n.kind # "leave", active |-> n.kind # "close",
   state |-> [at |-> n.at, deadline |-> n.deadline, visible |-> FALSE]]

Merge(current, incoming) ==
  IF current = None THEN incoming
  ELSE IF incoming.at <= current.at THEN current
  ELSE [incoming EXCEPT !.visible = current.visible \/ incoming.visible]

ApplyEvent(s, n) ==
  LET e == LotEvent(n)
      l == e.lot
      current == IF s.tracked[l] # None THEN s.tracked[l] ELSE s.closed[l]
      merged == Merge(current, e.state)
  IN IF current # None /\ e.state.at <= current.at THEN s
     ELSE IF e.works /\ e.active
     THEN [s EXCEPT !.tracked[l] = merged, !.closed[l] = None]
     ELSE IF current = None THEN s
     ELSE [s EXCEPT !.tracked[l] = None, !.closed[l] = merged]

(* A row to publish, or only the end of one.                                *)
Observation(actionable) == IF actionable THEN "open" ELSE "closed"

(* The lots are read up to today: only now is anything said about them.     *)
Observed(s, now) ==
  [l \in Lot |->
     LET t == s.tracked[l] IN
     IF t # None /\ Future(t.deadline, now) THEN Observation(TRUE)
     ELSE IF Visible(t) \/ Visible(s.closed[l]) THEN Observation(FALSE) ELSE "none"]

FaultySurvivors(s, now) ==                \* the deadline for whether there is one
  [l \in Lot |->
     LET t == s.tracked[l] IN
     IF t = None \/ Elapsed(t.deadline, now) THEN None
     ELSE [t EXCEPT !.visible = t.deadline]]

(* A lot without a deadline stays, one whose deadline has passed does not.  *)
Survivors(s, now) ==
  [l \in Lot |->
     LET t == s.tracked[l] IN
     IF t = None \/ Elapsed(t.deadline, now) THEN None
     ELSE [t EXCEPT !.visible = t.deadline # None]]

FaultyStartDay(cursor, target) ==         \* without the overlap
  IF cursor = None THEN target - Lookback + 1 ELSE cursor.through + 1

StartDay(cursor, target) ==
  IF cursor = None THEN target - Lookback + 1 ELSE cursor.through + 1 - Overlap

(* The pages of each day, complete by their own counts.                     *)
FetchDays(notices, first, last) == Published(notices, first, last)

Fetch(cursor, notices, today) ==
  LET first == StartDay(cursor, today)
      last == LesserOf(today, first + Budget - 1)
      before == IF cursor = None THEN [tracked |-> Absent, closed |-> Absent]
                ELSE [tracked |-> cursor.tracked, closed |-> cursor.closed]
      s == Replay(ApplyEvent, Newest, before, FetchDays(notices, first, last))
      through == IF cursor = None THEN last ELSE GreaterOf(cursor.through, last)
  IN IF through >= today
     THEN Result([through |-> through, tracked |-> Survivors(s, today), closed |-> Absent],
                 Observed(s, today), TRUE, first)
     ELSE Result([through |-> through, tracked |-> s.tracked, closed |-> s.closed],
                 Silent, FALSE, first)
=============================================================================
