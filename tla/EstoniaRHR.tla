----------------------------- MODULE EstoniaRHR -----------------------------
(***************************************************************************)
(* The RHR connector of Estonia (estonia_rhr.py): monthly files of notices *)
(* and of awards.  The unit of time is a month.  A catch-up that needs     *)
(* more months than one call reads keeps the lots it has seen in the       *)
(* cursor and goes on with catchup_next.  A file that is cut or damaged    *)
(* raises and nothing changes.                                             *)
(***************************************************************************)
EXTENDS PublicRegister

Kinds == {"tender", "close"}

LotState ==
  [at : Nat, deadline : Int \cup {None}, closed : BOOLEAN, visible : BOOLEAN]

Cursor ==
  [through : Int,                             \* observed_through
   tracked : [Lot -> LotState \cup {None}],
   next : Int \cup {None}]                    \* catchup_next

NoticeEvent(n) ==
  [at |-> n.at, deadline |-> n.deadline, closed |-> FALSE, visible |-> FALSE]

MergeNotice(current, event) ==
  IF current = None THEN event
  ELSE IF event.at < current.at THEN current
  ELSE [event EXCEPT !.visible = current.visible \/ event.visible]

MergeAward(current, n) ==
  IF current = None \/ n.at < current.at THEN current
  ELSE [current EXCEPT !.at = n.at, !.closed = TRUE]

(* The documents of the months' archives.                                   *)
Roots(notices, first, last) == Published(notices, first, last)

ApplyRoot(states, n) ==
  IF n.kind = "tender"
  THEN [states EXCEPT ![n.lot] = MergeNotice(@, NoticeEvent(n))]
  ELSE [states EXCEPT ![n.lot] = MergeAward(@, n)]

(* _apply_period: the notices of a month and then its awards, whatever      *)
(* their order.                                                             *)
LastRoot(ns) ==
  LET month == {n \in ns : n.day = Newest(ns).day}
      awards == {n \in month : n.kind = "close"}
  IN IF awards # {} THEN Newest(awards) ELSE Newest(month)

IsOpen(state, now) == state # None /\ ~state.closed /\ Future(state.deadline, now)

(* A row to publish, or only the end of one.                                *)
Observation(actionable) == IF actionable THEN "open" ELSE "closed"

Observed(states, now) ==
  [l \in Lot |->
     IF IsOpen(states[l], now) THEN Observation(TRUE)
     ELSE IF Visible(states[l]) THEN Observation(FALSE) ELSE "none"]

Survivors(states, now) ==
  [l \in Lot |->
     IF IsOpen(states[l], now) THEN [states[l] EXCEPT !.visible = TRUE] ELSE None]

(* A completed cursor holds only lots that were shown.                      *)
Carried(cursor) ==
  IF cursor = None THEN Absent
  ELSE IF cursor.next # None THEN cursor.tracked
  ELSE [l \in Lot |-> IF cursor.tracked[l] = None THEN None
                      ELSE [cursor.tracked[l] EXCEPT !.visible = TRUE]]

StartPeriod(cursor, now) ==
  IF cursor = None THEN now - Lookback + 1
  ELSE IF cursor.next # None THEN cursor.next ELSE cursor.through - Overlap

Fetch(cursor, notices, now) ==
  LET first == StartPeriod(cursor, now)
      last == LesserOf(now, first + Budget - 1)
      states == Replay(ApplyRoot, LastRoot, Carried(cursor), Roots(notices, first, last))
  IN IF last = now
     THEN Result([through |-> now, tracked |-> Survivors(states, now), next |-> None],
                 Observed(states, now), TRUE, first)
     ELSE Result([through |-> IF cursor = None THEN now ELSE cursor.through,
                  tracked |-> states, next |-> last + 1],
                 Silent, FALSE, first)
=============================================================================
