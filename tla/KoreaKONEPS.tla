---------------------------- MODULE KoreaKONEPS -----------------------------
(***************************************************************************)
(* The KONEPS connector of Korea (korea_koneps.py): one window of change   *)
(* times is read by each call.  The service lists a bid under the time of  *)
(* its last change only, so an earlier window no longer has it.  A window  *)
(* whose pages do not add up raises, and so does a cursor with more than   *)
(* max_state_items bids; then nothing changes.                             *)
(***************************************************************************)
EXTENDS PublicRegister

CONSTANT StateLimit       \* max_state_items

Kinds == {"tender", "close"}

BidState == [at : Nat, deadline : Int \cup {None}, visible : BOOLEAN]

Cursor ==
  [through : Int,                             \* completed_through
   tracked : [Lot -> BidState \cup {None}],
   closed : [Lot -> BidState \cup {None}]]

ItemEvent(n) ==
  [lot |-> n.lot, cancelled |-> n.kind = "close",
   state |-> [at |-> n.at, deadline |-> n.deadline, visible |-> FALSE]]

FaultyMerge(current, incoming) ==         \* was_visible is not carried over
  IF current = None \/ incoming.at > current.at THEN incoming ELSE current

Merge(current, incoming) ==
  IF current = None THEN incoming
  ELSE IF incoming.at <= current.at THEN current
  ELSE [incoming EXCEPT !.visible = current.visible \/ incoming.visible]

(* The bids whose last change is in the window.                             *)
Window(notices, first, last) ==
  Published({n \in notices : \A o \in notices : o.lot = n.lot => o.at <= n.at},
            first, last)

ApplyEvent(s, n) ==
  LET e == ItemEvent(n)
      l == e.lot
      current == IF s.tracked[l] # None THEN s.tracked[l] ELSE s.closed[l]
      merged == Merge(current, e.state)
  IN IF current # None /\ e.state.at <= current.at THEN s
     ELSE IF ~e.cancelled THEN [s EXCEPT !.tracked[l] = merged, !.closed[l] = None]
     ELSE IF current = None THEN s
     ELSE [s EXCEPT !.tracked[l] = None, !.closed[l] = merged]

WithinLimit(s) ==
  Cardinality(Known(s.tracked)) + Cardinality(Known(s.closed)) <= StateLimit

(* A row to publish, or only the end of one.                                *)
Observation(actionable) == IF actionable THEN "open" ELSE "closed"

Observed(s, now) ==
  [l \in Lot |->
     LET t == s.tracked[l] IN
     IF t # None /\ Future(t.deadline, now) THEN Observation(TRUE)
     ELSE IF Visible(t) \/ Visible(s.closed[l]) THEN Observation(FALSE) ELSE "none"]

Survivors(s, now) ==
  [l \in Lot |->
     LET t == s.tracked[l] IN
     IF t = None \/ Elapsed(t.deadline, now) THEN None
     ELSE [t EXCEPT !.visible = t.deadline # None]]

(* The window: its first minute, and the minute it completes.               *)
QueryStart(cursor, now) ==
  IF cursor = None THEN now - Lookback ELSE cursor.through - Overlap

WindowEnd(cursor, now) ==
  LET completed == IF cursor = None THEN now - Lookback ELSE cursor.through
  IN LesserOf(now, completed + Budget)

(* The bids once the window is applied.                                     *)
Bids(cursor, notices, now) ==
  LET before == IF cursor = None THEN [tracked |-> Absent, closed |-> Absent]
                ELSE [tracked |-> cursor.tracked, closed |-> cursor.closed]
  IN Replay(ApplyEvent, Newest, before,
            Window(notices, QueryStart(cursor, now), WindowEnd(cursor, now)))

Raises(cursor, notices, now) == ~WithinLimit(Bids(cursor, notices, now))

Fetch(cursor, notices, now) ==
  LET first == QueryStart(cursor, now)
      last == WindowEnd(cursor, now)
      s == Bids(cursor, notices, now)
  IN IF last >= now
     THEN Result([through |-> last, tracked |-> Survivors(s, now), closed |-> Absent],
                 Observed(s, now), TRUE, first)
     ELSE Result([through |-> last, tracked |-> s.tracked, closed |-> s.closed],
                 Silent, FALSE, first)
=============================================================================
