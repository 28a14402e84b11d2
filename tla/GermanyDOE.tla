----------------------------- MODULE GermanyDOE -----------------------------
(***************************************************************************)
(* The DOE connector of Germany (germany_doe.py): the archive of one       *)
(* publication day after the other, up to yesterday's.  A result closes a  *)
(* lot, "open-nw" reopens one the connector knows, and a lot that closed   *)
(* is remembered for closed_retention_days.  An archive that is damaged    *)
(* raises and nothing changes.                                             *)
(***************************************************************************)
EXTENDS PublicRegister

CONSTANT Retention        \* closed_retention_days

Kinds == {"tender", "close", "reopen"}

LotState ==
  [at : Nat, day : Nat, deadline : Int \cup {None}, visible : BOOLEAN,
   emitted : BOOLEAN]                         \* closure_emitted

Lots == [Lot -> LotState \cup {None}]

Cursor == [through : Int, tracked : Lots, closed : Lots, recent : Lots]

(* An event of a contract notice, and one of a result or "open-nw".         *)
NoticeEvent(n) ==
  [at |-> n.at, day |-> n.day, deadline |-> n.deadline, visible |-> FALSE,
   emitted |-> FALSE]

AwardEvent(n) == [at |-> n.at, day |-> n.day]

Current(s, l) ==
  IF s.tracked[l] # None THEN s.tracked[l]
  ELSE IF s.closed[l] # None THEN s.closed[l] ELSE s.recent[l]

(* A result keeps what is known of the lot; a contract notice replaces it.  *)
MergeResult(current, event) ==
  [current EXCEPT !.at = event.at, !.day = event.day, !.emitted = FALSE]

MergeNotice(current, event) ==
  IF current = None THEN event ELSE [event EXCEPT !.visible = current.visible]

Reopened(current, event) ==
  [current EXCEPT !.at = event.at, !.day = event.day, !.emitted = FALSE]

Track(s, l, state) ==
  [s EXCEPT !.tracked[l] = state, !.closed[l] = None, !.recent[l] = None]

ApplyEvent(s, n) ==
  LET l == n.lot
      current == Current(s, l)
      later == current # None /\ n.at > current.at
  IN CASE n.kind = "reopen" /\ later -> Track(s, l, Reopened(current, AwardEvent(n)))
       [] n.kind = "close" /\ later ->
            [s EXCEPT !.tracked[l] = None, !.recent[l] = None,
                      !.closed[l] = MergeResult(current, AwardEvent(n))]
       [] n.kind = "tender" /\ (current = None \/ later) ->
            Track(s, l, MergeNotice(current, NoticeEvent(n)))
       [] OTHER -> s

(* A row to publish, or only the end of one.                                *)
Observation(actionable) == IF actionable THEN "open" ELSE "closed"

(* The notices of the days' archives.                                       *)
Archives(notices, first, last) == Published(notices, first, last)

Observed(s, now) ==
  [l \in Lot |->
     LET t == s.tracked[l]
         c == s.closed[l]
     IN IF t # None /\ Future(t.deadline, now) THEN Observation(TRUE)
        ELSE IF Visible(t) \/ (Visible(c) /\ ~c.emitted) THEN Observation(FALSE)
        ELSE "none"]

Survivors(s, now) ==
  [l \in Lot |->
     LET t == s.tracked[l] IN
     IF t = None \/ Elapsed(t.deadline, now) THEN None
     ELSE [t EXCEPT !.visible = t.deadline # None]]

(* Closed lots move to the recently closed ones when they are told.         *)
Remembered(s) ==
  [l \in Lot |->
     IF s.closed[l] = None THEN s.recent[l]
     ELSE [s.closed[l] EXCEPT !.emitted = @ \/ s.closed[l].visible]]

Pruned(recent, target) ==
  [l \in Lot |->
     IF recent[l] # None /\ recent[l].day < target - Retention THEN None ELSE recent[l]]

FaultyStartDay(cursor, target) ==         \* an overlap as long as the budget
  IF cursor = None THEN target - Lookback + 1 ELSE cursor.through + 1 - Budget

StartDay(cursor, target) ==
  IF cursor = None THEN target - Lookback + 1 ELSE cursor.through + 1 - Overlap

Fetch(cursor, notices, today) ==
  LET target == today - 1
      first == StartDay(cursor, target)
      last == LesserOf(target, first + Budget - 1)
      before == IF cursor = None
                THEN [tracked |-> Absent, closed |-> Absent, recent |-> Absent]
                ELSE [tracked |-> cursor.tracked, closed |-> cursor.closed,
                      recent |-> cursor.recent]
      s == Replay(ApplyEvent, Newest, before, Archives(notices, first, last))
      through == IF cursor = None THEN last ELSE GreaterOf(cursor.through, last)
  IN IF through >= target
     THEN Result([through |-> through, tracked |-> Survivors(s, today),
                  closed |-> Absent, recent |-> Pruned(Remembered(s), target)],
                 Observed(s, today), TRUE, first)
     ELSE Result([through |-> through, tracked |-> s.tracked, closed |-> s.closed,
                  recent |-> Pruned(s.recent, target)],
                 Silent, FALSE, first)
=============================================================================
