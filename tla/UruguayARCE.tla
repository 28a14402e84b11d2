----------------------------- MODULE UruguayARCE ----------------------------
(***************************************************************************)
(* The Uruguayan ARCE connector (uruguay_arce.py).  An RSS feed lists the  *)
(* newest releases; the cursor is the key of the last one read.  When the  *)
(* feed no longer reaches back to the cursor, the monthly feeds are read   *)
(* one at a time instead, a finished month being marked with the guid "~". *)
(* Each process named by an event is rebuilt from its tender releases and  *)
(* given while it is open; there is no lifecycle.  Time is counted in      *)
(* months.                                                                 *)
(***************************************************************************)
EXTENDS PublicRegister

CONSTANTS
  Live,         \* releases in the current feed (500)
  Events,       \* max_events_per_sync
  Tolerance     \* overlap_seconds, in releases

Kinds == {"tender", "close", "correct"}

(* ARCECursor: the key of an event, or the end of a month.                  *)
Cursor == [through : Int, month : Int, ended : BOOLEAN]

At(n) == [through |-> n.at, month |-> n.day, ended |-> FALSE]

Ended(month, cursor) == [through |-> cursor.through, month |-> month, ended |-> TRUE]

(* The current feed.                                                        *)
LiveEvents(notices) ==
  {n \in notices : Cardinality({m \in notices : m.at > n.at}) < Live}

(* Events after the cursor.                                                 *)
Beyond(ns, cursor) ==
  {n \in ns : IF cursor.ended THEN n.day > cursor.month ELSE n.at > cursor.through}

(* horizon_probe: the current feed reaches back to the cursor.              *)
Covered(notices, cursor) ==
  LET oldest == Oldest(LiveEvents(notices))
  IN IF cursor.ended THEN oldest.day <= cursor.month
     ELSE oldest.at <= cursor.through + Tolerance

(* The first events of those eligible, as many as one call takes.           *)
Batch(eligible) ==
  {n \in eligible : Cardinality({m \in eligible : m.at < n.at}) < Events}

(* The month recovery reads: the next one when the cursor's is finished.    *)
RecoveryMonth(cursor) == IF cursor.ended THEN cursor.month + 1 ELSE cursor.month

(* _event_batch, without and with a cursor.                                 *)
FirstBatch(notices, now) ==
  Batch({n \in LiveEvents(notices) : n.day > now - Lookback})

Eligible(notices, cursor) ==
  IF Covered(notices, cursor) THEN Beyond(LiveEvents(notices), cursor)
  ELSE {n \in Beyond(notices, cursor) : n.day = RecoveryMonth(cursor)}

NextCursor(notices, cursor, now) ==
  LET eligible == Eligible(notices, cursor)
      batch == Batch(eligible)
  IN IF /\ ~Covered(notices, cursor)
        /\ batch = eligible /\ RecoveryMonth(cursor) < now
     THEN Ended(RecoveryMonth(cursor), cursor)
     ELSE IF batch = {} THEN cursor ELSE At(Newest(batch))

(* normalize_arce_process of the tender state rebuilt now.                  *)
Given(batch, notices, now) ==
  [l \in Lot |->
     LET ns == {n \in notices : n.lot = l}
     IN IF /\ \E n \in batch : n.lot = l
           /\ Newest(ns).kind # "close" /\ Dated(ns) # {}
           /\ Future(DeadlineOf(ns), now)
        THEN DeadlineOf(ns) ELSE None]

(* The first month the current feed can be read from without a gap.         *)
Horizon(notices, now) ==
  LET recent == now - Lookback + 1
  IN IF LiveEvents(notices) = notices THEN recent
     ELSE GreaterOf(recent, Oldest(LiveEvents(notices)).day + 1)

(* Without a cursor and a recent event: the present moment, after all of    *)
(* today's releases so far.                                                 *)
Present(notices, now) == [through |-> Newest(notices).at, month |-> now, ended |-> FALSE]

Raises(notices) == notices = {}

Fetch(cursor, notices, now) ==
  LET batch == IF cursor = None THEN FirstBatch(notices, now)
               ELSE Batch(Eligible(notices, cursor))
      next == IF cursor # None THEN NextCursor(notices, cursor, now)
              ELSE IF batch = {} THEN Present(notices, now)
              ELSE At(Newest(batch))
  IN Rows(next, Given(batch, notices, now), Beyond(notices, next) = {},
          Horizon(notices, now))

(* A later cursor than another.                                             *)
Later(c, d) ==
  \/ c.through > d.through
  \/ c.through = d.through /\ c.ended
     /\ (~d.ended \/ c.month > d.month)
=============================================================================
