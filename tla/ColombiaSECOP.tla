---------------------------- MODULE ColombiaSECOP ---------------------------
(***************************************************************************)
(* The Colombian SECOP connector (colombia_secop.py) over the Socrata API  *)
(* (socrata_adapter.py).  The dataset has one row per process, in its      *)
(* present state, with the time it was last changed.  A call reads every   *)
(* open works row changed since the newest one read, less an overlap, in   *)
(* the order of change; more pages than max_pages raise.  No lifecycle.    *)
(***************************************************************************)
EXTENDS PublicRegister

Kinds == {"tender", "close", "reopen", "correct"}

Cursor == [through : Int, lot : Lot]         \* SocrataCursor

(* _start_timestamp *)
Start(cursor, today) ==
  IF cursor = None THEN today - Lookback ELSE cursor.through - Overlap

(* The row of a process, and when it was changed.                           *)
Changed(notices, l) == Newest({n \in notices : n.lot = l})

(* SECOP_CONSTRUCTION_WHERE and _incremental_where.                         *)
Selected(notices, start) ==
  {l \in {n.lot : n \in notices} :
     Changed(notices, l).kind # "close" /\ Changed(notices, l).day >= start}

(* normalize_secop_process *)
RowDeadline(ns) == IF DeadlineOf(ns) = None THEN Undated ELSE DeadlineOf(ns)

(* The newest of the rows read; without a row there is no new cursor.       *)
NextCursor(cursor, notices, selected) ==
  IF selected = {} THEN cursor
  ELSE LET newest == CHOOSE l \in selected : \A k \in selected :
                       Changed(notices, k).at <= Changed(notices, l).at
       IN [through |-> Changed(notices, newest).day, lot |-> newest]

Fetch(cursor, notices, today) ==
  LET start == Start(cursor, today)
      selected == Selected(notices, start)
  IN Rows(NextCursor(cursor, notices, selected),
          [l \in Lot |-> IF l \in selected
                         THEN RowDeadline({n \in notices : n.lot = l}) ELSE None],
          TRUE, start)
=============================================================================
