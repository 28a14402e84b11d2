---------------------------- MODULE UKFindTender ----------------------------
(***************************************************************************)
(* The UK Find a Tender connector (uk_find_tender.py) over the transport   *)
(* for opaque page cursors (ocds_cursor_adapter.py).  Time is counted in   *)
(* five minutes: windows are Width of them, the overlap one.  Every        *)
(* process with a release in a window is looked up once and observed in    *)
(* its present state; a process with no newer release is not looked up     *)
(* again, so nothing is said when its deadline passes.                     *)
(***************************************************************************)
EXTENDS PublicRegister

CONSTANTS
  Width,        \* window_minutes, in units
  Windows       \* max_windows_per_sync

Kinds == {"tender", "close", "reopen", "correct"}

Cursor == [through : Int]                    \* OCDSOpaqueWindowCursor

(* _start_point: windows overlap the last one completed.                    *)
Start(cursor, now) ==
  IF cursor = None THEN now - Lookback ELSE cursor.through - Overlap

(* The end of the last window; windows meet at their ends.                  *)
End(cursor, now) == LesserOf(now, Start(cursor, now) + Width * Windows)

(* _actionability: the process, then its deadline.                          *)
Actionable(ns, now) ==
  Newest(ns).kind # "close" /\ Dated(ns) # {} /\ Future(DeadlineOf(ns), now)

(* _process_release_window: what is observed of the processes released.     *)
Observed(released, notices, now) ==
  [l \in Lot |->
     IF \A n \in released : n.lot # l THEN "none"
     ELSE IF Actionable({n \in notices : n.lot = l}, now) THEN "open" ELSE "closed"]

Fetch(cursor, notices, now) ==
  LET start == Start(cursor, now)
      end == End(cursor, now)
  IN Result([through |-> end],
            Observed({n \in notices : start <= n.day /\ n.day <= end}, notices, now),
            end = now, start)
=============================================================================
