----------------------------- MODULE LatviaIUB ------------------------------
(***************************************************************************)
(* The Latvian IUB connector (latvia_iub.py) over dated daily files        *)
(* (official_json_bulk_adapter.py).  A day's file is read once the day is  *)
(* over, the last one read once more.  Competition notices with a deadline *)
(* ahead become rows; results and changes of contract are not read, and    *)
(* there is no lifecycle.  A file that is missing or malformed raises.     *)
(***************************************************************************)
EXTENDS PublicRegister

Kinds == {"tender", "close", "correct"}

Cursor == [through : Int]                    \* DailyBulkCursor

(* _target_end: publication_lag_days.                                       *)
TargetEnd(today) == today - 1

Start(cursor, today) ==
  IF cursor = None THEN TargetEnd(today) - Lookback
  ELSE cursor.through + 1 - Overlap

LastFile(cursor, today) == LesserOf(TargetEnd(today), Start(cursor, today) + Budget - 1)

(* normalize_iub_notice *)
RowsOf(found, today) ==
  LET competition == {n \in found : n.kind \in {"tender", "correct"}
                                    /\ Future(n.deadline, today)}
  IN [l \in Lot |-> FirstRow(competition, LAMBDA n : n.deadline, l)]

Fetch(cursor, notices, today) ==
  LET start == Start(cursor, today)
      last == LastFile(cursor, today)
      rows == RowsOf(Published(notices, start, last), today)
  IN Rows([through |-> last], rows, last = TargetEnd(today), start)
=============================================================================
