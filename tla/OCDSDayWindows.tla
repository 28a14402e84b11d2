--------------------------- MODULE OCDSDayWindows ---------------------------
(***************************************************************************)
(* The two sources read through the paged OCDS API (ocds_adapter.py), a    *)
(* day at a time: Paraguay's DNCP (paraguay_dncp.py), whose search only    *)
(* finds processes that are hydrated one by one, and South Africa's        *)
(* eTenders (south_africa_etenders.py), whose releases are taken as they   *)
(* are.  Today counts as read although it is not over: the next call reads *)
(* the last day again.  Neither keeps a lifecycle.  A page limit that is   *)
(* reached, or a record that cannot be hydrated, raises.                   *)
(***************************************************************************)
EXTENDS PublicRegister

Kinds == {"tender", "close", "correct"}

Cursor == [through : Int]                    \* OCDSWindowCursor

(* The day after the last one completed, less the overlap.                  *)
Start(cursor, today) ==
  IF cursor = None THEN today - Lookback ELSE cursor.through + 1 - Overlap

(* The last day of this call's windows, one day each.                       *)
LastWindow(cursor, today) == LesserOf(today, Start(cursor, today) + Budget - 1)

(* The state a release or record shows: an active tender with its deadline. *)
Active(ns) == Newest(ns).kind # "close"

RowDeadline(ns) == IF DeadlineOf(ns) = None THEN Undated ELSE DeadlineOf(ns)

(* dncp_search_params and _hydrate_window: every active process with a      *)
(* release in the windows, in its current state.                            *)
DNCPRows(found, notices) ==
  LET current(n) == {m \in notices : m.lot = n.lot}
  IN [l \in Lot |-> FirstRow({n \in found : Active(current(n))},
                             LAMBDA n : RowDeadline(current(n)), l)]

(* normalize_za_release: a release as published, while its deadline is      *)
(* ahead.                                                                   *)
ETendersRows(found, notices, now) ==
  LET asOf(n) == {m \in notices : m.lot = n.lot /\ m.at <= n.at}
  IN [l \in Lot |-> FirstRow({n \in found : /\ Active(asOf(n))
                                            /\ Future(DeadlineOf(asOf(n)), now)},
                             LAMBDA n : RowDeadline(asOf(n)), l)]

Read(cursor, rows, today) ==
  LET last == LastWindow(cursor, today)
  IN Rows([through |-> last], rows, last = today, Start(cursor, today))

Found(cursor, notices, today) ==
  Published(notices, Start(cursor, today), LastWindow(cursor, today))

DNCPFetch(cursor, notices, today) ==
  Read(cursor, DNCPRows(Found(cursor, notices, today), notices), today)

ETendersFetch(cursor, notices, today) ==
  Read(cursor, ETendersRows(Found(cursor, notices, today), notices, today), today)
=============================================================================
