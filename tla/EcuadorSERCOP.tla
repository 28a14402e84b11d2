---------------------------- MODULE EcuadorSERCOP ---------------------------
(***************************************************************************)
(* The Ecuadorian SERCOP connector (ecuador_sercop.py) over the monthly    *)
(* bulk files (ocds_bulk_adapter.py).  Each call reads the present month   *)
(* and the Overlap months before it, whatever was read before, and looks   *)
(* up every works process in them and every process still under            *)
(* observation, "so a tender cannot remain falsely open".  Time is counted *)
(* in months.  An outage of more than Overlap months is not caught up.     *)
(***************************************************************************)
EXTENDS PublicRegister

Kinds == {"tender", "close", "reopen", "correct"}

Cursor == [through : Nat, tracked : SUBSET Lot]      \* OCDSMonthlyBulkCursor

(* _periods *)
FirstPeriod(now) == now - Overlap

(* _candidate_ocids *)
Discovered(notices, now) == {n.lot : n \in {m \in notices : m.day >= FirstPeriod(now)}}

Tracked(cursor) == IF cursor = None THEN {} ELSE cursor.tracked

(* _deadline_state of a process's current record.                           *)
Actionable(ns, now) ==
  Newest(ns).kind # "close" /\ Dated(ns) # {} /\ Future(DeadlineOf(ns), now)

Fetch(cursor, notices, now) ==
  LET lookedUp == Discovered(notices, now) \cup Tracked(cursor)
      open == {l \in lookedUp : Actionable({n \in notices : n.lot = l}, now)}
  IN Result([through |-> now, tracked |-> open],
            [l \in Lot |-> IF l \in open THEN "open"
                           ELSE IF l \in lookedUp THEN "closed" ELSE "none"],
            TRUE, FirstPeriod(now))

(* Months passed that no call will read.                                    *)
Gap(cursor, now) == cursor # None /\ cursor.through < FirstPeriod(now)
=============================================================================
