--------------------------- MODULE PublicRegister ---------------------------
(***************************************************************************)
(* What the national procurement connectors share: the notices a public    *)
(* register publishes about its lots, and what a connector returns for one *)
(* call of fetch_incremental.  Each connector is a module of its own with  *)
(* the cursor it keeps, the way it applies a notice and its Fetch.         *)
(*                                                                         *)
(* The register is external.  Time is counted in the unit the connector    *)
(* reads by (a day, a minute window, a month).  A notice is ordered by its *)
(* publication time, "at", which is a day and a serial number; no two have *)
(* the same.  Absent dictionary entries, empty fields and a missing cursor *)
(* are None.                                                               *)
(***************************************************************************)
EXTENDS Integers, FiniteSets

CONSTANTS
  Lot,        \* what the register publishes notices about
  None,
  Overlap,    \* units read again before new ones (overlap_days, ...)
  Budget,     \* units read in one call (max_days_per_sync, ...)
  Lookback    \* units read by the first call (initial_lookback_days, ...)

ASSUME RegisterAssumption ==
  /\ Overlap \in Nat \ {0} /\ Lookback \in Nat \ {0}
  /\ Budget \in Nat /\ Budget > 2 * Overlap

(* Kinds of notice: a tender; one that ends it; one that ends it because it *)
(* is no longer public works; one that reopens it; one that changes its     *)
(* deadline.                                                                *)
Kind == {"tender", "close", "leave", "reopen", "correct"}

Notice ==
  [lot : Lot, kind : Kind, deadline : Int \cup {None}, day : Nat, at : Nat]

Future(deadline, now) == deadline # None /\ deadline > now

Elapsed(deadline, now) == deadline # None /\ deadline <= now

(* The system has shown the lot as open (was_visible).                      *)
Visible(state) == state # None /\ state.visible

(* The notices of the days from first to last.                              *)
Published(notices, first, last) ==
  {n \in notices : first <= n.day /\ n.day <= last}

Newest(ns) == CHOOSE n \in ns : \A o \in ns : o.at <= n.at

Oldest(ns) == CHOOSE n \in ns : \A o \in ns : n.at <= o.at

(* The state after some notices are applied one by one, Last(k) being the   *)
(* one of k that comes after the others.                                    *)
Replay(Apply(_, _), Last(_), before, ns) ==
  LET after[k \in SUBSET ns] ==
        IF k = {} THEN before
        ELSE LET n == Last(k) IN Apply(after[k \ {n}], n)
  IN after[ns]

Absent == [l \in Lot |-> None]

Known(states) == {l \in Lot : states[l] # None}

(* The newest deadline a lot was given.                                     *)
Dated(ns) == {n \in ns : n.kind \in {"tender", "correct"}}

DeadlineOf(ns) == Newest(Dated(ns)).deadline

(* What a connector tells the rest of the system about a lot.               *)
Silent == [l \in Lot |-> "none"]

(* One call's result: the new cursor, an observation per lot, whether the   *)
(* register has been read up to its present, and the first unit read.       *)
Result(cursor, seen, done, first) ==
  [cursor |-> cursor, seen |-> seen, done |-> done, first |-> first]

(* The result of a connector that gives rows without a lifecycle: "until"   *)
(* is the deadline a lot's row carries, None when it has no row.            *)
Rows(cursor, until, done, first) ==
  [cursor |-> cursor, until |-> until, done |-> done, first |-> first]

(* A row with an empty deadline is shown for good (actionable_predicate).   *)
Undated == 1000

(* dedupe_records: of the rows one call gives for a lot, here the notices   *)
(* that become a row, the first is kept.                                    *)
FirstRow(rows, Until(_), l) ==
  LET mine == {n \in rows : n.lot = l}
  IN IF mine = {} THEN None ELSE Until(Oldest(mine))

LesserOf(a, b) == IF a <= b THEN a ELSE b

GreaterOf(a, b) == IF a >= b THEN a ELSE b
=============================================================================
