-------------------------------- MODULE USSam -------------------------------
(***************************************************************************)
(* The SAM.gov connector (us_sam.py): a daily file of the active notices,  *)
(* read when its ETag has changed.  Every construction notice in it is     *)
(* observed; of one that is no longer in it nothing is said.  A file       *)
(* without a construction notice, or with other columns, raises.           *)
(***************************************************************************)
EXTENDS PublicRegister

Kinds == {"tender", "close", "correct"}

Cursor == [version : Int]                    \* SAMCursor: etag, last_modified

(* The file made when the day began: active notices.                        *)
ActiveFile(notices, today) ==
  LET made == {n \in notices : n.day < today}
  IN {l \in {n.lot : n \in made} : Newest({n \in made : n.lot = l}).kind # "close"}

(* _observation: no deadline, or one that is ahead.                         *)
Actionable(notices, l, today) ==
  ~Elapsed(DeadlineOf({n \in notices : n.lot = l /\ n.day < today}), today)

Observed(notices, today) ==
  [l \in Lot |-> IF l \notin ActiveFile(notices, today) THEN "none"
                 ELSE IF Actionable(notices, l, today) THEN "open" ELSE "closed"]

NotModified(cursor, today) == cursor # None /\ cursor.version = today

Raises(cursor, notices, today) ==
  ~NotModified(cursor, today) /\ ActiveFile(notices, today) = {}

Fetch(cursor, notices, today) ==
  IF NotModified(cursor, today)
  THEN Result(cursor, Silent, TRUE, 0)
  ELSE Result([version |-> today], Observed(notices, today), TRUE, 0)
=============================================================================
