------------------------------- MODULE SIMAP --------------------------------
(***************************************************************************)
(* The SIMAP connector of Switzerland (switzerland_simap.py): a search for *)
(* projects whose newest publication is a tender of the window, and the    *)
(* header of each project found or tracked, with its latest publication.   *)
(* Calls are made before 08:00, so a tender may be shown from the day      *)
(* after its publication.  More projects than one call may hydrate, or a   *)
(* search that does not end, raise and nothing changes.                    *)
(***************************************************************************)
EXTENDS PublicRegister

CONSTANT HydrationLimit   \* max_project_hydrations_per_sync

Kinds == {"tender", "close", "leave"}

Cursor == [through : Int, tracked : SUBSET Lot]      \* tracked_targets

(* The header's latestPublication.                                          *)
Latest(notices, l) == Newest({n \in notices : n.lot = l})

(* Released: the legal release of the publication day has passed.           *)
Status(n, today) ==
  IF n.kind # "tender" THEN "inactive"
  ELSE IF n.day >= today THEN "legal_release_pending"
  ELSE IF n.deadline = None THEN "deadline_missing"
  ELSE IF Elapsed(n.deadline, today) THEN "deadline_expired"
  ELSE "active"

WindowStart(cursor, today) ==
  IF cursor = None THEN today - Lookback ELSE cursor.through - Overlap

Search(notices, first, today) ==
  {l \in Lot :
     \E n \in notices : /\ n.lot = l /\ n = Latest(notices, l) /\ n.kind = "tender"
                        /\ first <= n.day /\ n.day <= today}

(* The targets a header still shows.                                        *)
HeaderTargets(notices, projects) ==
  {l \in projects : Latest(notices, l).kind # "leave"}

Observed(notices, projects, targets, today) ==
  [l \in Lot |->
     IF l \notin projects THEN "none"
     ELSE IF l \in targets /\ Status(Latest(notices, l), today) = "active" THEN "open"
     ELSE "closed"]

NextTracked(notices, targets, today) ==
  {l \in targets : Status(Latest(notices, l), today)
                     \in {"active", "legal_release_pending", "deadline_missing"}}

Projects(cursor, notices, today) ==
  Search(notices, WindowStart(cursor, today), today)
    \cup (IF cursor = None THEN {} ELSE cursor.tracked)

Raises(cursor, notices, today) ==
  Cardinality(Projects(cursor, notices, today)) > HydrationLimit

Fetch(cursor, notices, today) ==
  LET projects == Projects(cursor, notices, today)
      targets == HeaderTargets(notices, projects)
  IN Result([through |-> today, tracked |-> NextTracked(notices, targets, today)],
            Observed(notices, projects, targets, today), TRUE,
            WindowStart(cursor, today))
=============================================================================
