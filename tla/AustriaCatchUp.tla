--------------------------- MODULE AustriaCatchUp ---------------------------
(***************************************************************************)
(* The Austrian connector (austria_kerndaten_incremental.py over           *)
(* austria_kerndaten.py).  A catalogue names the KDQ feeds of many         *)
(* publishers.  A cycle freezes the list of feeds and a time "through",    *)
(* reads the notices up to it feed by feed, as many in one poll as the     *)
(* budget allows, and keeps its place in the cursor; only when every feed  *)
(* is done does anything become visible.                                   *)
(*                                                                         *)
(* The catalogue, the feeds and the clock are external.  A feed that has   *)
(* left the catalogue can no longer be read.  A poll is one step: nothing  *)
(* is stored before it returns.                                            *)
(***************************************************************************)
EXTENDS Integers, FiniteSets, FiniteSetsExt

CONSTANTS
  NumFeeds, NumItems,     \* feeds, and notices in each
  None,
  Budget,                 \* max_notice_fetches_per_run
  Overlap, Lookback,      \* overlap_hours, initial_lookback_days
  Deadlines,
  MaxClock,               \* bound: time
  MaxPublications,        \* bound: notices published or modified
  MaxFailures,            \* bound: polls in which a feed cannot be read
  MaxRetired              \* bound: feeds that leave the catalogue

Feed == 1 .. NumFeeds          \* KDQ URLs, in their order

ItemId == 1 .. NumItems

Lot == Feed \X ItemId          \* external_id: one lot for each notice

VARIABLES
  clock,
  catalog,      \* the feeds the official catalogue names
  feeds,        \* the notices each feed lists
  cursor,
  listed,       \* the lots shown as open
  polls,        \* the parity of the number of polls
  faults

vars == <<clock, catalog, feeds, cursor, listed, polls, faults>>

Item == [lastmod : Nat, deadline : Int \cup {None}]

State == [updated : Nat, deadline : Int \cup {None}, visible : BOOLEAN]

States == [Lot -> State \cup {None}]

(* The place reached in one feed.                                           *)
Progress == [from : Int, after : Int, done : BOOLEAN]

CatchUp == [through : Nat, kdqs : [Feed -> Progress \cup {None}], pending : States]

Cursor ==
  [observed : Nat \cup {None},                    \* observed_through
   kdq_observed : [Feed -> Nat \cup {None}],
   tracked : States,
   catchup : CatchUp \cup {None}]

ASSUME AustriaAssumption ==
  /\ NumFeeds \in Nat /\ NumItems \in Nat /\ Budget \in Nat \ {0}
  /\ Overlap \in Nat \ {0} /\ Lookback \in Nat
  /\ Overlap <= Lookback                    \* 48 hours, 60 days
  /\ Deadlines \subseteq Int \cup {None}
  /\ None \notin Int \cup Item \cup State \cup Progress \cup CatchUp
  /\ MaxClock \in Nat /\ MaxPublications \in Nat /\ MaxFailures \in Nat
  /\ MaxRetired \in Nat

TypeOK ==
  /\ clock \in 0 .. MaxClock
  /\ catalog \subseteq Feed
  /\ feeds \in [Feed -> [ItemId -> Item \cup {None}]]
  /\ cursor \in Cursor
  /\ listed \subseteq Lot
  /\ polls \in {0, 1}
  /\ faults \in [published : Nat, failures : Nat, retired : Nat]

EmptyStates == [l \in Lot |-> None]

Init ==
  /\ clock = 0
  /\ catalog = Feed
  /\ feeds = [f \in Feed |-> [i \in ItemId |-> None]]
  /\ cursor = [observed |-> None, kdq_observed |-> [f \in Feed |-> None],
               tracked |-> EmptyStates, catchup |-> None]
  /\ listed = {}
  /\ polls = 0
  /\ faults = [published |-> 0, failures |-> 0, retired |-> 0]

-----------------------------------------------------------------------------
(* The publishers (external).                                               *)

Tick ==
  /\ clock < MaxClock
  /\ clock' = clock + 1
  /\ UNCHANGED <<catalog, feeds, cursor, listed, polls, faults>>

(* A notice is published or modified.                                       *)
Publish(f, i, deadline) ==
  /\ f \in catalog
  /\ faults.published < MaxPublications
  /\ feeds' = [feeds EXCEPT ![f][i] = [lastmod |-> clock, deadline |-> deadline]]
  /\ faults' = [faults EXCEPT !.published = @ + 1]
  /\ UNCHANGED <<clock, catalog, cursor, listed, polls>>

Retire(f) ==
  /\ f \in catalog /\ catalog # {f}
  /\ faults.retired < MaxRetired
  /\ catalog' = catalog \ {f}
  /\ faults' = [faults EXCEPT !.retired = @ + 1]
  /\ UNCHANGED <<clock, feeds, cursor, listed, polls>>

-----------------------------------------------------------------------------
(* One poll.                                                                *)

Future(deadline) == deadline # None /\ deadline > clock

(* The order items are read in: by lastmod, then by id.                     *)
Key(lastmod, i) == lastmod * (NumItems + 1) + i

(* A cycle starts in a feed before every item ("after" is -1).              *)
NewProgress(f) ==
  [from |-> IF cursor.kdq_observed[f] = None THEN clock - Lookback
            ELSE cursor.kdq_observed[f] - Overlap,
   after |-> -1, done |-> FALSE]

FaultyNewCatchUp ==                       \* a horizon behind the clock
  [through |-> clock - 1,
   kdqs |-> [f \in Feed |-> IF f \in catalog THEN NewProgress(f) ELSE None],
   pending |-> cursor.tracked]

NewCatchUp ==
  [through |-> clock,
   kdqs |-> [f \in Feed |-> IF f \in catalog THEN NewProgress(f) ELSE None],
   pending |-> cursor.tracked]

Merge(current, incoming) ==
  IF current = None THEN incoming
  ELSE IF incoming.updated >= current.updated
       THEN [incoming EXCEPT !.visible = current.visible \/ incoming.visible]
       ELSE [current EXCEPT !.visible = current.visible \/ incoming.visible]

FaultySelected(f, progress, through) ==   \* the checkpoint is not used
  {i \in ItemId : /\ feeds[f][i] # None
                  /\ feeds[f][i].lastmod \in progress.from .. through}

(* The items of a feed that the cycle still has to read.                    *)
Selected(f, progress, through) ==
  {i \in ItemId :
     LET item == feeds[f][i] IN
     /\ item # None
     /\ progress.from <= item.lastmod /\ item.lastmod <= through
     /\ Key(item.lastmod, i) > progress.after}

Place(f, i) == Key(feeds[f][i].lastmod, i)

(* The first n of some items of a feed.                                     *)
FirstOf(items, f, n) ==
  {i \in items : Cardinality({j \in items : Place(f, j) < Place(f, i)}) < n}

(* A feed is read within what is left of the budget.  It fails after some   *)
(* of its items (fail), or not at all (None).                               *)
FaultyReadFeed(catchup, f, left, fail) == \* done when the budget is spent
  LET progress == catchup.kdqs[f]
      batch == FirstOf(Selected(f, progress, catchup.through), f, left)
  IN IF progress = None \/ progress.done \/ left = 0 \/ fail # None
     THEN [items |-> {}, done |-> FALSE]
     ELSE [items |-> batch, done |-> TRUE]

ReadFeed(catchup, f, left, fail) ==
  LET progress == catchup.kdqs[f]
      selected == Selected(f, progress, catchup.through)
      batch == FirstOf(selected, f, left)
      failed == fail # None /\ (fail = 0 \/ fail < Cardinality(batch))
  IN IF progress = None \/ progress.done \/ left = 0
     THEN [items |-> {}, done |-> FALSE]
     ELSE [items |-> IF failed THEN FirstOf(batch, f, fail) ELSE batch,
           done |-> ~failed /\ batch = selected]

(* The cycle's place in a feed, and the states, after that.                 *)
Reached(progress, f, read) ==
  [progress EXCEPT
     !.after = IF read.items = {} THEN @ ELSE Max({Place(f, i) : i \in read.items}),
     !.done = @ \/ read.done]

Hydrated(pending, read) ==
  [l \in Lot |->
     LET item == feeds[l[1]][l[2]] IN
     IF l[2] \notin read[l[1]].items THEN pending[l]
     ELSE Merge(pending[l], [updated |-> item.lastmod, deadline |-> item.deadline,
                             visible |-> FALSE])]

(* What a complete cycle makes visible.                                     *)
Reconciled(baseline, pending) ==
  [l \in Lot |->
     LET incoming == IF pending[l] = None THEN baseline[l]
                     ELSE Merge(baseline[l], pending[l])
         visible == baseline[l] # None /\ baseline[l].visible
     IN IF incoming = None THEN None
        ELSE IF Future(incoming.deadline) THEN [incoming EXCEPT !.visible = TRUE]
        ELSE IF visible /\ incoming.deadline = None THEN [incoming EXCEPT !.visible = TRUE]
        ELSE None]

(* The observations: opened or changed lots, and tombstones.                *)
Opened(tracked) ==
  {l \in Lot : tracked[l] # None /\ Future(tracked[l].deadline)
               /\ tracked[l] # cursor.tracked[l]}

FaultyClosed(tracked) ==                  \* what is no longer tracked is forgotten
  {l \in Lot : /\ cursor.tracked[l] # None /\ cursor.tracked[l].visible
               /\ tracked[l] # None /\ ~Future(tracked[l].deadline)}

Closed(tracked) ==
  {l \in Lot : /\ cursor.tracked[l] # None /\ cursor.tracked[l].visible
               /\ tracked[l] = None \/ ~Future(tracked[l].deadline)}

(* The feeds are read in turn: left[f] is what feed f leaves of the budget. *)
(* The cursor is unchanged when a poll raises: every feed left to read      *)
(* failed.                                                                  *)
Poll(fails) ==
  LET catchup == IF cursor.catchup = None THEN NewCatchUp ELSE cursor.catchup IN
  \E left \in [0 .. NumFeeds -> 0 .. Budget] :
    LET read == [f \in Feed |-> ReadFeed(catchup, f, left[f - 1], fails[f])]
        kdqs == [f \in Feed |-> IF catchup.kdqs[f] = None THEN None
                                ELSE Reached(catchup.kdqs[f], f, read[f])]
        pending == Hydrated(catchup.pending, read)
        observed == [f \in Feed |-> IF read[f].done THEN catchup.through
                                    ELSE cursor.kdq_observed[f]]
        incomplete == \E f \in Feed : kdqs[f] # None /\ ~kdqs[f].done
        moved == \E f \in Feed : read[f].done \/ read[f].items # {}
        tracked == Reconciled(cursor.tracked, pending)
    IN /\ left[0] = Budget
       /\ \A f \in Feed : left[f] = left[f - 1] - Cardinality(read[f].items)
       /\ IF incomplete
          THEN /\ cursor' = IF moved
                            THEN [cursor EXCEPT !.kdq_observed = observed,
                                    !.catchup = [catchup EXCEPT !.kdqs = kdqs,
                                                                !.pending = pending]]
                            ELSE cursor
               /\ UNCHANGED listed
          ELSE /\ cursor' = [observed |-> catchup.through, kdq_observed |-> observed,
                             tracked |-> tracked, catchup |-> None]
               /\ listed' = (listed \cup Opened(tracked)) \ Closed(tracked)
       /\ polls' = 1 - polls

(* Feeds that are gone fail; another one may, after some of its items.      *)
PollAny ==
  /\ \E fails \in [Feed -> ItemId \cup {0, None}] :
       LET failing == {f \in catalog : fails[f] # None} IN
       /\ \A f \in Feed \ catalog : fails[f] = 0
       /\ Cardinality(failing) <= 1
       /\ faults.failures + Cardinality(failing) <= MaxFailures
       /\ faults' = [faults EXCEPT !.failures = @ + Cardinality(failing)]
       /\ Poll(fails)
  /\ UNCHANGED <<clock, catalog, feeds>>

Next ==
  \/ Tick
  \/ \E f \in Feed, i \in ItemId, d \in Deadlines : Publish(f, i, d)
  \/ \E f \in Feed : Retire(f)
  \/ PollAny

Spec == Init /\ [][Next]_vars

(* The background loop polls again and again.                               *)
Polled == polls' = 1 - polls

FairSpec == Spec /\ WF_polls(Polled)

-----------------------------------------------------------------------------
(* The checkpoint never runs ahead: what lies behind a feed's place in the  *)
(* cycle, and was there when the cycle was frozen, has been read ("resumes  *)
(* without skips", austria_kerndaten_incremental.py:11).                    *)
NothingSkipped ==
  cursor.catchup # None =>
    \A f \in Feed, i \in ItemId :
      LET c == cursor.catchup
          p == c.kdqs[f]
          item == feeds[f][i]
      IN (/\ p # None /\ item # None
          /\ p.from <= item.lastmod /\ item.lastmod < c.through
          /\ p.done \/ Key(item.lastmod, i) <= p.after)
         => /\ c.pending[<<f, i>>] # None
            /\ c.pending[<<f, i>>].updated = item.lastmod
            /\ c.pending[<<f, i>>].deadline = item.deadline

(* A finished cycle shows what the feeds said when it was frozen: a lot     *)
(* with a future deadline is listed, one whose deadline has passed, or is   *)
(* gone, is not ("only the final reconciled snapshot becomes visible",      *)
(* lines 12-13).  Only notices within the first look back are known.        *)
SnapshotIsTrue ==
  [][cursor'.catchup = None /\ cursor' # cursor =>
       \A f \in Feed, i \in ItemId :
         LET item == feeds[f][i]
             known == /\ item # None /\ item.lastmod < cursor'.observed
                      /\ cursor'.kdq_observed[f] = cursor'.observed
                      /\ \/ cursor.kdq_observed[f] # None
                            /\ item.lastmod >= cursor.kdq_observed[f] - Overlap
                         \/ item.lastmod >= cursor'.observed - Lookback
         IN known => (<<f, i>> \in listed' <=> Future(item.deadline))]_vars

(* Every cycle ends, so that a national snapshot becomes visible again and  *)
(* again ("partial catch-up state is persisted in the cursor and resumes",  *)
(* line 11).  Only while no feed is retired: a cycle that waits for a feed  *)
(* that has left the catalogue waits for ever, as the catalogue is not read *)
(* again before it ends (lines 276-279).                                    *)
CyclesEnd == []<>(cursor.catchup = None \/ faults.retired > 0)
=============================================================================
