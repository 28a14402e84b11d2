------------------------- MODULE AustriaCatchUpProofs -------------------------
(***************************************************************************)
(* Proofs about AustriaCatchUp, for any number of feeds, notices, polls    *)
(* and failures.                                                           *)
(*                                                                         *)
(* NothingSkipped: a poll reads the first items behind a feed's place, and *)
(* moves the place to the last of them.  What changes meanwhile is newer   *)
(* than the cycle's horizon.                                               *)
(*                                                                         *)
(* SnapshotIsTrue: what a notice said when it was read last stays true     *)
(* until it is modified (Current); a lot the system forgets had no future  *)
(* deadline, and never will have one again unless it is modified; and what *)
(* is shown as open is what is tracked and may be visible (ListedIsTracked)*)
(***************************************************************************)
EXTENDS AustriaCatchUp, FiniteSetTheorems, WellFoundedInduction, TLAPS

(* What is known of a notice is what it says, or it is forgotten because    *)
(* its deadline was not ahead.                                              *)
Agrees(state, item) ==
  IF state = None THEN ~Future(item.deadline) ELSE state.deadline = item.deadline

(* No state is newer than its notice.                                       *)
Sourced(states) ==
  \A f \in Feed, i \in ItemId : states[<<f, i>>] # None =>
    feeds[f][i] # None /\ states[<<f, i>>].updated <= feeds[f][i].lastmod

(* The states agree with the notices of a look back before the time a feed  *)
(* was read to.                                                             *)
Current(states, observed) ==
  \A f \in Feed, i \in ItemId :
    /\ observed[f] # None /\ feeds[f][i] # None
    /\ observed[f] - Lookback <= feeds[f][i].lastmod /\ feeds[f][i].lastmod < observed[f]
    => Agrees(states[<<f, i>>], feeds[f][i])

(* An item lies behind a feed's place in a cycle.                           *)
Passed(c, f, i) ==
  /\ c.kdqs[f] # None /\ feeds[f][i] # None
  /\ c.kdqs[f].from <= feeds[f][i].lastmod /\ feeds[f][i].lastmod < c.through
  /\ c.kdqs[f].done \/ Key(feeds[f][i].lastmod, i) <= c.kdqs[f].after

Taken(c, f, i) ==
  /\ c.pending[<<f, i>>] # None
  /\ c.pending[<<f, i>>].updated = feeds[f][i].lastmod
  /\ c.pending[<<f, i>>].deadline = feeds[f][i].deadline

(* A cycle under way, with what the cursor keeps next to it.                *)
CycleOK(c, observed, tracked) ==
  /\ c \in CatchUp /\ c.through <= clock
  /\ \A f \in Feed : observed[f] # None => observed[f] <= c.through
  /\ \A f \in Feed : c.kdqs[f] # None =>
       IF c.kdqs[f].done THEN observed[f] = c.through
       ELSE c.kdqs[f].from = IF observed[f] = None THEN c.through - Lookback
                             ELSE observed[f] - Overlap
  /\ \A l \in Lot : tracked[l] # None =>
       c.pending[l] # None /\ tracked[l].updated <= c.pending[l].updated
  /\ \A f \in Feed, i \in ItemId : Passed(c, f, i) => Taken(c, f, i)
  /\ Sourced(c.pending) /\ Current(c.pending, observed)

(* What is shown as open is tracked as visible, and the other way round     *)
(* while the deadline is ahead.                                             *)
ListedIsTracked ==
  \A l \in Lot :
    /\ l \in listed => cursor.tracked[l] # None /\ cursor.tracked[l].visible
    /\ cursor.tracked[l] # None /\ Future(cursor.tracked[l].deadline) => l \in listed

Dated ==
  \A f \in Feed, i \in ItemId : feeds[f][i] # None => feeds[f][i].lastmod <= clock

IInv ==
  /\ TypeOK /\ Dated /\ ListedIsTracked
  /\ \A f \in Feed : cursor.kdq_observed[f] # None => cursor.kdq_observed[f] <= clock
  /\ IF cursor.catchup = None
     THEN Sourced(cursor.tracked) /\ Current(cursor.tracked, cursor.kdq_observed)
     ELSE CycleOK(cursor.catchup, cursor.kdq_observed, cursor.tracked)
-----------------------------------------------------------------------------
(* Places in a feed.                                                        *)

(* A cycle starts before all items.                                         *)
LEMMA KeyType ==
  ASSUME AustriaAssumption, NEW n \in Nat, NEW i \in ItemId
  PROVE  Key(n, i) \in Int /\ Key(n, i) > -1
<1>1. NumItems + 1 \in Nat /\ i \in Nat
  BY DEF AustriaAssumption, ItemId
<1>2. n * (NumItems + 1) \in Nat
  BY <1>1
<1> QED  BY <1>1, <1>2 DEF Key

LEMMA ItemType ==
  ASSUME AustriaAssumption, TypeOK, NEW f \in Feed, NEW i \in ItemId, feeds[f][i] # None
  PROVE  /\ feeds[f][i] \in Item /\ feeds[f][i].lastmod \in Nat
         /\ feeds[f][i].deadline \in Int \cup {None}
         /\ Key(feeds[f][i].lastmod, i) \in Int /\ Key(feeds[f][i].lastmod, i) > -1
<1>1. feeds[f][i] \in Item
  BY DEF TypeOK
<1>2. feeds[f][i].lastmod \in Nat /\ feeds[f][i].deadline \in Int \cup {None}
  BY <1>1 DEF Item
<1> QED  BY <1>1, <1>2, KeyType

(* The largest of finitely many numbers: of the sets of those that are      *)
(* larger than one of them, a smallest one is empty.                        *)
LEMMA MaxOfFinite ==
  ASSUME NEW S \in SUBSET Int, IsFiniteSet(S), S # {}
  PROVE  Max(S) \in S /\ \A x \in S : Max(S) >= x
<1> DEFINE above(x) == {y \in S : y > x}
           T == {above(x) : x \in S}
           R == StrictSubsetOrdering(S)
<1>1. IsWellFoundedOn(R, SUBSET S)
  BY FS_StrictSubsetOrderingWellFounded, FS_FiniteSubsetsOfFinite
<1>2. T \subseteq SUBSET S /\ T # {}
  OBVIOUS
<1>3. \A t, u \in SUBSET S : t \subseteq u /\ t # u => <<t, u>> \in R
  BY DEF StrictSubsetOrdering
<1> HIDE DEF R
<1>4. PICK t \in T : \A u \in T : ~(<<u, t>> \in R)
  <2> HIDE DEF T
  <2> QED  BY <1>1, <1>2, WFMin
<1>5. PICK x \in S : t = above(x)
  OBVIOUS
<1>6. \A y \in S : ~(y > x)
  <2> SUFFICES ASSUME NEW y \in S, y > x PROVE FALSE
    OBVIOUS
  <2>1. above(y) \subseteq above(x) /\ above(y) # above(x)
    <3>1. y \in above(x) /\ y \notin above(y)
      BY <2>1
    <3>2. \A z \in above(y) : z \in above(x)
      OBVIOUS
    <3> QED  BY <3>1, <3>2
  <2>2. above(y) \in T /\ above(y) \in SUBSET S /\ above(x) \in SUBSET S
    OBVIOUS
  <2> QED  BY <1>3, <1>4, <1>5, <2>1, <2>2
<1>7. \E m \in S : \A y \in S : m >= y
  BY <1>6
<1> QED  BY <1>7 DEF Max

(* Whoever comes before one of the first n is one of them.                  *)
LEMMA FirstOfIsInitial ==
  ASSUME AustriaAssumption, TypeOK, NEW f \in Feed, NEW n \in Nat,
         NEW items \in SUBSET ItemId, \A i \in items : feeds[f][i] # None,
         NEW i \in items, NEW j \in FirstOf(items, f, n), Place(f, i) <= Place(f, j)
  PROVE  i \in FirstOf(items, f, n)
<1> DEFINE before(k) == {m \in items : Place(f, m) < Place(f, k)}
<1>1. \A k \in items : Place(f, k) \in Int
  BY ItemType DEF Place
<1>2. j \in items /\ Cardinality(before(j)) < n
  BY DEF FirstOf
<1>3. before(i) \subseteq before(j)
  BY <1>1, <1>2
<1>4. IsFiniteSet(before(j))
  <2>1. IsFiniteSet(ItemId)
    BY FS_Interval DEF ItemId, AustriaAssumption
  <2>2. before(j) \subseteq ItemId
    OBVIOUS
  <2> QED  BY <2>1, <2>2, FS_Subset
<1>5. Cardinality(before(i)) <= Cardinality(before(j))
  BY <1>3, <1>4, FS_Subset
<1>6. Cardinality(before(i)) \in Nat /\ Cardinality(before(j)) \in Nat
  BY <1>3, <1>4, FS_Subset, FS_CardinalityType
<1>7. Cardinality(before(i)) < n
  BY <1>2, <1>5, <1>6
<1> QED  BY <1>7 DEF FirstOf

-----------------------------------------------------------------------------
(* What a poll reads of a feed: the first items behind its place, all of    *)
(* them when the feed is done, or nothing.                                  *)
ReadOK(c, f, read) ==
  LET selected == Selected(f, c.kdqs[f], c.through) IN
  /\ read.items \subseteq ItemId /\ read.done \in BOOLEAN
  /\ \/ read.items = {} /\ ~read.done
     \/ /\ c.kdqs[f] # None /\ ~c.kdqs[f].done
        /\ read.items \subseteq selected
        /\ \A i \in selected, j \in read.items :
             Place(f, i) <= Place(f, j) => i \in read.items
        /\ read.done => read.items = selected

LEMMA ReadShape ==
  ASSUME AustriaAssumption, TypeOK, NEW c \in CatchUp, NEW f \in Feed, NEW left \in Nat,
         NEW fail \in ItemId \cup {0, None}
  PROVE  ReadOK(c, f, ReadFeed(c, f, left, fail))
<1> DEFINE p == c.kdqs[f]
           selected == Selected(f, p, c.through)
           batch == FirstOf(selected, f, left)
           failed == fail # None /\ (fail = 0 \/ fail < Cardinality(batch))
           items == IF failed THEN FirstOf(batch, f, fail) ELSE batch
           read == ReadFeed(c, f, left, fail)
<1>1. CASE p = None \/ p.done \/ left = 0
  BY <1>1 DEF ReadFeed, ReadOK
<1>2. CASE ~(p = None \/ p.done \/ left = 0)
  <2>1. read = [items |-> items, done |-> ~failed /\ batch = selected]
    BY <1>2 DEF ReadFeed
  <2>2. selected \subseteq ItemId /\ \A i \in selected : feeds[f][i] # None
    BY DEF Selected
  <2>3. batch \subseteq selected /\ FirstOf(batch, f, fail) \subseteq batch
    BY DEF FirstOf
  <2>4. failed => fail \in Nat
    BY DEF ItemId
  <2> HIDE DEF batch, selected, failed
  <2>5. ASSUME NEW i \in selected, NEW j \in batch, Place(f, i) <= Place(f, j)
        PROVE  i \in batch
    BY <2>2, <2>5, FirstOfIsInitial DEF batch
  <2>6. ASSUME failed, NEW i \in batch, NEW j \in FirstOf(batch, f, fail),
               Place(f, i) <= Place(f, j)
        PROVE  i \in FirstOf(batch, f, fail)
    BY <2>2, <2>3, <2>4, <2>6, FirstOfIsInitial
  <2>7. \A i \in selected, j \in items : Place(f, i) <= Place(f, j) => i \in items
    BY <2>3, <2>5, <2>6
  <2>8. items \subseteq selected /\ (~failed /\ batch = selected => items = selected)
    BY <2>3
  <2> HIDE DEF items
  <2>9. read.items = items /\ read.done = (~failed /\ batch = selected)
    BY <2>1
  <2> HIDE DEF read
  <2>10. ReadOK(c, f, read)
    <3> USE DEF selected
    <3>1. read.items \subseteq ItemId /\ read.done \in BOOLEAN
      BY <2>2, <2>8, <2>9
    <3>2. read.items \subseteq selected /\ (read.done => read.items = selected)
      BY <2>8, <2>9
    <3>3. \A i \in selected, j \in read.items : Place(f, i) <= Place(f, j) => i \in read.items
      BY <2>7, <2>9
    <3> QED  BY <1>2, <3>1, <3>2, <3>3 DEF ReadOK
  <2> QED  BY <2>10 DEF read
<1> QED  BY <1>1, <1>2

(* The place after that: no item between the old one and the new is left    *)
(* out.                                                                     *)
LEMMA ReachedShape ==
  ASSUME AustriaAssumption, TypeOK, NEW c \in CatchUp, NEW f \in Feed, c.kdqs[f] # None,
         NEW read, ReadOK(c, f, read)
  PROVE  LET p == c.kdqs[f]
             q == Reached(p, f, read)
         IN /\ p \in Progress /\ q \in Progress /\ q.from = p.from
            /\ q.done <=> p.done \/ read.done
            /\ \A i \in ItemId :
                 /\ feeds[f][i] # None
                 /\ p.from <= feeds[f][i].lastmod /\ feeds[f][i].lastmod <= c.through
                 /\ q.done \/ Key(feeds[f][i].lastmod, i) <= q.after
                 => \/ i \in read.items
                    \/ p.done \/ Key(feeds[f][i].lastmod, i) <= p.after
<1> DEFINE p == c.kdqs[f]
           q == Reached(p, f, read)
           selected == Selected(f, p, c.through)
           places == {Place(f, i) : i \in read.items}
<1>1. p \in Progress /\ p.from \in Int /\ p.after \in Int /\ p.done \in BOOLEAN
  BY DEF CatchUp, Progress
<1>2. read.items \subseteq ItemId /\ read.done \in BOOLEAN
  BY DEF ReadOK
<1>3. \A i \in read.items : feeds[f][i] # None /\ Place(f, i) \in Int
  <2>1. \A i \in read.items : feeds[f][i] # None
    BY DEF ReadOK, Selected
  <2> QED  BY <1>2, <2>1, ItemType DEF Place
<1>4. read.items # {} => Max(places) \in places /\ Max(places) \in Int
  <2>1. IsFiniteSet(read.items)
    <3>1. IsFiniteSet(ItemId)
      BY FS_Interval DEF ItemId, AustriaAssumption
    <3> QED  BY <1>2, <3>1, FS_Subset
  <2>2. IsFiniteSet(places)
    <3> DEFINE g == [i \in read.items |-> Place(f, i)]
    <3>1. g \in Surjection(read.items, places)
      BY DEF Surjection
    <3> HIDE DEF g, places
    <3> QED  BY <2>1, <3>1, FS_Surjection
  <2>3. places \in SUBSET Int
    BY <1>3
  <2> HIDE DEF places
  <2>4. places # {} => Max(places) \in places
    BY <2>2, <2>3, MaxOfFinite
  <2> USE DEF places
  <2> QED  BY <2>3, <2>4
<1>5. /\ q.from = p.from /\ (q.done <=> p.done \/ read.done)
      /\ q.after = IF read.items = {} THEN p.after ELSE Max(places)
      /\ q \in Progress
  BY <1>1, <1>2, <1>4 DEF Reached, Progress
<1>6. ASSUME NEW i \in ItemId, feeds[f][i] # None,
             p.from <= feeds[f][i].lastmod, feeds[f][i].lastmod <= c.through,
             q.done \/ Key(feeds[f][i].lastmod, i) <= q.after,
             i \notin read.items, ~p.done, ~(Key(feeds[f][i].lastmod, i) <= p.after)
      PROVE  FALSE
  <2>1. Key(feeds[f][i].lastmod, i) \in Int /\ Place(f, i) = Key(feeds[f][i].lastmod, i)
    BY <1>6, ItemType DEF Place
  <2>2. i \in selected
    BY <1>1, <1>6, <2>1 DEF Selected
  <2>3. read.items # {} \/ read.done
    BY <1>5, <1>6
  <2>4. /\ \A j \in read.items : ~(Place(f, i) <= Place(f, j))
        /\ ~read.done
    BY <1>6, <2>2, <2>3 DEF ReadOK
  <2>5. PICK j \in read.items : q.after = Place(f, j)
    BY <1>4, <1>5, <2>3, <2>4
  <2> QED  BY <1>5, <1>6, <2>1, <2>4, <2>5
<1> QED  BY <1>1, <1>5, <1>6

-----------------------------------------------------------------------------
(* A poll takes a cycle a little further.                                   *)

LEMMA StateType ==
  ASSUME AustriaAssumption, NEW states \in States, NEW l \in Lot, states[l] # None
  PROVE  /\ states[l] \in State /\ states[l].updated \in Nat
         /\ states[l].deadline \in Int \cup {None} /\ states[l].visible \in BOOLEAN
BY DEF States, State

(* The newer of two states decides.                                         *)
LEMMA MergeShape ==
  ASSUME AustriaAssumption, NEW current \in State \cup {None}, NEW incoming \in State,
         current # None => current.updated <= incoming.updated
  PROVE  /\ Merge(current, incoming) \in State /\ Merge(current, incoming) # None
         /\ Merge(current, incoming).updated = incoming.updated
         /\ Merge(current, incoming).deadline = incoming.deadline
<1>1. None \notin State
  BY DEF AustriaAssumption
<1>2. CASE current = None
  BY <1>1, <1>2 DEF Merge, State
<1>3. CASE current # None
  <2>1. current \in State /\ incoming.updated >= current.updated
    BY <1>3 DEF State
  <2>2. Merge(current, incoming) =
          [incoming EXCEPT !.visible = current.visible \/ incoming.visible]
    BY <1>3, <2>1 DEF Merge
  <2> QED  BY <1>1, <2>1, <2>2 DEF State
<1> QED  BY <1>2, <1>3

(* A notice that was read is in the pending states as it is.                *)
LEMMA HydratedShape ==
  ASSUME AustriaAssumption, TypeOK, NEW c \in CatchUp, Sourced(c.pending),
         NEW read, \A f \in Feed : ReadOK(c, f, read[f])
  PROVE  LET states == Hydrated(c.pending, read) IN
         /\ states \in States
         /\ \A f \in Feed, i \in ItemId :
              IF i \in read[f].items
              THEN /\ states[<<f, i>>] # None
                   /\ states[<<f, i>>].updated = feeds[f][i].lastmod
                   /\ states[<<f, i>>].deadline = feeds[f][i].deadline
                   /\ feeds[f][i] # None
              ELSE states[<<f, i>>] = c.pending[<<f, i>>]
<1> DEFINE states == Hydrated(c.pending, read)
<1>1. c.pending \in States /\ \A l \in Lot : c.pending[l] \in State \cup {None}
  BY DEF CatchUp, States
<1>2. ASSUME NEW f \in Feed, NEW i \in ItemId
      PROVE  /\ states[<<f, i>>] \in State \cup {None}
             /\ IF i \in read[f].items
                THEN /\ states[<<f, i>>] # None
                     /\ states[<<f, i>>].updated = feeds[f][i].lastmod
                     /\ states[<<f, i>>].deadline = feeds[f][i].deadline
                     /\ feeds[f][i] # None
                ELSE states[<<f, i>>] = c.pending[<<f, i>>]
  <2> DEFINE new == [updated |-> feeds[f][i].lastmod, deadline |-> feeds[f][i].deadline,
                     visible |-> FALSE]
  <2>0. <<f, i>> \in Lot /\ <<f, i>>[1] = f /\ <<f, i>>[2] = i
    BY DEF Lot
  <2>1. CASE i \in read[f].items
    <3>1. states[<<f, i>>] = Merge(c.pending[<<f, i>>], new)
      BY <2>0, <2>1 DEF Hydrated
    <3>2. feeds[f][i] # None
      BY <2>1 DEF ReadOK, Selected
    <3>3. new \in State
      BY <3>2, ItemType DEF State
    <3>4. c.pending[<<f, i>>] # None => c.pending[<<f, i>>].updated <= new.updated
      BY DEF Sourced
    <3>5. /\ new.updated = feeds[f][i].lastmod /\ new.deadline = feeds[f][i].deadline
          /\ c.pending[<<f, i>>] \in State \cup {None}
      BY <1>1, <2>0
    <3> HIDE DEF new
    <3> QED  BY <2>1, <3>1, <3>2, <3>3, <3>4, <3>5, MergeShape
  <2>2. CASE i \notin read[f].items
    <3>1. states[<<f, i>>] = c.pending[<<f, i>>]
      BY <2>0, <2>2 DEF Hydrated
    <3> QED  BY <1>1, <2>0, <2>2, <3>1
  <2> QED  BY <2>1, <2>2
<1>3. states \in States
  <2>1. \A l \in Lot : states[l] \in State \cup {None}
    <3> SUFFICES ASSUME NEW l \in Lot PROVE states[l] \in State \cup {None}
      OBVIOUS
    <3>1. PICK f \in Feed, i \in ItemId : l = <<f, i>>
      BY DEF Lot
    <3> HIDE DEF states
    <3> QED  BY <1>2, <3>1
  <2>2. states = [l \in Lot |-> states[l]]
    BY DEF Hydrated
  <2> HIDE DEF states
  <2> QED  BY <2>1, <2>2 DEF States
<1> HIDE DEF states
<1>4. \A f \in Feed, i \in ItemId :
        IF i \in read[f].items
        THEN /\ states[<<f, i>>] # None
             /\ states[<<f, i>>].updated = feeds[f][i].lastmod
             /\ states[<<f, i>>].deadline = feeds[f][i].deadline
             /\ feeds[f][i] # None
        ELSE states[<<f, i>>] = c.pending[<<f, i>>]
  BY <1>2
<1> QED  BY <1>3, <1>4 DEF states

(* The cycle after a poll.                                                  *)
Advanced(c, read) ==
  [c EXCEPT !.kdqs = [f \in Feed |-> IF c.kdqs[f] = None THEN None
                                    ELSE Reached(c.kdqs[f], f, read[f])],
            !.pending = Hydrated(c.pending, read)]

(* When each feed was read to, after a poll.                                *)
Later(c, observed, read) ==
  [f \in Feed |-> IF read[f].done THEN c.through ELSE observed[f]]

LEMMA CycleAdvances ==
  ASSUME AustriaAssumption, TypeOK, NEW c, NEW observed \in [Feed -> Nat \cup {None}],
         NEW tracked \in States, CycleOK(c, observed, tracked),
         NEW read, \A f \in Feed : ReadOK(c, f, read[f]),
         NEW d, d = Advanced(c, read),
         NEW after, after = Later(c, observed, read)
  PROVE  /\ CycleOK(d, after, tracked) /\ d.through = c.through
         /\ after \in [Feed -> Nat \cup {None}]
         /\ \A f \in Feed : read[f].done => c.kdqs[f] # None /\ ~c.kdqs[f].done
         /\ \A f \in Feed : d.kdqs[f] = IF c.kdqs[f] = None THEN None
                                       ELSE Reached(c.kdqs[f], f, read[f])
<1>0. /\ c \in CatchUp /\ c.through \in Nat /\ c.pending \in States
      /\ c.kdqs \in [Feed -> Progress \cup {None}]
      /\ None \notin Progress /\ None \notin Int /\ Lookback \in Nat
      /\ Sourced(c.pending) /\ Current(c.pending, observed)
  BY DEF CycleOK, CatchUp, AustriaAssumption
<1>1. /\ d.through = c.through /\ d.pending = Hydrated(c.pending, read)
      /\ \A f \in Feed : d.kdqs[f] = IF c.kdqs[f] = None THEN None
                                    ELSE Reached(c.kdqs[f], f, read[f])
      /\ DOMAIN d.kdqs = Feed
      /\ d = [through |-> d.through, kdqs |-> d.kdqs, pending |-> d.pending]
      /\ d.kdqs = [f \in Feed |-> d.kdqs[f]]
  BY <1>0 DEF Advanced, CatchUp
<1>2. \A f \in Feed, i \in ItemId :
        IF i \in read[f].items
        THEN Taken(d, f, i) /\ feeds[f][i] # None
        ELSE d.pending[<<f, i>>] = c.pending[<<f, i>>]
  <2>1. \A f \in Feed, i \in ItemId :
          IF i \in read[f].items
          THEN /\ Hydrated(c.pending, read)[<<f, i>>] # None
               /\ Hydrated(c.pending, read)[<<f, i>>].updated = feeds[f][i].lastmod
               /\ Hydrated(c.pending, read)[<<f, i>>].deadline = feeds[f][i].deadline
               /\ feeds[f][i] # None
          ELSE Hydrated(c.pending, read)[<<f, i>>] = c.pending[<<f, i>>]
    BY <1>0, HydratedShape
  <2>2. d.pending = Hydrated(c.pending, read)
    BY <1>1
  <2>3. \A f \in Feed, i \in ItemId :
          IF i \in read[f].items
          THEN /\ d.pending[<<f, i>>] # None
               /\ d.pending[<<f, i>>].updated = feeds[f][i].lastmod
               /\ d.pending[<<f, i>>].deadline = feeds[f][i].deadline
               /\ feeds[f][i] # None
          ELSE d.pending[<<f, i>>] = c.pending[<<f, i>>]
    BY <2>1, <2>2, Zenon
  <2> QED  BY <2>3 DEF Taken
<1>3. d.pending \in States
  BY <1>0, <1>1, HydratedShape
<1>4. ASSUME NEW f \in Feed, c.kdqs[f] # None
      PROVE  /\ d.kdqs[f] \in Progress /\ d.kdqs[f] # None /\ d.kdqs[f].from = c.kdqs[f].from
             /\ d.kdqs[f].done <=> c.kdqs[f].done \/ read[f].done
             /\ \A i \in ItemId :
                  /\ feeds[f][i] # None
                  /\ c.kdqs[f].from <= feeds[f][i].lastmod /\ feeds[f][i].lastmod <= c.through
                  /\ d.kdqs[f].done \/ Key(feeds[f][i].lastmod, i) <= d.kdqs[f].after
                  => \/ i \in read[f].items
                     \/ c.kdqs[f].done \/ Key(feeds[f][i].lastmod, i) <= c.kdqs[f].after
  BY <1>0, <1>1, <1>4, ReachedShape
<1>5. \A f \in Feed : read[f].done => c.kdqs[f] # None /\ ~c.kdqs[f].done
  BY DEF ReadOK
<1>6. /\ DOMAIN after = Feed
      /\ \A f \in Feed : after[f] = IF read[f].done THEN c.through ELSE observed[f]
  BY DEF Later
<1>7. after \in [Feed -> Nat \cup {None}]
  BY <1>0 DEF Later
<1>8. d \in CatchUp
  <2>1. \A f \in Feed : d.kdqs[f] \in Progress \cup {None}
    BY <1>1, <1>4
  <2> QED  BY <1>0, <1>1, <1>3, <2>1 DEF CatchUp
<1>9. \A f \in Feed : after[f] # None => after[f] <= d.through
  BY <1>0, <1>1, <1>6 DEF CycleOK
<1>10. ASSUME NEW f \in Feed, d.kdqs[f] # None
       PROVE  IF d.kdqs[f].done THEN after[f] = d.through
              ELSE d.kdqs[f].from = IF after[f] = None THEN d.through - Lookback
                                    ELSE after[f] - Overlap
  <2>1. c.kdqs[f] # None
    BY <1>1, <1>10
  <2>2. IF c.kdqs[f].done THEN observed[f] = c.through
        ELSE c.kdqs[f].from = IF observed[f] = None THEN c.through - Lookback
                              ELSE observed[f] - Overlap
    BY <2>1 DEF CycleOK
  <2>3. d.kdqs[f].from = c.kdqs[f].from /\ (d.kdqs[f].done <=> c.kdqs[f].done \/ read[f].done)
    BY <1>4, <2>1
  <2>4. CASE read[f].done
    BY <1>1, <1>6, <2>3, <2>4
  <2>5. CASE ~read[f].done
    BY <1>1, <1>6, <2>2, <2>3, <2>5
  <2> QED  BY <2>4, <2>5
<1>11. ASSUME NEW f \in Feed, NEW i \in ItemId, Passed(d, f, i) PROVE Taken(d, f, i)
  <2>1. CASE i \in read[f].items
    BY <1>2, <2>1
  <2>2. CASE i \notin read[f].items
    <3>1. c.kdqs[f] # None /\ feeds[f][i] # None
      BY <1>1, <1>11 DEF Passed
    <3>2. feeds[f][i].lastmod \in Nat
      BY <3>1, ItemType
    <3>3. Passed(c, f, i)
      BY <1>0, <1>1, <1>4, <1>11, <2>2, <3>1, <3>2 DEF Passed
    <3>4. Taken(c, f, i) /\ d.pending[<<f, i>>] = c.pending[<<f, i>>]
      BY <1>2, <2>2, <3>3 DEF CycleOK
    <3> QED  BY <3>4 DEF Taken
  <2> QED  BY <2>1, <2>2
<1>12. ASSUME NEW l \in Lot, tracked[l] # None
       PROVE  d.pending[l] # None /\ tracked[l].updated <= d.pending[l].updated
  <2>1. PICK f \in Feed, i \in ItemId : l = <<f, i>>
    BY DEF Lot
  <2>2. c.pending[l] # None /\ tracked[l].updated <= c.pending[l].updated
    BY <1>12 DEF CycleOK
  <2>3. CASE i \in read[f].items
    <3>1. /\ c.pending[l].updated <= feeds[f][i].lastmod /\ feeds[f][i] # None
          /\ Taken(d, f, i)
      BY <1>0, <1>2, <2>1, <2>2, <2>3 DEF Sourced
    <3>2. /\ tracked[l].updated \in Nat /\ c.pending[l].updated \in Nat
          /\ feeds[f][i].lastmod \in Nat
      BY <1>0, <1>12, <2>2, <3>1, StateType, ItemType
    <3> QED  BY <2>1, <2>2, <3>1, <3>2 DEF Taken
  <2>4. CASE i \notin read[f].items
    BY <1>2, <2>1, <2>2, <2>4
  <2> QED  BY <2>3, <2>4
<1>13. Sourced(d.pending)
  <2> SUFFICES ASSUME NEW f \in Feed, NEW i \in ItemId, d.pending[<<f, i>>] # None
               PROVE  /\ feeds[f][i] # None
                      /\ d.pending[<<f, i>>].updated <= feeds[f][i].lastmod
    BY DEF Sourced
  <2>1. CASE i \in read[f].items
    BY <1>2, <2>1, ItemType DEF Taken
  <2>2. CASE i \notin read[f].items
    BY <1>0, <1>2, <2>2 DEF Sourced
  <2> QED  BY <2>1, <2>2
<1>14. Current(d.pending, after)
  <2> SUFFICES ASSUME NEW f \in Feed, NEW i \in ItemId,
                      after[f] # None, feeds[f][i] # None,
                      after[f] - Lookback <= feeds[f][i].lastmod,
                      feeds[f][i].lastmod < after[f]
               PROVE  Agrees(d.pending[<<f, i>>], feeds[f][i])
    BY DEF Current
  <2>0. /\ feeds[f][i].lastmod \in Nat /\ after[f] \in Nat
        /\ (observed[f] # None => observed[f] \in Nat /\ observed[f] <= c.through)
    BY <1>0, <1>7, ItemType DEF CycleOK
  <2>1. CASE Taken(d, f, i)
    BY <2>1 DEF Taken, Agrees
  <2>2. CASE ~Taken(d, f, i)
    <3>1. i \notin read[f].items /\ d.pending[<<f, i>>] = c.pending[<<f, i>>]
      BY <1>2, <2>2
    <3>2. CASE ~read[f].done
      BY <1>0, <1>6, <3>1, <3>2 DEF Current
    <3>3. CASE read[f].done
      <4>1. /\ c.kdqs[f] # None /\ ~c.kdqs[f].done /\ after[f] = c.through
            /\ c.kdqs[f].from = IF observed[f] = None THEN c.through - Lookback
                                ELSE observed[f] - Overlap
        BY <1>5, <1>6, <3>3 DEF CycleOK
      <4>2. d.kdqs[f].done /\ d.kdqs[f] # None /\ d.kdqs[f].from = c.kdqs[f].from
        BY <1>4, <3>3, <4>1
      <4>3. ~(c.kdqs[f].from <= feeds[f][i].lastmod)
        BY <1>1, <1>11, <2>2, <4>1, <4>2 DEF Passed
      <4>4. /\ observed[f] # None /\ feeds[f][i].lastmod < observed[f]
            /\ observed[f] - Lookback <= feeds[f][i].lastmod
        BY <1>0, <2>0, <4>1, <4>3 DEF AustriaAssumption
      <4> QED  BY <1>0, <3>1, <4>4 DEF Current
    <3> QED  BY <3>2, <3>3
  <2> QED  BY <2>1, <2>2
<1>15. d.through <= clock
  BY <1>1 DEF CycleOK
<1>16. CycleOK(d, after, tracked)
  BY <1>8, <1>9, <1>10, <1>11, <1>12, <1>13, <1>14, <1>15 DEF CycleOK
<1> QED  BY <1>1, <1>5, <1>7, <1>16

-----------------------------------------------------------------------------
(* The cycle a poll goes on with, and when each feed was read to after it.  *)
Cycle == IF cursor.catchup = None THEN NewCatchUp ELSE cursor.catchup

ReadTo(read) == Later(Cycle, cursor.kdq_observed, read)

LEMMA CursorType ==
  ASSUME AustriaAssumption, TypeOK
  PROVE  /\ cursor.kdq_observed \in [Feed -> Nat \cup {None}] /\ cursor.tracked \in States
         /\ cursor.catchup \in CatchUp \cup {None} /\ clock \in Nat
         /\ cursor.observed \in Nat \cup {None}
         /\ Feed \subseteq Nat /\ None \notin CatchUp
BY DEF TypeOK, Cursor, AustriaAssumption, Feed

LEMMA CycleHolds ==
  ASSUME AustriaAssumption, IInv
  PROVE  CycleOK(Cycle, cursor.kdq_observed, cursor.tracked)
<1>0. TypeOK
  BY DEF IInv
<1>1. CASE cursor.catchup # None
  BY <1>1 DEF Cycle, IInv
<1>2. CASE cursor.catchup = None
  <2> DEFINE c == NewCatchUp
             observed == cursor.kdq_observed
  <2>1. /\ c.through = clock /\ c.pending = cursor.tracked
        /\ \A f \in Feed : c.kdqs[f] = IF f \in catalog THEN NewProgress(f) ELSE None
    BY DEF NewCatchUp
  <2>2. \A f \in Feed : /\ NewProgress(f) \in Progress /\ NewProgress(f).done = FALSE
                        /\ NewProgress(f).after = -1
                        /\ NewProgress(f).from = IF observed[f] = None THEN clock - Lookback
                                                 ELSE observed[f] - Overlap
    BY <1>0, CursorType DEF NewProgress, Progress, AustriaAssumption
  <2>3. c \in CatchUp
    BY <1>0, <2>2, CursorType DEF NewCatchUp, CatchUp
  <2>4. Sourced(cursor.tracked) /\ Current(cursor.tracked, observed)
    BY <1>2 DEF IInv
  <2>5. \A f \in Feed : observed[f] # None => observed[f] <= clock
    BY DEF IInv
  <2>6. \A l \in Lot : cursor.tracked[l] # None =>
          cursor.tracked[l].updated <= cursor.tracked[l].updated
    BY <1>0, CursorType, StateType
  <2>7. None \notin Progress
    BY DEF AustriaAssumption
  <2>8. ASSUME NEW f \in Feed, NEW i \in ItemId, Passed(c, f, i) PROVE FALSE
    <3>1. c.kdqs[f] = NewProgress(f) /\ feeds[f][i] # None
      BY <2>1, <2>8 DEF Passed
    <3>2. Key(feeds[f][i].lastmod, i) <= -1
      BY <2>2, <2>8, <3>1 DEF Passed
    <3> QED  BY <1>0, <3>1, <3>2, ItemType
  <2> HIDE DEF c
  <2>9. clock <= clock /\ clock \in Nat
    BY <1>0, CursorType
  <2>10. \A f \in Feed : c.kdqs[f] # None =>
           IF c.kdqs[f].done THEN observed[f] = c.through
           ELSE c.kdqs[f].from = IF observed[f] = None THEN c.through - Lookback
                                 ELSE observed[f] - Overlap
    BY <2>1, <2>2
  <2>11. CycleOK(c, observed, cursor.tracked)
    BY <2>1, <2>3, <2>4, <2>5, <2>6, <2>8, <2>9, <2>10 DEF CycleOK
  <2> QED  BY <1>2, <2>11 DEF Cycle, c
<1> QED  BY <1>1, <1>2

LEMMA PollShape ==
  ASSUME AustriaAssumption, TypeOK, Cycle \in CatchUp,
         NEW fails \in [Feed -> ItemId \cup {0, None}], Poll(fails)
  PROVE  /\ polls' = 1 - polls
         /\ \E read :
              /\ \A f \in Feed : ReadOK(Cycle, f, read[f])
              /\ \/ UNCHANGED <<cursor, listed>>
                 \/ /\ cursor' = [cursor EXCEPT !.kdq_observed = ReadTo(read),
                                                !.catchup = Advanced(Cycle, read)]
                    /\ UNCHANGED listed
                 \/ \E tracked :
                      /\ tracked = Reconciled(cursor.tracked, Hydrated(Cycle.pending, read))
                      /\ cursor' = [observed |-> Cycle.through, kdq_observed |-> ReadTo(read),
                                    tracked |-> tracked, catchup |-> None]
                      /\ listed' = (listed \cup Opened(tracked)) \ Closed(tracked)
<1>1. PICK left \in [0 .. NumFeeds -> 0 .. Budget] :
        LET read == [f \in Feed |-> ReadFeed(Cycle, f, left[f - 1], fails[f])]
            kdqs == [f \in Feed |-> IF Cycle.kdqs[f] = None THEN None
                                    ELSE Reached(Cycle.kdqs[f], f, read[f])]
            pending == Hydrated(Cycle.pending, read)
            observed == [f \in Feed |-> IF read[f].done THEN Cycle.through
                                        ELSE cursor.kdq_observed[f]]
            incomplete == \E f \in Feed : kdqs[f] # None /\ ~kdqs[f].done
            moved == \E f \in Feed : read[f].done \/ read[f].items # {}
            tracked == Reconciled(cursor.tracked, pending)
        IN /\ left[0] = Budget
           /\ \A f \in Feed : left[f] = left[f - 1] - Cardinality(read[f].items)
           /\ IF incomplete
              THEN /\ cursor' = IF moved
                                THEN [cursor EXCEPT !.kdq_observed = observed,
                                        !.catchup = [Cycle EXCEPT !.kdqs = kdqs,
                                                                  !.pending = pending]]
                                ELSE cursor
                   /\ UNCHANGED listed
              ELSE /\ cursor' = [observed |-> Cycle.through, kdq_observed |-> observed,
                                 tracked |-> tracked, catchup |-> None]
                   /\ listed' = (listed \cup Opened(tracked)) \ Closed(tracked)
           /\ polls' = 1 - polls
  BY DEF Poll, Cycle
<1> DEFINE read == [f \in Feed |-> ReadFeed(Cycle, f, left[f - 1], fails[f])]
<1>2. \A f \in Feed : ReadOK(Cycle, f, read[f])
  <2> SUFFICES ASSUME NEW f \in Feed PROVE ReadOK(Cycle, f, read[f])
    OBVIOUS
  <2>1. left[f - 1] \in Nat
    BY DEF Feed, AustriaAssumption
  <2>2. fails[f] \in ItemId \cup {0, None} /\ read[f] = ReadFeed(Cycle, f, left[f - 1], fails[f])
    OBVIOUS
  <2> QED  BY <2>1, <2>2, ReadShape
<1>3. polls' = 1 - polls
  BY <1>1
<1>4. \/ UNCHANGED <<cursor, listed>>
      \/ /\ cursor' = [cursor EXCEPT !.kdq_observed = ReadTo(read),
                                     !.catchup = Advanced(Cycle, read)]
         /\ UNCHANGED listed
      \/ \E tracked :
           /\ tracked = Reconciled(cursor.tracked, Hydrated(Cycle.pending, read))
           /\ cursor' = [observed |-> Cycle.through, kdq_observed |-> ReadTo(read),
                         tracked |-> tracked, catchup |-> None]
           /\ listed' = (listed \cup Opened(tracked)) \ Closed(tracked)
  BY <1>1, Zenon DEF ReadTo, Later, Advanced
<1> HIDE DEF read
<1> QED  BY <1>2, <1>3, <1>4

-----------------------------------------------------------------------------
(* The end of a cycle.                                                      *)

(* What is tracked then: the newest known state of every lot whose deadline *)
(* is ahead, and nothing that is known to have ended.                       *)
TrackedOK(c, tracked) ==
  /\ tracked \in States
  /\ \A l \in Lot :
       IF tracked[l] = None
       THEN c.pending[l] # None => ~Future(c.pending[l].deadline)
       ELSE /\ c.pending[l] # None /\ tracked[l].visible
            /\ tracked[l].updated = c.pending[l].updated
            /\ tracked[l].deadline = c.pending[l].deadline

LEMMA ReconciledShape ==
  ASSUME AustriaAssumption, TypeOK, NEW c, NEW observed,
         CycleOK(c, observed, cursor.tracked)
  PROVE  TrackedOK(c, Reconciled(cursor.tracked, c.pending))
<1> DEFINE baseline == cursor.tracked
           tracked == Reconciled(baseline, c.pending)
           merged(l) == Merge(baseline[l], c.pending[l])
           kept(l) == [merged(l) EXCEPT !.visible = TRUE]
<1>0. baseline \in States /\ c.pending \in States /\ None \notin State
  BY CursorType DEF CycleOK, CatchUp, AustriaAssumption
<1>1. \A l \in Lot : baseline[l] # None =>
        c.pending[l] # None /\ baseline[l].updated <= c.pending[l].updated
  BY DEF CycleOK
<1>2. \A l \in Lot : c.pending[l] = None => tracked[l] = None
  BY <1>1 DEF Reconciled
<1>3. ASSUME NEW l \in Lot, c.pending[l] # None
      PROVE  /\ merged(l) \in State /\ merged(l) # None
             /\ merged(l).updated = c.pending[l].updated
             /\ merged(l).deadline = c.pending[l].deadline
  <2>1. baseline[l] \in State \cup {None} /\ c.pending[l] \in State
    BY <1>0, <1>3 DEF States
  <2> QED  BY <1>1, <2>1, MergeShape
<1>4. ASSUME NEW l \in Lot, c.pending[l] # None
      PROVE  /\ tracked[l] = kept(l) \/ tracked[l] = None
             /\ tracked[l] = None => ~Future(merged(l).deadline)
             /\ kept(l) \in State /\ kept(l) # None /\ kept(l).visible
             /\ kept(l).updated = c.pending[l].updated
             /\ kept(l).deadline = c.pending[l].deadline
  <2>1. tracked[l] =
          IF Future(merged(l).deadline) THEN kept(l)
          ELSE IF (baseline[l] # None /\ baseline[l].visible) /\ merged(l).deadline = None
               THEN kept(l) ELSE None
    BY <1>3, <1>4 DEF Reconciled
  <2>2. merged(l) \in State
    BY <1>3, <1>4
  <2> HIDE DEF merged, tracked
  <2>3. /\ kept(l) \in State /\ kept(l).visible
        /\ kept(l).updated = merged(l).updated /\ kept(l).deadline = merged(l).deadline
    BY <2>2 DEF State
  <2>4. kept(l) # None
    BY <1>0, <2>3
  <2> HIDE DEF kept
  <2>5. /\ tracked[l] = kept(l) \/ tracked[l] = None
        /\ tracked[l] = None => ~Future(merged(l).deadline)
    BY <2>1, <2>4
  <2> QED  BY <1>3, <1>4, <2>3, <2>4, <2>5
<1>5. tracked \in States
  <2>1. \A l \in Lot : tracked[l] \in State \cup {None}
    BY <1>2, <1>4
  <2>2. DOMAIN tracked = Lot /\ tracked = [l \in Lot |-> tracked[l]]
    BY DEF Reconciled
  <2> HIDE DEF tracked
  <2> QED  BY <2>1, <2>2 DEF States
<1>6. ASSUME NEW l \in Lot
      PROVE  IF tracked[l] = None
             THEN c.pending[l] # None => ~Future(c.pending[l].deadline)
             ELSE /\ c.pending[l] # None /\ tracked[l].visible
                  /\ tracked[l].updated = c.pending[l].updated
                  /\ tracked[l].deadline = c.pending[l].deadline
  <2> HIDE DEF tracked, kept, merged
  <2>1. CASE c.pending[l] = None
    BY <1>2, <2>1
  <2>2. CASE c.pending[l] # None
    BY <1>3, <1>4, <2>2
  <2> QED  BY <2>1, <2>2
<1> QED  BY <1>5, <1>6 DEF TrackedOK

(* What is shown then.                                                      *)
LEMMA ListedShape ==
  ASSUME AustriaAssumption, TypeOK, ListedIsTracked,
         NEW c, NEW tracked, TrackedOK(c, tracked),
         listed' = (listed \cup Opened(tracked)) \ Closed(tracked)
  PROVE  /\ listed' \subseteq Lot
         /\ \A l \in Lot : l \in listed' <=>
              tracked[l] # None /\ Future(tracked[l].deadline)
<1>1. listed \subseteq Lot /\ Opened(tracked) \subseteq Lot
  BY DEF TypeOK, Opened
<1>2. ASSUME NEW l \in Lot, l \in listed'
      PROVE  tracked[l] # None /\ Future(tracked[l].deadline)
  <2>1. l \notin Closed(tracked) /\ (l \in listed \/ l \in Opened(tracked))
    BY <1>2
  <2>2. CASE l \in listed
    BY <2>1, <2>2 DEF ListedIsTracked, Closed
  <2>3. CASE l \in Opened(tracked)
    BY <2>3 DEF Opened
  <2> QED  BY <2>1, <2>2, <2>3
<1>3. ASSUME NEW l \in Lot, tracked[l] # None, Future(tracked[l].deadline)
      PROVE  l \in listed'
  <2>1. l \notin Closed(tracked)
    BY <1>3 DEF Closed
  <2>2. l \in listed \/ l \in Opened(tracked)
    BY <1>3 DEF ListedIsTracked, Opened
  <2> QED  BY <2>1, <2>2
<1> QED  BY <1>1, <1>2, <1>3

LEMMA CycleEnds ==
  ASSUME NEW c, NEW observed, CycleOK(c, observed, cursor.tracked),
         NEW tracked, TrackedOK(c, tracked)
  PROVE  Sourced(tracked) /\ Current(tracked, observed)
<1>1. \A f \in Feed, i \in ItemId : <<f, i>> \in Lot
  BY DEF Lot
<1>2. Sourced(c.pending) /\ Current(c.pending, observed)
  BY DEF CycleOK
<1>3. Sourced(tracked)
  <2> SUFFICES ASSUME NEW f \in Feed, NEW i \in ItemId, tracked[<<f, i>>] # None
               PROVE  feeds[f][i] # None /\ tracked[<<f, i>>].updated <= feeds[f][i].lastmod
    BY DEF Sourced
  <2>1. c.pending[<<f, i>>] # None /\ tracked[<<f, i>>].updated = c.pending[<<f, i>>].updated
    BY <1>1 DEF TrackedOK
  <2> QED  BY <1>2, <2>1 DEF Sourced
<1>4. ASSUME NEW f \in Feed, NEW i \in ItemId,
             Agrees(c.pending[<<f, i>>], feeds[f][i])
      PROVE  Agrees(tracked[<<f, i>>], feeds[f][i])
  <2>1. CASE tracked[<<f, i>>] = None
    BY <1>1, <1>4, <2>1 DEF TrackedOK, Agrees
  <2>2. CASE tracked[<<f, i>>] # None
    BY <1>1, <1>4, <2>2 DEF TrackedOK, Agrees
  <2> QED  BY <2>1, <2>2
<1> QED  BY <1>2, <1>3, <1>4 DEF Current

-----------------------------------------------------------------------------
(* Every step keeps the invariant.                                          *)

(* What a poll does, in the terms of the lemmas above.                      *)
Moved(read) ==
  LET d == Advanced(Cycle, read) IN
  /\ CycleOK(d, ReadTo(read), cursor.tracked) /\ d.through = Cycle.through
  /\ ReadTo(read) \in [Feed -> Nat \cup {None}]
  /\ \A f \in Feed : read[f].done => Cycle.kdqs[f] # None /\ ~Cycle.kdqs[f].done
  /\ \A f \in Feed : d.kdqs[f] = IF Cycle.kdqs[f] = None THEN None
                                ELSE Reached(Cycle.kdqs[f], f, read[f])
  /\ \A f \in Feed : ReadOK(Cycle, f, read[f])

Ended(read, tracked) ==
  /\ TrackedOK(Advanced(Cycle, read), tracked)
  /\ Sourced(tracked) /\ Current(tracked, ReadTo(read))
  /\ cursor' = [observed |-> Cycle.through, kdq_observed |-> ReadTo(read),
                tracked |-> tracked, catchup |-> None]
  /\ listed' \subseteq Lot
  /\ \A l \in Lot : l \in listed' <=> tracked[l] # None /\ Future(tracked[l].deadline)

LEMMA PollMoves ==
  ASSUME AustriaAssumption, IInv, PollAny
  PROVE  /\ UNCHANGED <<clock, catalog, feeds>> /\ polls' = 1 - polls
         /\ \E n \in Nat : faults' = [faults EXCEPT !.failures = @ + n]
         /\ \E read :
              /\ Moved(read)
              /\ \/ UNCHANGED <<cursor, listed>>
                 \/ /\ cursor' = [cursor EXCEPT !.kdq_observed = ReadTo(read),
                                                !.catchup = Advanced(Cycle, read)]
                    /\ UNCHANGED listed
                 \/ \E tracked : Ended(read, tracked)
<1>0. TypeOK /\ ListedIsTracked
  BY DEF IInv
<1>1. CycleOK(Cycle, cursor.kdq_observed, cursor.tracked)
  BY CycleHolds
<1>2. PICK fails \in [Feed -> ItemId \cup {0, None}] :
        LET failing == {f \in catalog : fails[f] # None} IN
        /\ faults' = [faults EXCEPT !.failures = @ + Cardinality(failing)]
        /\ Poll(fails)
  BY DEF PollAny
<1>3. \E n \in Nat : faults' = [faults EXCEPT !.failures = @ + n]
  <2> DEFINE failing == {f \in catalog : fails[f] # None}
  <2>1. IsFiniteSet(Feed)
    BY FS_Interval DEF Feed, AustriaAssumption
  <2>2. failing \subseteq Feed
    BY <1>0 DEF TypeOK
  <2>3. Cardinality(failing) \in Nat
    BY <2>1, <2>2, FS_Subset, FS_CardinalityType
  <2> QED  BY <1>2, <2>3
<1>4. Cycle \in CatchUp
  BY <1>1 DEF CycleOK
<1>5. polls' = 1 - polls
  BY <1>0, <1>2, <1>4, PollShape
<1>6. PICK read :
        /\ \A f \in Feed : ReadOK(Cycle, f, read[f])
        /\ \/ UNCHANGED <<cursor, listed>>
           \/ /\ cursor' = [cursor EXCEPT !.kdq_observed = ReadTo(read),
                                          !.catchup = Advanced(Cycle, read)]
              /\ UNCHANGED listed
           \/ \E tracked :
                /\ tracked = Reconciled(cursor.tracked, Hydrated(Cycle.pending, read))
                /\ cursor' = [observed |-> Cycle.through, kdq_observed |-> ReadTo(read),
                              tracked |-> tracked, catchup |-> None]
                /\ listed' = (listed \cup Opened(tracked)) \ Closed(tracked)
  BY <1>0, <1>2, <1>4, PollShape
<1>7. Moved(read)
  <2>1. cursor.kdq_observed \in [Feed -> Nat \cup {None}] /\ cursor.tracked \in States
    BY <1>0, CursorType
  <2>2. PICK c, d, observed, after, tracked :
          /\ c = Cycle /\ d = Advanced(Cycle, read) /\ after = ReadTo(read)
          /\ observed = cursor.kdq_observed /\ tracked = cursor.tracked
    OBVIOUS
  <2>3. /\ \A f \in Feed : ReadOK(c, f, read[f])
        /\ d = Advanced(c, read) /\ CycleOK(c, observed, tracked)
        /\ after = Later(c, observed, read)
        /\ observed \in [Feed -> Nat \cup {None}] /\ tracked \in States
    BY <1>1, <1>6, <2>1, <2>2 DEF ReadTo
  <2>4. /\ CycleOK(d, after, tracked) /\ d.through = c.through
        /\ after \in [Feed -> Nat \cup {None}]
        /\ \A f \in Feed : read[f].done => c.kdqs[f] # None /\ ~c.kdqs[f].done
        /\ \A f \in Feed : d.kdqs[f] = IF c.kdqs[f] = None THEN None
                                      ELSE Reached(c.kdqs[f], f, read[f])
    BY <1>0, <2>3, CycleAdvances
  <2> QED  BY <1>6, <2>2, <2>3, <2>4 DEF Moved
<1>8. ASSUME NEW tracked,
             tracked = Reconciled(cursor.tracked, Hydrated(Cycle.pending, read)),
             cursor' = [observed |-> Cycle.through, kdq_observed |-> ReadTo(read),
                        tracked |-> tracked, catchup |-> None],
             listed' = (listed \cup Opened(tracked)) \ Closed(tracked)
      PROVE  Ended(read, tracked)
  <2>1. PICK d : d = Advanced(Cycle, read)
    OBVIOUS
  <2>2. d.pending = Hydrated(Cycle.pending, read)
    BY <1>4, <2>1 DEF Advanced, CatchUp
  <2>3. CycleOK(d, ReadTo(read), cursor.tracked)
    BY <1>7, <2>1 DEF Moved
  <2>4. TrackedOK(d, tracked)
    BY <1>0, <1>8, <2>2, <2>3, ReconciledShape
  <2>5. Sourced(tracked) /\ Current(tracked, ReadTo(read))
    BY <2>3, <2>4, CycleEnds
  <2>6. /\ listed' \subseteq Lot
        /\ \A l \in Lot : l \in listed' <=> tracked[l] # None /\ Future(tracked[l].deadline)
    BY <1>0, <1>8, <2>4, ListedShape
  <2> QED  BY <1>8, <2>1, <2>4, <2>5, <2>6 DEF Ended
<1>9. \/ UNCHANGED <<cursor, listed>>
      \/ /\ cursor' = [cursor EXCEPT !.kdq_observed = ReadTo(read),
                                     !.catchup = Advanced(Cycle, read)]
         /\ UNCHANGED listed
      \/ \E tracked : Ended(read, tracked)
  BY <1>6, <1>8
<1>10. UNCHANGED <<clock, catalog, feeds>>
  BY DEF PollAny
<1> QED  BY <1>3, <1>5, <1>7, <1>9, <1>10

(* The notices and the clock are what they were.                            *)
LEMMA SameNotices ==
  ASSUME UNCHANGED <<clock, feeds>>
  PROVE  /\ Dated => Dated'
         /\ \A states : Sourced(states) => Sourced(states)'
         /\ \A states, observed : Current(states, observed) => Current(states, observed)'
         /\ \A c, observed, tracked :
              CycleOK(c, observed, tracked) => CycleOK(c, observed, tracked)'
<1>1. Dated => Dated'
  BY DEF Dated
<1>2. \A states : Sourced(states) => Sourced(states)'
  BY DEF Sourced
<1>3. \A states, observed : Current(states, observed) => Current(states, observed)'
  BY DEF Current, Agrees, Future
<1>4. \A c, f, i : /\ Passed(c, f, i)' => Passed(c, f, i)
                   /\ Taken(c, f, i) => Taken(c, f, i)'
  BY DEF Passed, Taken
<1>5. \A c, observed, tracked :
        CycleOK(c, observed, tracked) => CycleOK(c, observed, tracked)'
  BY <1>2, <1>3, <1>4 DEF CycleOK
<1> QED  BY <1>1, <1>2, <1>3, <1>5

LEMMA PollKeeps ==
  ASSUME AustriaAssumption, IInv, PollAny
  PROVE  IInv'
<1>0. TypeOK /\ Dated /\ ListedIsTracked
  BY DEF IInv
<1>1. UNCHANGED <<clock, catalog, feeds>> /\ polls' = 1 - polls
  BY PollMoves
<1>2. PICK n \in Nat : faults' = [faults EXCEPT !.failures = @ + n]
  BY PollMoves
<1>3. PICK read :
        /\ Moved(read)
        /\ \/ UNCHANGED <<cursor, listed>>
           \/ /\ cursor' = [cursor EXCEPT !.kdq_observed = ReadTo(read),
                                          !.catchup = Advanced(Cycle, read)]
              /\ UNCHANGED listed
           \/ \E tracked : Ended(read, tracked)
  BY PollMoves
<1>4. Dated'
  BY <1>0, <1>1, SameNotices
<1>5. polls' \in {0, 1} /\ faults' \in [published : Nat, failures : Nat, retired : Nat]
  BY <1>0, <1>1, <1>2 DEF TypeOK
<1>6. clock' \in 0 .. MaxClock /\ catalog' \subseteq Feed
      /\ feeds' \in [Feed -> [ItemId -> Item \cup {None}]]
  BY <1>0, <1>1 DEF TypeOK
<1>7. CASE UNCHANGED <<cursor, listed>>
  <2>1. TypeOK'
    BY <1>0, <1>5, <1>6, <1>7 DEF TypeOK
  <2>2. ListedIsTracked'
    BY <1>0, <1>1, <1>7 DEF ListedIsTracked, Future
  <2>3. \A f \in Feed : cursor'.kdq_observed[f] # None => cursor'.kdq_observed[f] <= clock'
    BY <1>1, <1>7 DEF IInv
  <2>4. CASE cursor.catchup = None
    <3>1. Sourced(cursor.tracked)' /\ Current(cursor.tracked, cursor.kdq_observed)'
      BY <1>1, <1>7, <2>4 DEF IInv, Sourced, Current, Agrees, Future
    <3> QED  BY <1>4, <1>7, <2>1, <2>2, <2>3, <2>4, <3>1 DEF IInv
  <2>5. CASE cursor.catchup # None
    <3>1. PICK c, observed, tracked : /\ c = cursor.catchup /\ tracked = cursor.tracked
                                      /\ observed = cursor.kdq_observed
      OBVIOUS
    <3>2. CycleOK(c, observed, tracked)
      BY <2>5, <3>1 DEF IInv
    <3>3. CycleOK(c, observed, tracked)'
      BY <1>1, <3>2, SameNotices
    <3>4. CycleOK(cursor.catchup, cursor.kdq_observed, cursor.tracked)'
      BY <1>7, <3>1, <3>3
    <3> QED  BY <1>4, <1>7, <2>1, <2>2, <2>3, <2>5, <3>4 DEF IInv
  <2> QED  BY <2>4, <2>5
<1>8. CASE /\ cursor' = [cursor EXCEPT !.kdq_observed = ReadTo(read),
                                       !.catchup = Advanced(Cycle, read)]
           /\ UNCHANGED listed
  <2>1. PICK c, observed, tracked : /\ c = Advanced(Cycle, read) /\ tracked = cursor.tracked
                                    /\ observed = ReadTo(read)
    OBVIOUS
  <2>2. /\ CycleOK(c, observed, tracked) /\ observed \in [Feed -> Nat \cup {None}]
    BY <1>3, <2>1 DEF Moved
  <2>3. /\ cursor'.catchup = c /\ cursor'.kdq_observed = observed /\ cursor'.tracked = tracked
        /\ cursor'.observed = cursor.observed /\ cursor' \in Cursor /\ c # None
    <3>1. c \in CatchUp /\ c # None
      BY <2>2 DEF CycleOK, AustriaAssumption
    <3>2. cursor \in Cursor
      BY <1>0 DEF TypeOK
    <3> QED  BY <1>8, <2>1, <2>2, <3>1, <3>2 DEF Cursor
  <2>4. TypeOK'
    BY <1>0, <1>5, <1>6, <1>8, <2>3 DEF TypeOK
  <2>5. ListedIsTracked'
    BY <1>0, <1>1, <1>8, <2>1, <2>3 DEF ListedIsTracked, Future
  <2>6. CycleOK(c, observed, tracked)'
    BY <1>1, <2>2, SameNotices
  <2>7. \A f \in Feed : cursor'.kdq_observed[f] # None => cursor'.kdq_observed[f] <= clock'
    <3>1. /\ \A f \in Feed : observed[f] # None => observed[f] <= c.through
          /\ c.through \in Nat /\ c.through <= clock
      BY <2>2 DEF CycleOK, CatchUp
    <3>2. clock \in Nat /\ \A f \in Feed : observed[f] # None => observed[f] \in Nat
      BY <1>0, <2>2, CursorType
    <3>3. \A f \in Feed : observed[f] # None => observed[f] <= clock
      BY <3>1, <3>2
    <3> QED  BY <1>1, <2>3, <3>3
  <2> QED  BY <1>4, <2>3, <2>4, <2>5, <2>6, <2>7 DEF IInv
<1>9. CASE \E tracked : Ended(read, tracked)
  <2>1. PICK tracked : Ended(read, tracked)
    BY <1>9
  <2>2. PICK c, observed : c = Advanced(Cycle, read) /\ observed = ReadTo(read)
    OBVIOUS
  <2>3. /\ CycleOK(c, observed, cursor.tracked) /\ observed \in [Feed -> Nat \cup {None}]
        /\ c.through = Cycle.through
    BY <1>3, <2>2 DEF Moved
  <2>4. /\ TrackedOK(c, tracked) /\ Sourced(tracked) /\ Current(tracked, observed)
        /\ cursor' = [observed |-> c.through, kdq_observed |-> observed,
                      tracked |-> tracked, catchup |-> None]
        /\ listed' \subseteq Lot
        /\ \A l \in Lot : l \in listed' <=> tracked[l] # None /\ Future(tracked[l].deadline)
    BY <2>1, <2>2, <2>3 DEF Ended
  <2>5. /\ cursor'.catchup = None /\ cursor'.kdq_observed = observed
        /\ cursor'.tracked = tracked
    BY <2>4
  <2>6. /\ \A f \in Feed : observed[f] # None => observed[f] <= c.through
        /\ c.through \in Nat /\ c.through <= clock
    BY <2>3 DEF CycleOK, CatchUp
  <2>7. cursor' \in Cursor
    BY <2>3, <2>4, <2>6 DEF Cursor, TrackedOK
  <2>8. TypeOK'
    BY <1>5, <1>6, <2>4, <2>7 DEF TypeOK
  <2>9. ListedIsTracked'
    BY <1>1, <2>4, <2>5 DEF ListedIsTracked, TrackedOK, Future
  <2>10. Sourced(tracked)' /\ Current(tracked, observed)'
    BY <1>1, <2>4, SameNotices
  <2>11. \A f \in Feed : cursor'.kdq_observed[f] # None => cursor'.kdq_observed[f] <= clock'
    <3>1. clock \in Nat /\ \A f \in Feed : observed[f] # None => observed[f] \in Nat
      BY <1>0, <2>3, CursorType
    <3>2. \A f \in Feed : observed[f] # None => observed[f] <= clock
      BY <2>6, <3>1
    <3> QED  BY <1>1, <2>5, <3>2
  <2> QED  BY <1>4, <2>5, <2>8, <2>9, <2>10, <2>11 DEF IInv
<1> QED  BY <1>3, <1>7, <1>8, <1>9

(* Time passes: no deadline comes ahead again.                              *)
LEMMA TickKeeps ==
  ASSUME AustriaAssumption, IInv, Tick
  PROVE  IInv'
<1>0. /\ TypeOK /\ Dated /\ ListedIsTracked
      /\ UNCHANGED <<catalog, feeds, cursor, listed, polls, faults>>
  BY DEF IInv, Tick
<1>1. clock \in Nat /\ clock' = clock + 1 /\ clock' \in 0 .. MaxClock
  BY <1>0 DEF Tick, TypeOK, AustriaAssumption
<1>2. \A deadline \in Int \cup {None} : Future(deadline)' => Future(deadline)
  BY <1>1 DEF Future, AustriaAssumption
<1>3. TypeOK'
  BY <1>0, <1>1 DEF TypeOK
<1>4. Dated'
  BY <1>0, <1>1, ItemType DEF Dated
<1>5. ListedIsTracked'
  <2> SUFFICES ASSUME NEW l \in Lot
               PROVE  /\ l \in listed => cursor.tracked[l] # None /\ cursor.tracked[l].visible
                      /\ cursor.tracked[l] # None /\ Future(cursor.tracked[l].deadline)'
                         => l \in listed
    BY <1>0 DEF ListedIsTracked, Future
  <2>1. cursor.tracked[l] # None => cursor.tracked[l].deadline \in Int \cup {None}
    BY <1>0, CursorType, StateType
  <2> QED  BY <1>0, <1>2, <2>1 DEF ListedIsTracked
<1>6. \A states : Sourced(states) => Sourced(states)'
  BY <1>0 DEF Sourced
<1>7. ASSUME NEW states, NEW observed, Current(states, observed)
      PROVE  Current(states, observed)'
  <2>1. \A f \in Feed, i \in ItemId : feeds[f][i] # None =>
          (Agrees(states[<<f, i>>], feeds[f][i]) => Agrees(states[<<f, i>>], feeds[f][i])')
    <3> SUFFICES ASSUME NEW f \in Feed, NEW i \in ItemId, feeds[f][i] # None,
                        Agrees(states[<<f, i>>], feeds[f][i])
                 PROVE  Agrees(states[<<f, i>>], feeds[f][i])'
      OBVIOUS
    <3>1. Future(feeds[f][i].deadline)' => Future(feeds[f][i].deadline)
      <4>1. feeds[f][i].deadline \in Int \cup {None} /\ feeds' = feeds
        BY <1>0, ItemType
      <4> QED  BY <1>1, <4>1 DEF Future, AustriaAssumption
    <3> QED  BY <1>0, <3>1 DEF Agrees
  <2> QED  BY <1>0, <1>7, <2>1 DEF Current
<1>8. ASSUME NEW c, NEW observed, NEW tracked, CycleOK(c, observed, tracked)
      PROVE  CycleOK(c, observed, tracked)'
  <2>1. \A f \in Feed, i \in ItemId : Passed(c, f, i) => Taken(c, f, i)
    BY <1>8 DEF CycleOK
  <2>2. c.through <= clock'
    BY <1>1, <1>8 DEF CycleOK, CatchUp
  <2>3. Sourced(c.pending)' /\ Current(c.pending, observed)'
    BY <1>6, <1>7, <1>8 DEF CycleOK
  <2>4. \A f \in Feed, i \in ItemId : Passed(c, f, i)' => Taken(c, f, i)'
    BY <1>0, <2>1 DEF Passed, Taken
  <2> QED  BY <1>8, <2>2, <2>3, <2>4 DEF CycleOK
<1>9. \A f \in Feed : cursor'.kdq_observed[f] # None => cursor'.kdq_observed[f] <= clock'
  <2>1. \A f \in Feed : cursor.kdq_observed[f] # None => cursor.kdq_observed[f] \in Nat
    BY <1>0, CursorType
  <2> QED  BY <1>0, <1>1, <2>1 DEF IInv
<1> QED  BY <1>0, <1>3, <1>4, <1>5, <1>6, <1>7, <1>8, <1>9 DEF IInv

(* What is published is newer than all that was read.                       *)
LEMMA PublishKeeps ==
  ASSUME AustriaAssumption, IInv, NEW f \in Feed, NEW i \in ItemId,
         NEW deadline \in Deadlines, Publish(f, i, deadline)
  PROVE  IInv'
<1>0. /\ TypeOK /\ Dated /\ ListedIsTracked /\ clock \in Nat
      /\ UNCHANGED <<clock, catalog, cursor, listed, polls>>
  BY CursorType DEF IInv, Publish
<1>1. PICK new : new = [lastmod |-> clock, deadline |-> deadline]
  OBVIOUS
<1>2. new \in Item /\ new # None /\ new.lastmod = clock
  BY <1>0, <1>1 DEF Item, AustriaAssumption
<1>3. \A g \in Feed, j \in ItemId :
        feeds'[g][j] = IF g = f /\ j = i THEN new ELSE feeds[g][j]
  BY <1>0, <1>1 DEF Publish, TypeOK
<1>4. \A g \in Feed, j \in ItemId : feeds[g][j] # None =>
        feeds[g][j].lastmod \in Nat /\ feeds[g][j].lastmod <= clock
  BY <1>0, ItemType DEF Dated
<1>5. TypeOK'
  <2>1. feeds' \in [Feed -> [ItemId -> Item \cup {None}]]
    BY <1>0, <1>1, <1>2 DEF Publish, TypeOK
  <2>2. faults' \in [published : Nat, failures : Nat, retired : Nat]
    BY <1>0 DEF Publish, TypeOK
  <2> QED  BY <1>0, <2>1, <2>2 DEF TypeOK
<1>6. Dated'
  BY <1>0, <1>2, <1>3, <1>4 DEF Dated
<1>7. ListedIsTracked'
  BY <1>0 DEF ListedIsTracked, Future
<1>8. ASSUME NEW states \in States, Sourced(states) PROVE Sourced(states)'
  <2> SUFFICES ASSUME NEW g \in Feed, NEW j \in ItemId, states[<<g, j>>] # None
               PROVE  feeds'[g][j] # None /\ states[<<g, j>>].updated <= feeds'[g][j].lastmod
    BY DEF Sourced
  <2>1. feeds[g][j] # None /\ states[<<g, j>>].updated <= feeds[g][j].lastmod
    BY <1>8 DEF Sourced
  <2>2. states[<<g, j>>].updated \in Nat
    BY StateType DEF Lot
  <2> QED  BY <1>0, <1>2, <1>3, <1>4, <2>1, <2>2
<1>9. ASSUME NEW states, NEW observed \in [Feed -> Nat \cup {None}],
             \A g \in Feed : observed[g] # None => observed[g] <= clock,
             Current(states, observed)
      PROVE  Current(states, observed)'
  <2> SUFFICES ASSUME NEW g \in Feed, NEW j \in ItemId,
                      observed[g] # None, feeds'[g][j] # None,
                      observed[g] - Lookback <= feeds'[g][j].lastmod,
                      feeds'[g][j].lastmod < observed[g]
               PROVE  Agrees(states[<<g, j>>], feeds[g][j])'
    BY DEF Current
  <2>1. observed[g] \in Nat /\ observed[g] <= clock
    BY <1>9
  <2>2. ~(g = f /\ j = i)
    BY <1>0, <1>2, <1>3, <2>1
  <2>3. feeds'[g][j] = feeds[g][j]
    BY <1>3, <2>2
  <2>4. Agrees(states[<<g, j>>], feeds[g][j])
    BY <1>9, <2>3 DEF Current
  <2> QED  BY <1>0, <2>3, <2>4 DEF Agrees, Future
<1>10. ASSUME NEW c, NEW observed \in [Feed -> Nat \cup {None}], NEW tracked,
              CycleOK(c, observed, tracked)
       PROVE  CycleOK(c, observed, tracked)'
  <2>1. /\ c.through \in Nat /\ c.through <= clock /\ c.pending \in States
        /\ \A g \in Feed : observed[g] # None => observed[g] <= c.through
    BY <1>10 DEF CycleOK, CatchUp
  <2>2. \A g \in Feed : observed[g] # None => observed[g] <= clock
    BY <1>0, <2>1
  <2>3. Sourced(c.pending)' /\ Current(c.pending, observed)'
    BY <1>8, <1>9, <1>10, <2>1, <2>2 DEF CycleOK
  <2>4. ASSUME NEW g \in Feed, NEW j \in ItemId, Passed(c, g, j)' PROVE Taken(c, g, j)'
    <3>1. ~(g = f /\ j = i)
      BY <1>0, <1>2, <1>3, <2>1, <2>4 DEF Passed
    <3>2. feeds'[g][j] = feeds[g][j]
      BY <1>3, <3>1
    <3>3. Passed(c, g, j)
      BY <2>4, <3>2 DEF Passed
    <3> QED  BY <1>10, <3>2, <3>3 DEF CycleOK, Taken
  <2> QED  BY <1>0, <1>10, <2>3, <2>4 DEF CycleOK
<1>11. CASE cursor.catchup = None
  <2>1. Sourced(cursor.tracked)' /\ Current(cursor.tracked, cursor.kdq_observed)'
    <3>1. PICK tracked, observed :
            /\ tracked = cursor.tracked /\ tracked \in States
            /\ observed = cursor.kdq_observed /\ observed \in [Feed -> Nat \cup {None}]
      BY <1>0, CursorType
    <3>2. /\ Sourced(tracked) /\ Current(tracked, observed)
          /\ \A g \in Feed : observed[g] # None => observed[g] <= clock
      BY <1>11, <3>1 DEF IInv
    <3>3. Sourced(tracked)' /\ Current(tracked, observed)'
      BY <1>8, <1>9, <3>1, <3>2
    <3> QED  BY <1>0, <3>1, <3>3
  <2> QED  BY <1>0, <1>5, <1>6, <1>7, <1>11, <2>1 DEF IInv
<1>12. CASE cursor.catchup # None
  <2>1. CycleOK(cursor.catchup, cursor.kdq_observed, cursor.tracked)'
    <3>1. PICK c, tracked, observed :
            /\ c = cursor.catchup /\ tracked = cursor.tracked
            /\ observed = cursor.kdq_observed /\ observed \in [Feed -> Nat \cup {None}]
      BY <1>0, CursorType
    <3>2. CycleOK(c, observed, tracked)'
      BY <1>10, <1>12, <3>1 DEF IInv
    <3> QED  BY <1>0, <3>1, <3>2
  <2> QED  BY <1>0, <1>5, <1>6, <1>7, <1>12, <2>1 DEF IInv
<1> QED  BY <1>11, <1>12

LEMMA IInvInit ==
  ASSUME AustriaAssumption, Init
  PROVE  IInv
<1>1. cursor \in Cursor
  BY DEF Init, Cursor, States, EmptyStates
<1>2. TypeOK
  BY <1>1 DEF Init, TypeOK, AustriaAssumption
<1>3. Dated /\ ListedIsTracked
  BY DEF Init, Dated, ListedIsTracked, EmptyStates
<1>4. Sourced(cursor.tracked) /\ Current(cursor.tracked, cursor.kdq_observed)
  BY DEF Init, Sourced, Current, EmptyStates, Lot
<1> QED  BY <1>2, <1>3, <1>4 DEF IInv, Init

LEMMA IInvStep ==
  ASSUME AustriaAssumption, IInv, [Next]_vars
  PROVE  IInv'
<1>1. CASE Tick
  BY <1>1, TickKeeps
<1>2. CASE \E f \in Feed, i \in ItemId, d \in Deadlines : Publish(f, i, d)
  BY <1>2, PublishKeeps
<1>3. ASSUME UNCHANGED <<clock, feeds, cursor, listed, polls>>,
             catalog' \subseteq catalog,
             faults' \in [published : Nat, failures : Nat, retired : Nat]
      PROVE  IInv'
  <2>1. TypeOK'
    BY <1>3 DEF IInv, TypeOK
  <2>2. Dated' /\ ListedIsTracked'
    BY <1>3 DEF IInv, Dated, ListedIsTracked, Future
  <2>3. CASE cursor.catchup = None
    <3>1. Sourced(cursor.tracked)' /\ Current(cursor.tracked, cursor.kdq_observed)'
      BY <1>3, <2>3 DEF IInv, Sourced, Current, Agrees, Future
    <3> QED  BY <1>3, <2>1, <2>2, <2>3, <3>1 DEF IInv
  <2>4. CASE cursor.catchup # None
    <3>1. PICK c, observed, tracked : /\ c = cursor.catchup /\ tracked = cursor.tracked
                                      /\ observed = cursor.kdq_observed
      OBVIOUS
    <3>2. CycleOK(c, observed, tracked)'
      BY <1>3, <2>4, <3>1, SameNotices DEF IInv
    <3>3. CycleOK(cursor.catchup, cursor.kdq_observed, cursor.tracked)'
      BY <1>3, <3>1, <3>2
    <3> QED  BY <1>3, <2>1, <2>2, <2>4, <3>3 DEF IInv
  <2> QED  BY <2>3, <2>4
<1>4. CASE \E f \in Feed : Retire(f)
  BY <1>3, <1>4 DEF Retire, IInv, TypeOK
<1>5. CASE PollAny
  BY <1>5, PollKeeps
<1>6. CASE UNCHANGED vars
  BY <1>3, <1>6 DEF vars, IInv, TypeOK
<1> QED  BY <1>1, <1>2, <1>4, <1>5, <1>6 DEF Next

-----------------------------------------------------------------------------
(* The invariant, from which the rest follows.                              *)
THEOREM InvariantHolds == Spec => []IInv
<1>1. Init => IInv
  BY IInvInit, AustriaAssumption
<1>2. IInv /\ [Next]_vars => IInv'
  BY IInvStep, AustriaAssumption
<1> QED  BY <1>1, <1>2, PTL DEF Spec

(* The cursor, the states it keeps and what is shown as open have their     *)
(* types throughout (austria_kerndaten_incremental.py:217-386).             *)
THEOREM TypeCorrect == Spec => []TypeOK
<1>1. IInv => TypeOK
  BY DEF IInv
<1> QED  BY <1>1, InvariantHolds, PTL

(* A cycle that stops for want of budget, or because a feed cannot be read, *)
(* "resumes without skips" (austria_kerndaten_incremental.py:11): whatever  *)
(* lies behind its place in a feed has been read as it is.                  *)
THEOREM NothingSkippedHolds == Spec => []NothingSkipped
<1>1. IInv => NothingSkipped
  <2> SUFFICES ASSUME IInv, cursor.catchup # None, NEW f \in Feed, NEW i \in ItemId,
                      Passed(cursor.catchup, f, i)
               PROVE  Taken(cursor.catchup, f, i)
    BY DEF NothingSkipped, Passed, Taken
  <2> QED  BY DEF IInv, CycleOK
<1> QED  BY <1>1, InvariantHolds, PTL

(* What the end of a cycle shows of a feed that it has read to its horizon. *)
LEMMA EndIsTrue ==
  ASSUME AustriaAssumption, IInv, NEW read, NEW tracked, Moved(read), Ended(read, tracked),
         UNCHANGED <<clock, feeds>>,
         NEW f \in Feed, NEW i \in ItemId, feeds[f][i] # None,
         feeds[f][i].lastmod < Cycle.through, ReadTo(read)[f] = Cycle.through,
         \/ /\ cursor.kdq_observed[f] # None
            /\ feeds[f][i].lastmod >= cursor.kdq_observed[f] - Overlap
         \/ feeds[f][i].lastmod >= Cycle.through - Lookback
  PROVE  <<f, i>> \in listed' <=> Future(feeds[f][i].deadline)
<1> DEFINE d == Advanced(Cycle, read)
           item == feeds[f][i]
           l == <<f, i>>
<1>0. TypeOK /\ l \in Lot
  BY DEF IInv, Lot
<1>1. /\ CycleOK(d, ReadTo(read), cursor.tracked) /\ d.through = Cycle.through
      /\ read[f].done => Cycle.kdqs[f] # None /\ ~Cycle.kdqs[f].done
  BY DEF Moved
<1>2. /\ TrackedOK(d, tracked) /\ Current(tracked, ReadTo(read))
      /\ l \in listed' <=> tracked[l] # None /\ Future(tracked[l].deadline)
  BY <1>0 DEF Ended
<1>3. /\ Cycle.through \in Nat /\ item.lastmod \in Nat
      /\ cursor.kdq_observed[f] # None => cursor.kdq_observed[f] \in Nat
      /\ Overlap \in Nat /\ Lookback \in Nat /\ Overlap <= Lookback
  BY <1>0, <1>1, CursorType, ItemType DEF CycleOK, CatchUp, AustriaAssumption
<1>4. Agrees(tracked[l], item)
  <2>1. CASE item.lastmod >= Cycle.through - Lookback
    <3>1. None \notin Int
      BY DEF AustriaAssumption
    <3> QED  BY <1>2, <1>3, <2>1, <3>1 DEF Current
  <2>2. CASE ~(item.lastmod >= Cycle.through - Lookback)
    <3>1. /\ cursor.kdq_observed[f] # None /\ cursor.kdq_observed[f] # Cycle.through
          /\ item.lastmod >= cursor.kdq_observed[f] - Overlap
      BY <1>3, <2>2
    <3>2. read[f].done
      BY <3>1 DEF ReadTo, Later
    <3>3. /\ Cycle.kdqs[f] # None
          /\ Cycle.kdqs[f].from = cursor.kdq_observed[f] - Overlap
      BY <1>1, <3>1, <3>2, CycleHolds DEF CycleOK
    <3>4. /\ d.kdqs[f] # None /\ d.kdqs[f].done /\ d.kdqs[f].from = Cycle.kdqs[f].from
      <4>1. Cycle \in CatchUp /\ ReadOK(Cycle, f, read[f])
        BY CycleHolds DEF CycleOK, Moved
      <4>2. d.kdqs[f] = Reached(Cycle.kdqs[f], f, read[f])
        BY <3>3 DEF Moved
      <4>3. /\ Reached(Cycle.kdqs[f], f, read[f]) \in Progress
            /\ Reached(Cycle.kdqs[f], f, read[f]).from = Cycle.kdqs[f].from
            /\ Reached(Cycle.kdqs[f], f, read[f]).done
        BY <1>0, <3>2, <3>3, <4>1, ReachedShape
      <4>4. None \notin Progress
        BY DEF AustriaAssumption
      <4> HIDE DEF d
      <4> QED  BY <4>2, <4>3, <4>4
    <3> HIDE DEF d
    <3>5. Passed(d, f, i)
      BY <1>1, <1>3, <3>1, <3>3, <3>4 DEF Passed
    <3>6. Taken(d, f, i)
      BY <1>1, <3>5 DEF CycleOK
    <3> QED  BY <1>0, <1>2, <3>6 DEF TrackedOK, Taken, Agrees
  <2> QED  BY <2>1, <2>2
<1>5. Future(item.deadline) => tracked[l] # None /\ tracked[l].deadline = item.deadline
  BY <1>4 DEF Agrees
<1>6. tracked[l] # None => tracked[l].deadline = item.deadline
  BY <1>4 DEF Agrees
<1> HIDE DEF item, l
<1>7. l \in listed' <=> Future(item.deadline)
  BY <1>2, <1>5, <1>6
<1> QED  BY <1>7 DEF item, l

(* "Only the final reconciled snapshot becomes visible"                     *)
(* (austria_kerndaten_incremental.py:12-13), and it is true: after a cycle  *)
(* exactly the lots whose deadline is ahead are shown as open, of all the   *)
(* notices within reach of the cycle.                                       *)
THEOREM SnapshotIsTrueHolds == Spec => SnapshotIsTrue
<1> DEFINE True ==
      cursor'.catchup = None /\ cursor' # cursor =>
        \A f \in Feed, i \in ItemId :
          LET item == feeds[f][i]
              known == /\ item # None /\ item.lastmod < cursor'.observed
                       /\ cursor'.kdq_observed[f] = cursor'.observed
                       /\ \/ cursor.kdq_observed[f] # None
                             /\ item.lastmod >= cursor.kdq_observed[f] - Overlap
                          \/ item.lastmod >= cursor'.observed - Lookback
          IN known => (<<f, i>> \in listed' <=> Future(item.deadline))
<1>1. IInv /\ [Next]_vars => [True]_vars
  <2> SUFFICES ASSUME IInv, Next, cursor'.catchup = None, cursor' # cursor PROVE True
    OBVIOUS
  <2>1. PollAny
    BY DEF Next, Tick, Publish, Retire
  <2>2. UNCHANGED <<clock, feeds>>
    BY <2>1 DEF PollAny
  <2>3. PICK read :
          /\ Moved(read)
          /\ \/ UNCHANGED <<cursor, listed>>
             \/ /\ cursor' = [cursor EXCEPT !.kdq_observed = ReadTo(read),
                                            !.catchup = Advanced(Cycle, read)]
                /\ UNCHANGED listed
             \/ \E tracked : Ended(read, tracked)
    BY <2>1, PollMoves, AustriaAssumption
  <2>4. cursor'.catchup = Advanced(Cycle, read) => FALSE
    BY <2>3, AustriaAssumption DEF Moved, CycleOK, AustriaAssumption
  <2>5. PICK tracked : Ended(read, tracked)
    <3>1. cursor \in Cursor
      BY DEF IInv, TypeOK
    <3>2. DOMAIN cursor = {"observed", "kdq_observed", "tracked", "catchup"}
      BY <3>1 DEF Cursor
    <3> QED  BY <2>3, <2>4, <3>2
  <2>6. cursor'.observed = Cycle.through /\ cursor'.kdq_observed = ReadTo(read)
    BY <2>5 DEF Ended
  <2> QED  BY <2>2, <2>3, <2>5, <2>6, EndIsTrue, AustriaAssumption
<1> QED  BY <1>1, InvariantHolds, PTL DEF Spec, SnapshotIsTrue
=============================================================================
