-------------------------- MODULE ConnectorsProofs --------------------------
(***************************************************************************)
(* Proofs about Connectors, for all seventeen connectors: types, that      *)
(* nothing is missed, that nothing stays, and that polls reach the present *)
(* however long the outage.                                                *)
(*                                                                         *)
(* Complete and Sound speak of the calls that read up to the present.      *)
(* What makes them inductive is what a connector's cursor knows between    *)
(* two calls (Kept): the state of each lot after the notices of the days   *)
(* read for good, those of the overlap being applied again by the next     *)
(* call.  Its part for a connector is proved next to its lemmas, here and  *)
(* in ConnectorPolls, and put together in Inv.                             *)
(***************************************************************************)
EXTENDS ConnectorPolls

-----------------------------------------------------------------------------
(* Poland: notices are applied in their order, whatever is known already.   *)
(* A procedure is tendered once, and once closed it is closed for good.     *)
Ending == {"close", "leave"}

ClosedLast ==
  connector = "poland" =>
    \A x, y \in notices :
      x.lot = y.lot /\ x.kind \in Ending /\ y.kind \in {"tender", "correct"} => y.at < x.at

(* What Poland's register publishes: one tender for each procedure,         *)
(* corrections that are dated, and what ends it.                            *)
LEMMA PolandKinds ==
  ASSUME connector = "poland", Register
  PROVE  /\ \A n \in notices : n.kind \in {"tender", "correct"} \cup Ending
         /\ \A n \in notices : n.kind = "correct" => n.deadline # None
         /\ \A n, o \in notices :
              n.lot = o.lot /\ n.kind = "tender" /\ o.kind = "tender" => n = o
         /\ connector \notin Republishes
         /\ connector \notin {"germany", "latvia", "us", "canada", "switzerland", "uk", "ecuador"}
         /\ connector \notin Plain /\ ~Gap
<1>1. connector \notin Republishes
  BY ConnectorsAssumption DEF Republishing
<1>2. \A n \in notices : n.kind \in {"tender", "correct"} \cup Ending
  BY DEF Register, Terms, Kinds, Poland!Kinds, Ending
<1> QED
  BY <1>1, <1>2 DEF Register, Terms, Plain, Gap

(* A publication keeps ClosedLast.                                          *)
LEMMA ClosedLastPublish ==
  ASSUME Register, ClosedLast, NEW l \in Lot, NEW n, New(n, l)
  PROVE  ClosedLast'
<1> SUFFICES ASSUME connector = "poland" PROVE ClosedLast'
  BY NewMine DEF ClosedLast
<1>1. notices' = notices \cup {n} /\ connector' = connector /\ n.lot = l /\ n.kind \in Kinds
  BY NewMine
<1>2. /\ n.at \in Nat
      /\ \A o \in notices : o.day <= n.day => o.at < n.at
  BY NewTimes
<1>3. CASE n.kind \in Ending
  <2>1. PICK t \in notices : t.lot = l /\ t.kind = "tender" /\ t.day <= n.day
    BY <1>3, NewTerms DEF Ending
  <2>2. ASSUME NEW y \in notices, y.lot = l, y.kind \in {"tender", "correct"}
        PROVE  y.at < n.at
    <3>1. y.kind = "tender" => y = t
      BY <2>1, <2>2, PolandKinds
    <3>2. y.kind = "correct" => y.day <= n.day
      BY DEF New
    <3> QED
      BY <1>2, <2>1, <2>2, <3>1, <3>2
  <2> QED
    BY <1>1, <1>3, <2>2 DEF ClosedLast, Ending
<1>4. CASE n.kind = "correct"
  <2>1. OpenBy(Mine(l))
    BY <1>4, NewTerms, OfToday
  <2>2. Mine(l) # {} /\ Newest(Mine(l)).kind \in {"tender", "correct", "reopen"}
    BY <2>1 DEF OpenBy
  <2>3. Newest(Mine(l)) \in notices /\ Newest(Mine(l)).lot = l
        /\ \A o \in Mine(l) : o.at <= Newest(Mine(l)).at
    BY <2>2, OfToday, NewestOf DEF Mine
  <2>4. Newest(Mine(l)).kind \in {"tender", "correct"}
    BY <2>2, <2>3, PolandKinds DEF Ending
  <2>5. ASSUME NEW x \in notices, x.lot = l, x.kind \in Ending PROVE FALSE
    <3>1. Newest(Mine(l)).at < x.at
      BY <2>3, <2>4, <2>5 DEF ClosedLast
    <3>2. x \in Mine(l)
      BY <2>5 DEF Mine
    <3> QED
      BY <2>3, <3>1, <3>2, Times
  <2> QED
    BY <1>1, <1>4, <2>5 DEF ClosedLast, Ending
<1>5. CASE n.kind = "tender"
  <2>1. \A t \in notices : t.lot = l => t.kind # "tender"
    BY <1>5, NewTerms, PolandKinds
  <2>2. \A x \in notices : x.lot # l \/ x.kind \notin Ending
    BY <2>1 DEF Register, Ending
  <2> QED
    BY <1>1, <1>5, <2>2 DEF ClosedLast, Ending
<1> QED
  BY <1>1, <1>3, <1>4, <1>5 DEF Kinds, Poland!Kinds, Ending

(* So does everything else.                                                 *)
LEMMA ClosedLastRest ==
  /\ Init => ClosedLast
  /\ connector' = connector /\ notices' = notices /\ ClosedLast => ClosedLast'
BY DEF Init, ClosedLast

(* A lot that has ended is not open, and one that is not open stays so.     *)
LEMMA EndedIs ==
  ASSUME connector = "poland", Register, ClosedLast, NEW l \in Lot,
         NEW x \in Mine(l), x.kind \in Ending
  PROVE  ~OpenBy(Mine(l))
<1>1. /\ Newest(Mine(l)) \in notices /\ Newest(Mine(l)).lot = l
      /\ x \in notices /\ x.lot = l /\ x.at <= Newest(Mine(l)).at
  BY OfToday, NewestOf DEF Mine
<1>2. ~(Newest(Mine(l)).at < x.at)
  BY <1>1, Times
<1>3. Newest(Mine(l)).kind \notin {"tender", "correct"}
  BY <1>1, <1>2 DEF ClosedLast
<1> QED
  BY <1>1, <1>3, PolandKinds DEF OpenBy, Ending

(* A procedure that has not ended is open until its deadline.               *)
LEMMA OpenTender ==
  ASSUME connector = "poland", Register, NEW l \in Lot, Mine(l) # {},
         \A n \in Mine(l) : n.kind \notin Ending
  PROVE  OpenBy(Mine(l)) <=> Future(DeadlineOf(Mine(l)), today)
<1>1. Newest(Mine(l)) \in Mine(l) /\ Newest(Mine(l)) \in notices
  BY OfToday, NewestOf
<1>2. Newest(Mine(l)).kind \in {"tender", "correct"}
  BY <1>1, PolandKinds
<1>3. Dated(Mine(l)) # {}
  BY <1>1, <1>2 DEF Dated
<1> QED
  BY <1>2, <1>3 DEF OpenBy

(* One that is not open is not opened again by a notice.                    *)
LEMMA NotOpenAgain ==
  ASSUME connector = "poland", Register, NEW k \in Lot, Mine(k) # {}, ~OpenBy(Mine(k)),
         NEW l \in Lot, NEW n, New(n, l)
  PROVE  ~OpenBy(Mine(k))'
<1>1. /\ n.lot = l /\ Mine(l)' = Mine(l) \cup {n} /\ n.kind \in Kinds
      /\ \A m \in Lot : m # l => Mine(m)' = Mine(m)
      /\ connector' = connector /\ today' = today
  BY NewMine
<1>2. CASE k # l
  BY <1>1, <1>2 DEF OpenBy, Dated, DeadlineOf, Newest, Future
<1>3. CASE k = l
  <2>1. n.kind \in Ending
    <3>1. n.kind # "correct"
      BY <1>3, NewTerms, OfToday
    <3>2. n.kind # "tender"
      <4>1. Tenders(Mine(l)) # {}
        BY <1>3, HasTender
      <4> QED
        BY <4>1, NewTerms, PolandKinds DEF Tenders, Mine
    <3> QED
      BY <1>1, <3>1, <3>2 DEF Kinds, Poland!Kinds, Ending
  <2>2. Dated(Mine(l) \cup {n}) = Dated(Mine(l))
    BY <2>1 DEF Dated, Ending
  <2>3. Newest(Mine(l) \cup {n}) = n \/ Newest(Mine(l) \cup {n}) = Newest(Mine(l))
    BY <1>3, OfToday, NewestWith
  <2>4. ~OpenBy(Mine(l) \cup {n})
    <3>1. CASE Newest(Mine(l) \cup {n}) = n
      BY <2>1, <3>1 DEF OpenBy, Ending
    <3>2. CASE Newest(Mine(l) \cup {n}) = Newest(Mine(l))
      <4>1. DeadlineOf(Mine(l) \cup {n}) = DeadlineOf(Mine(l))
        BY <2>2 DEF DeadlineOf
      <4> QED
        BY <1>3, <2>2, <3>2, <4>1 DEF OpenBy
    <3> QED
      BY <2>3, <3>1, <3>2
  <2>5. OpenBy(Mine(l))' <=> OpenBy(Mine(l) \cup {n})
    BY <1>1 DEF OpenBy, Dated, DeadlineOf, Newest, Future
  <2> QED
    BY <1>3, <2>4, <2>5
<1> QED
  BY <1>2, <1>3

(* What is known of a procedure.                                            *)
Procedures == [Lot -> Poland!Procedure \cup {None}]

Followed == [tracked : Procedures, closed : Procedures]

(* A tender whose day is not read again is tracked with its newest          *)
(* deadline, unless one is still to be read, or is not open.                *)
PolandLot(l, start) ==
  LET t == cursor.tracked[l]
      c == cursor.closed[l] IN
  /\ t # None \/ c # None => Mine(l) # {}
  /\ t # None => c = None
  /\ \A T \in Tenders(Mine(l)) :
       /\ T.day < start /\ t # None =>
            /\ \A n \in Mine(l) : n.day < start => n.kind \notin Ending
            /\ (\A n \in Dated(Mine(l)) : n.day < start) => t.deadline = DeadlineOf(Mine(l))
       /\ T.day < start /\ first <= T.day /\ t = None => ~OpenBy(Mine(l))
       /\ Visible(c) => T.day < start
       /\ Visible(t) => T.day <= cursor.through
  /\ listed[l] = Undated => Visible(t) \/ Visible(c)
  /\ Visible(t) \/ Visible(c) => l \in shown

PolandKept ==
  cursor # None =>
    /\ first # None /\ cursor.through <= today
    /\ \A l \in Lot : PolandLot(l, cursor.through - Overlap)

(* What a notice does to a procedure (_process_events,                      *)
(* poland_bzp.py:406-443).                                                  *)
LEMMA ProcessIs ==
  ASSUME connector = "poland", Register, NEW s \in Followed, NEW n \in notices
  PROVE  LET r == Poland!ProcessEvent(s, n)
             t == s.tracked[n.lot] IN
         /\ r \in Followed
         /\ \A l \in Lot : l # n.lot => r.tracked[l] = s.tracked[l] /\ r.closed[l] = s.closed[l]
         /\ n.kind = "tender" =>
              /\ r.tracked[n.lot] # None /\ r.tracked[n.lot].deadline = n.deadline
              /\ Visible(r.tracked[n.lot]) <=> Visible(t)
              /\ r.closed[n.lot] = None
         /\ n.kind = "correct" /\ t # None =>
              /\ r.tracked[n.lot] # None /\ r.tracked[n.lot].deadline = n.deadline
              /\ Visible(r.tracked[n.lot]) <=> Visible(t)
              /\ r.closed[n.lot] = s.closed[n.lot]
         /\ n.kind \in Ending /\ t # None =>
              r.tracked[n.lot] = None /\ r.closed[n.lot] = t
         /\ n.kind # "tender" /\ t = None => r = s
<1> DEFINE t == s.tracked[n.lot]
           r == Poland!ProcessEvent(s, n)
           made == Poland!FromContract(t, n)
           set == [t EXCEPT !.deadline = n.deadline]
<1>1. /\ n.lot \in Lot /\ n.deadline \in Int \cup {None}
      /\ n.kind \in {"tender", "correct", "close", "leave"}
      /\ n.kind = "correct" => n.deadline # None
  BY Times, PolandKinds DEF Ending
<1>2. /\ s.tracked \in Procedures /\ s.closed \in Procedures
      /\ s = [tracked |-> s.tracked, closed |-> s.closed]
  BY DEF Followed
<1>3. t \in Poland!Procedure \cup {None}
  BY <1>1, <1>2 DEF Procedures
<1>4. /\ made \in Poland!Procedure /\ made # None /\ made.deadline = n.deadline
      /\ Visible(made) <=> Visible(t)
  <2> DEFINE b == Visible(t)
  <2>1. b \in BOOLEAN
    <3> HIDE DEF t
    <3> QED
      BY <1>3, Zenon DEF Visible, Poland!Procedure
  <2>2. made = [deadline |-> n.deadline, visible |-> b]
    BY DEF Poland!FromContract, Poland!Visible, Visible
  <2> HIDE DEF b, t, made
  <2>3. made \in Poland!Procedure /\ made.deadline = n.deadline /\ made.visible = b
    BY <1>1, <2>1, <2>2 DEF Poland!Procedure
  <2>4. made # None
    BY <2>3, NoneAssumption
  <2>5. Visible(made) <=> b
    BY <2>3, <2>4, Zenon DEF Visible
  <2> QED
    BY <2>3, <2>4, <2>5 DEF b
<1>5. t # None => /\ set \in Poland!Procedure /\ set # None /\ set.deadline = n.deadline
                  /\ Visible(set) <=> Visible(t)
  <2> HIDE DEF t
  <2> SUFFICES ASSUME t # None
               PROVE  /\ set \in Poland!Procedure /\ set # None /\ set.deadline = n.deadline
                      /\ Visible(set) <=> Visible(t)
    OBVIOUS
  <2>1. /\ set \in Poland!Procedure /\ set.deadline = n.deadline /\ set.visible = t.visible
    BY <1>1, <1>3 DEF Poland!Procedure
  <2> HIDE DEF set
  <2>2. set # None
    BY <2>1, NoneAssumption
  <2>3. Visible(set) <=> Visible(t)
    BY <2>1, <2>2, Zenon DEF Visible
  <2> QED
    BY <2>1, <2>2, <2>3
<1>6. r = CASE n.kind = "tender" -> [s EXCEPT !.tracked[n.lot] = made, !.closed[n.lot] = None]
            [] n.kind = "correct" /\ t # None -> [s EXCEPT !.tracked[n.lot] = Poland!Refreshed(t, n)]
            [] n.kind \in {"close", "leave"} /\ t # None ->
                 [s EXCEPT !.tracked[n.lot] = None, !.closed[n.lot] = t]
            [] OTHER -> s
  BY DEF Poland!ProcessEvent
<1> HIDE DEF t, r, made
<1>7. CASE n.kind = "tender"
  <2> DEFINE T == [s.tracked EXCEPT ![n.lot] = made]
             C == [s.closed EXCEPT ![n.lot] = None]
  <2>1. r = [s EXCEPT !.tracked[n.lot] = made, !.closed[n.lot] = None]
    BY <1>6, <1>7
  <2>2. r = [tracked |-> T, closed |-> C]
    BY <1>2, <2>1
  <2>3. /\ T \in Procedures /\ C \in Procedures /\ T[n.lot] = made /\ C[n.lot] = None
        /\ \A l \in Lot : l # n.lot => T[l] = s.tracked[l] /\ C[l] = s.closed[l]
    BY <1>1, <1>2, <1>4 DEF Procedures
  <2> HIDE DEF T, C
  <2>4. r.tracked = T /\ r.closed = C /\ r \in Followed
    BY <2>2, <2>3 DEF Followed
  <2> QED
    BY <1>4, <1>7, <2>3, <2>4 DEF r, t, Ending
<1>8. CASE n.kind = "correct" /\ t # None
  <2> DEFINE T == [s.tracked EXCEPT ![n.lot] = set]
  <2>1. Poland!Refreshed(t, n) = set
    BY <1>1, <1>8 DEF Poland!Refreshed
  <2>2. r = [s EXCEPT !.tracked[n.lot] = set]
    BY <1>6, <1>8, <2>1
  <2> HIDE DEF set
  <2>3. r = [tracked |-> T, closed |-> s.closed]
    BY <1>2, <2>2
  <2>4. /\ T \in Procedures /\ T[n.lot] = set
        /\ \A l \in Lot : l # n.lot => T[l] = s.tracked[l]
    BY <1>1, <1>2, <1>5, <1>8 DEF Procedures
  <2> HIDE DEF T
  <2>5. r.tracked = T /\ r.closed = s.closed /\ r \in Followed
    BY <1>2, <2>3, <2>4 DEF Followed
  <2> QED
    BY <1>5, <1>8, <2>4, <2>5 DEF r, t, Ending
<1>9. CASE n.kind \in {"close", "leave"} /\ t # None
  <2> DEFINE T == [s.tracked EXCEPT ![n.lot] = None]
             C == [s.closed EXCEPT ![n.lot] = t]
  <2>1. r = [s EXCEPT !.tracked[n.lot] = None, !.closed[n.lot] = t]
    BY <1>6, <1>9
  <2>2. r = [tracked |-> T, closed |-> C]
    BY <1>2, <2>1
  <2>3. /\ T \in Procedures /\ C \in Procedures /\ T[n.lot] = None /\ C[n.lot] = t
        /\ \A l \in Lot : l # n.lot => T[l] = s.tracked[l] /\ C[l] = s.closed[l]
    BY <1>1, <1>2, <1>3 DEF Procedures
  <2> HIDE DEF T, C
  <2>4. r.tracked = T /\ r.closed = C /\ r \in Followed
    BY <2>2, <2>3 DEF Followed
  <2> QED
    BY <1>9, <2>3, <2>4 DEF r, t, Ending
<1>10. CASE n.kind # "tender" /\ t = None
  <2>1. r = s
    BY <1>6, <1>10
  <2> QED
    BY <1>10, <2>1 DEF r, t
<1> QED
  BY <1>1, <1>7, <1>8, <1>9, <1>10

(* Replay is made of ProcessEvent.                                          *)
LEMMA NoticesReplay ==
  ASSUME connector = "poland", Register, NEW ns \in SUBSET notices, NEW s0 \in Followed
  PROVE  \E h : /\ h[{}] = s0
                /\ \A k \in SUBSET ns : k # {} =>
                     h[k] = Poland!ProcessEvent(h[k \ {Newest(k)}], Newest(k))
                /\ h[ns] = Poland!Replay(Poland!ProcessEvent, Poland!Newest, s0, ns)
<1> DEFINE S == Followed
           f == [x \in S \X ns |-> Poland!ProcessEvent(x[1], x[2])]
           last == [k \in SUBSET ns |-> Newest(k)]
           E(g) == [k \in SUBSET ns |->
                      IF k = {} THEN s0 ELSE Poland!ProcessEvent(g[k \ {Newest(k)}], Newest(k))]
           h == CHOOSE g : g = E(g)
<1>1. f \in [S \X ns -> S]
  BY ProcessIs
<1>2. \A k \in SUBSET ns : k # {} => last[k] \in k
  BY NewestOf
<1>3. IsFiniteSet(ns) /\ s0 \in S
  BY FS_Subset DEF Register
<1>4. \A s \in S, n \in ns : f[<<s, n>>] = Poland!ProcessEvent(s, n)
  OBVIOUS
<1>5. \A k \in SUBSET ns : last[k] = Newest(k)
  OBVIOUS
<1> HIDE DEF f, last, S
<1>6. PICK g \in [SUBSET ns -> S] :
        g = [k \in SUBSET ns |-> IF k = {} THEN s0 ELSE f[g[k \ {last[k]}], last[k]]]
  <2>1. Replays(ns, S, s0, f, last)
    BY <1>1, <1>2, <1>3 DEF Replays
  <2>2. \E g \in [SUBSET ns -> S] : Replayed(g, ns, s0, f, last)
    BY <2>1, ReplayExists
  <2> QED
    BY <2>2 DEF Replayed
<1>7. ASSUME NEW k \in SUBSET ns
      PROVE  (IF k = {} THEN s0 ELSE f[g[k \ {last[k]}], last[k]])
               = IF k = {} THEN s0 ELSE Poland!ProcessEvent(g[k \ {Newest(k)}], Newest(k))
  <2>1. k # {} => g[k \ {last[k]}] \in S /\ last[k] \in ns
    BY <1>2
  <2>2. k # {} => f[g[k \ {last[k]}], last[k]] = Poland!ProcessEvent(g[k \ {last[k]}], last[k])
    BY <1>4, <2>1
  <2> QED
    BY <1>5, <2>2
<1>8. g = E(g)
  BY <1>6, <1>7, Zenon
<1>9. h = E(h)
  BY <1>8, Zenon
<1>10. Poland!Replay(Poland!ProcessEvent, Poland!Newest, s0, ns) = h[ns]
  BY DEF Poland!Replay, Poland!Newest, Newest
<1> HIDE DEF h
<1>11. h[{}] = s0 /\ \A k \in SUBSET ns : k # {} =>
                      h[k] = Poland!ProcessEvent(h[k \ {Newest(k)}], Newest(k))
  BY <1>9, Zenon
<1> QED
  BY <1>10, <1>11

(* What replaying some notices of a lot, none left out before the newest,   *)
(* makes of what was known before.                                          *)
Prefix(k, ns) == \A n \in k, o \in ns : o.at <= n.at => o \in k

FollowedLot(b, s, l, k, ns, start) ==
  LET t == s.tracked[l]
      c == s.closed[l]
      ms == {n \in k : n.lot = l} IN
  /\ t # None \/ c # None => Mine(l) # {}
  /\ t # None => c = None
  /\ Visible(t) => Visible(b.tracked[l])
  /\ Visible(c) => Visible(b.tracked[l]) \/ Visible(b.closed[l])
  /\ listed[l] = Undated => Visible(t) \/ Visible(c)
  /\ \A T \in Tenders(Mine(l)) :
       /\ t # None /\ (T \in k \/ T.day < start) =>
            /\ \A n \in ms : n.kind \notin Ending
            /\ T \notin k => b.tracked[l] # None
            /\ T \notin k /\ Dated(ms) = {} => t.deadline = b.tracked[l].deadline
            /\ Dated(ms) # {} => t.deadline = DeadlineOf(ms)
       /\ t = None /\ (T \in k \/ (T.day < start /\ b.tracked[l] # None)) =>
            \E n \in ms : n.kind \in Ending
       /\ Visible(c) => T \in k \/ T.day < start
       /\ Visible(t) => T \in ns \/ T.day < start

(* A notice of another procedure changes nothing.                           *)
LEMMA OthersFollowed ==
  ASSUME NEW ns \in SUBSET notices, NEW b, NEW s, NEW r, NEW start, NEW k, NEW n, NEW l,
         n.lot # l, r.tracked[l] = s.tracked[l], r.closed[l] = s.closed[l],
         FollowedLot(b, s, l, k \ {n}, ns, start)
  PROVE  FollowedLot(b, r, l, k, ns, start)
<1>1. {o \in k : o.lot = l} = {o \in k \ {n} : o.lot = l}
  OBVIOUS
<1>2. \A T \in Tenders(Mine(l)) : T \in k <=> T \in k \ {n}
  BY DEF Tenders, Mine
<1> QED
  BY <1>1, <1>2 DEF FollowedLot

(* One more notice, the newest of those applied.                            *)
LEMMA FollowedStep ==
  ASSUME connector = "poland", Register, ClosedLast, NEW ns \in SUBSET notices,
         NEW start \in Int, \A n \in ns : n.day >= start,
         NEW b \in Followed, NEW s \in Followed,
         NEW k \in SUBSET ns, k # {}, Prefix(k, ns),
         \A l \in Lot : FollowedLot(b, s, l, k \ {Newest(k)}, ns, start)
  PROVE  /\ Poland!ProcessEvent(s, Newest(k)) \in Followed
         /\ \A l \in Lot :
              FollowedLot(b, Poland!ProcessEvent(s, Newest(k)), l, k, ns, start)
<1> DEFINE n == Newest(k)
           r == Poland!ProcessEvent(s, n)
<1>1. /\ n \in k /\ n \in ns /\ n \in notices /\ n.lot \in Lot /\ n.at \in Nat
      /\ n.day \in Nat /\ n.day >= start
      /\ \A o \in k : o.at <= n.at
  BY NewestOf, Times
<1>2. \A o \in notices : o.at \in Nat
  BY Times
<1> HIDE DEF n, r
<1>3. r \in Followed
  BY <1>1, ProcessIs DEF r
<1>4. ASSUME NEW l \in Lot, l # n.lot PROVE FollowedLot(b, r, l, k, ns, start)
  <2>1. r.tracked[l] = s.tracked[l] /\ r.closed[l] = s.closed[l]
    BY <1>1, <1>4, ProcessIs DEF r
  <2> QED
    BY <1>4, <2>1, OthersFollowed DEF n
<1>5. ASSUME NEW l \in Lot, l = n.lot PROVE FollowedLot(b, r, l, k, ns, start)
  <2> DEFINE t == s.tracked[l]
             c == s.closed[l]
             ms == {o \in k : o.lot = l}
             old == {o \in k \ {n} : o.lot = l}
  <2>1. /\ n \in Mine(l) /\ n \in ms /\ ms = old \cup {n} /\ n \notin old
        /\ ms \in SUBSET notices
    BY <1>1, <1>5 DEF Mine
  <2>2. FollowedLot(b, s, l, k \ {n}, ns, start)
    BY DEF n
  <2>3. /\ t # None => c = None
        /\ Visible(t) => Visible(b.tracked[l])
        /\ Visible(c) => Visible(b.tracked[l]) \/ Visible(b.closed[l])
        /\ listed[l] = Undated => Visible(t) \/ Visible(c)
    BY <2>2 DEF FollowedLot
  <2>4. ASSUME NEW T \in Tenders(Mine(l))
        PROVE  /\ t # None /\ (T \in k \ {n} \/ T.day < start) =>
                    /\ \A o \in old : o.kind \notin Ending
                    /\ T \notin k \ {n} => b.tracked[l] # None
                    /\ T \notin k \ {n} /\ Dated(old) = {} => t.deadline = b.tracked[l].deadline
                    /\ Dated(old) # {} => t.deadline = DeadlineOf(old)
               /\ t = None /\ (T \in k \ {n} \/ (T.day < start /\ b.tracked[l] # None)) =>
                    \E o \in old : o.kind \in Ending
               /\ Visible(c) => T \in k \ {n} \/ T.day < start
               /\ Visible(t) => T \in ns \/ T.day < start
    BY <2>2 DEF FollowedLot
  <2>5. n.kind \in {"tender", "correct"} \cup Ending
    BY <1>1, PolandKinds
  <2>6. n.kind \in {"tender", "correct"} => DeadlineOf(ms) = n.deadline /\ Dated(ms) # {}
    <3> SUFFICES ASSUME n.kind \in {"tender", "correct"}
                 PROVE  DeadlineOf(ms) = n.deadline /\ Dated(ms) # {}
      OBVIOUS
    <3>1. Newest(ms) = n
      <4>1. \A o \in ms : o.at <= n.at
        BY <1>1
      <4> QED
        BY <2>1, <4>1, NewestOf
    <3> QED
      BY <2>1, <3>1, DeadlineOfNewest
  <2>7. \A T \in Tenders(Mine(l)) : T \in notices /\ T.lot = l /\ T.kind = "tender" /\ T.day \in Int
    BY Times DEF Tenders, Mine
  <2>8. CASE n.kind = "tender"
    <3>1. /\ r.tracked[l] # None /\ r.tracked[l].deadline = n.deadline
          /\ Visible(r.tracked[l]) <=> Visible(t)
          /\ r.closed[l] = None
      BY <1>1, <1>5, <2>8, ProcessIs DEF r
    <3>2. ~Visible(r.closed[l])
      BY <3>1 DEF Visible
    <3>3. \A T \in Tenders(Mine(l)) : T = n
      BY <1>1, <1>5, <2>7, <2>8, PolandKinds
    <3>4. n \in Tenders(Mine(l))
      BY <2>1, <2>8 DEF Tenders
    <3>5. ~Visible(c)
      <4>1. Visible(c) => n \in k \ {n} \/ n.day < start
        BY <2>4, <3>4
      <4>2. ~(n.day < start) /\ n \notin k \ {n}
        BY <1>1
      <4> QED
        BY <4>1, <4>2
    <3>6. \A o \in ms : o.kind \notin Ending
      <4>1. ASSUME NEW o \in ms, o.kind \in Ending PROVE FALSE
        <5>1. n.at < o.at
          BY <1>1, <1>5, <2>1, <2>8, <4>1 DEF ClosedLast
        <5> QED
          BY <1>1, <1>2, <2>1, <5>1
      <4> QED
        BY <4>1
    <3> HIDE DEF t, c, ms, old
    <3> QED
      BY <1>1, <2>1, <2>3, <2>6, <2>8, <3>1, <3>2, <3>3, <3>5, <3>6 DEF FollowedLot, ms
  <2>9. CASE n.kind = "correct" /\ t # None
    <3>1. /\ r.tracked[l] # None /\ r.tracked[l].deadline = n.deadline
          /\ Visible(r.tracked[l]) <=> Visible(t)
          /\ r.closed[l] = c
      BY <1>1, <1>5, <2>9, ProcessIs DEF r
    <3>2. \A T \in Tenders(Mine(l)) : T # n
      BY <2>7, <2>9
    <3>3. n.kind \notin Ending
      BY <2>9 DEF Ending
    <3>4. Mine(l) # {}
      BY <2>1
    <3> HIDE DEF t, c, ms, old
    <3>5. ASSUME NEW T \in Tenders(Mine(l))
          PROVE  /\ T \in k \/ T.day < start =>
                      /\ \A o \in ms : o.kind \notin Ending
                      /\ T \notin k => b.tracked[l] # None
                 /\ Visible(c) => T \in k \/ T.day < start
                 /\ Visible(t) => T \in ns \/ T.day < start
      BY <2>1, <2>4, <2>9, <3>2, <3>3
    <3> QED
      BY <2>3, <2>6, <2>9, <3>1, <3>4, <3>5 DEF FollowedLot, ms
  <2>10. CASE n.kind \in Ending /\ t # None
    <3>1. r.tracked[l] = None /\ r.closed[l] = t
      BY <1>1, <1>5, <2>10, ProcessIs DEF r
    <3>2. ~Visible(r.tracked[l])
      BY <3>1 DEF Visible
    <3>3. ~Visible(c)
      BY <2>3, <2>10 DEF Visible
    <3>4. ASSUME NEW T \in Tenders(Mine(l)), Visible(t) PROVE T \in k \/ T.day < start
      <4>1. T \in ns \/ T.day < start
        BY <2>4, <3>4
      <4>2. T.at < n.at
        BY <1>1, <1>5, <2>7, <2>10 DEF ClosedLast
      <4>3. T \in ns => T \in k
        BY <1>1, <1>2, <2>7, <4>2 DEF Prefix
      <4> QED
        BY <4>1, <4>3
    <3>5. \E o \in ms : o.kind \in Ending
      BY <2>1, <2>10
    <3>6. Mine(l) # {}
      BY <2>1
    <3> HIDE DEF t, c, ms, old
    <3> QED
      BY <2>3, <2>10, <3>1, <3>2, <3>3, <3>4, <3>5, <3>6 DEF FollowedLot, ms
  <2>11. CASE n.kind # "tender" /\ t = None
    <3>1. r = s
      BY <1>1, <1>5, <2>11, ProcessIs DEF r
    <3>2. \A T \in Tenders(Mine(l)) : T # n
      BY <2>7, <2>11
    <3>3. Mine(l) # {}
      BY <2>1
    <3>4. ~Visible(t)
      BY <2>11 DEF Visible
    <3>5. ASSUME NEW T \in Tenders(Mine(l))
          PROVE  /\ T \in k \/ (T.day < start /\ b.tracked[l] # None) =>
                      \E o \in ms : o.kind \in Ending
                 /\ Visible(c) => T \in k \/ T.day < start
      <4> HIDE DEF t, c, ms, old
      <4> QED
        BY <2>1, <2>4, <2>11, <3>2
    <3>6. r.tracked[l] = t /\ r.closed[l] = c
      BY <3>1
    <3> HIDE DEF t, c, ms, old
    <3> QED
      BY <2>3, <2>11, <3>3, <3>4, <3>5, <3>6 DEF FollowedLot, ms
  <2> QED
    BY <2>5, <2>8, <2>9, <2>10, <2>11 DEF Ending
<1> QED
  BY <1>3, <1>4, <1>5 DEF r, n

(* Applied from the first to the last (FollowedLot).                        *)
LEMMA FollowedReplay ==
  ASSUME connector = "poland", Register, ClosedLast, NEW ns \in SUBSET notices,
         NEW start \in Int, \A n \in ns : n.day >= start, NEW b \in Followed,
         \A l \in Lot : FollowedLot(b, b, l, {}, ns, start)
  PROVE  LET s == Poland!Replay(Poland!ProcessEvent, Poland!Newest, b, ns) IN
         /\ s \in Followed
         /\ \A l \in Lot : FollowedLot(b, s, l, ns, ns, start)
<1>1. PICK h : /\ h[{}] = b
               /\ \A k \in SUBSET ns : k # {} =>
                    h[k] = Poland!ProcessEvent(h[k \ {Newest(k)}], Newest(k))
               /\ h[ns] = Poland!Replay(Poland!ProcessEvent, Poland!Newest, b, ns)
  BY NoticesReplay
<1> DEFINE J == {x \in (SUBSET ns) \X Followed :
                   Prefix(x[1], ns) => \A l \in Lot : FollowedLot(b, x[2], l, x[1], ns, start)}
           last == [k \in SUBSET ns |-> Newest(k)]
<1>2. \A k \in SUBSET ns : k # {} => last[k] \in k
  BY NewestOf
<1>3. h[{}] \in Followed /\ <<{}, h[{}]>> \in J
  BY <1>1
<1>4. ASSUME NEW k \in SUBSET ns, k # {}, h[k \ {last[k]}] \in Followed,
             <<k \ {last[k]}, h[k \ {last[k]}]>> \in J
      PROVE  h[k] \in Followed /\ <<k, h[k]>> \in J
  <2> DEFINE n == Newest(k)
             s == h[k \ {n}]
  <2>1. last[k] = n /\ n \in k /\ \A o \in k : o.at <= n.at
    BY <1>4, NewestOf
  <2>2. h[k] = Poland!ProcessEvent(s, n)
    BY <1>1, <1>4
  <2>3. Prefix(k, ns) => Prefix(k \ {n}, ns)
    <3>1. ASSUME Prefix(k, ns), NEW m \in k \ {n}, NEW o \in ns, o.at <= m.at
          PROVE  o \in k \ {n}
      <4>1. o \in k
        BY <3>1 DEF Prefix
      <4>2. m.at <= n.at /\ m.at \in Nat /\ n.at \in Nat /\ m # n /\ m \in notices /\ n \in notices
        BY <1>4, <2>1, <3>1, Times
      <4>3. m.at < n.at
        BY <4>2, Times
      <4>4. o # n
        BY <3>1, <4>2, <4>3
      <4> QED
        BY <4>1, <4>4
    <3> HIDE DEF n
    <3> QED
      BY <3>1, Zenon DEF Prefix
  <2>4. s \in Followed /\ (Prefix(k, ns) => \A l \in Lot : FollowedLot(b, s, l, k \ {n}, ns, start))
    <3> HIDE DEF n
    <3> QED
      BY <1>4, <2>1, <2>3
  <2> HIDE DEF s
  <2>5. h[k] \in Followed
    BY <1>4, <2>1, <2>2, <2>4, ProcessIs
  <2>6. ASSUME Prefix(k, ns)
        PROVE  \A l \in Lot : FollowedLot(b, h[k], l, k, ns, start)
    <3>1. \A l \in Lot : FollowedLot(b, s, l, k \ {Newest(k)}, ns, start)
      BY <2>4, <2>6
    <3>2. \A l \in Lot : FollowedLot(b, Poland!ProcessEvent(s, Newest(k)), l, k, ns, start)
      BY <1>4, <2>4, <2>6, <3>1, FollowedStep, Zenon
    <3> QED
      BY <2>2, <3>2
  <2> QED
    BY <2>5, <2>6
<1>5. IsFiniteSet(ns)
  BY FS_Subset DEF Register
<1>6. Prefix(ns, ns)
  BY DEF Prefix
<1> HIDE DEF J, last
<1>7. Inductive(ns, Followed, J, h, last)
  BY <1>2, <1>3, <1>4, <1>5, Zenon DEF Inductive
<1>8. h[ns] \in Followed /\ <<ns, h[ns]>> \in J
  BY <1>7, ReplayInduction
<1> QED
  BY <1>1, <1>6, <1>8 DEF J

(* Which procedures are tracked on, and which of them are visible.          *)
LEMMA ProcedureSurvivor ==
  ASSUME NEW s \in Followed, NEW l \in Lot, today \in Int
  PROVE  LET t == s.tracked[l]
             r == Poland!Survivors(s, today)[l] IN
         /\ r \in Poland!Procedure \cup {None}
         /\ r # None <=> t # None /\ ~Elapsed(t.deadline, today)
         /\ r # None => r.deadline = t.deadline
         /\ Visible(r) <=> t # None /\ Future(t.deadline, today)
<1> DEFINE t == s.tracked[l]
           r == Poland!Survivors(s, today)[l]
<1>1. t \in Poland!Procedure \cup {None}
  BY DEF Followed, Procedures
<1>2. r = IF t = None \/ Elapsed(t.deadline, today) THEN None
          ELSE [t EXCEPT !.visible = t.deadline # None]
  BY DEF Poland!Survivors, Poland!Elapsed, Elapsed
<1> HIDE DEF t, r
<1>3. CASE t = None \/ Elapsed(t.deadline, today)
  <2>1. r = None /\ ~Visible(r)
    BY <1>2, <1>3 DEF Visible
  <2>2. ~(t # None /\ Future(t.deadline, today))
    BY <1>1, <1>3 DEF Elapsed, Future, Poland!Procedure
  <2> QED
    BY <1>3, <2>1, <2>2 DEF r, t
<1>4. CASE t # None /\ ~Elapsed(t.deadline, today)
  <2>1. /\ r \in Poland!Procedure /\ r.deadline = t.deadline
        /\ r.visible = (t.deadline # None)
    BY <1>1, <1>2, <1>4 DEF Poland!Procedure
  <2>2. r # None
    BY <2>1, NoneAssumption
  <2>3. Future(t.deadline, today) <=> t.deadline # None
    BY <1>1, <1>4 DEF Elapsed, Future, Poland!Procedure
  <2>4. Visible(r) <=> t.deadline # None
    BY <2>1, <2>2, Zenon DEF Visible
  <2> QED
    BY <1>4, <2>1, <2>2, <2>3, <2>4 DEF r, t
<1> QED
  BY <1>3, <1>4

(* What is known before a call, and once the notices up to a day are read.  *)
FollowedRead(s, l, last, base) ==
  LET t == s.tracked[l] IN
  /\ t # None => Mine(l) # {}
  /\ \A T \in Tenders(Mine(l)) :
       /\ t # None /\ T.day <= last =>
            /\ \A n \in Mine(l) : n.day <= last => n.kind \notin Ending
            /\ (\A n \in Dated(Mine(l)) : n.day <= last) => t.deadline = DeadlineOf(Mine(l))
       /\ t = None /\ base <= T.day /\ T.day <= last => ~OpenBy(Mine(l))

(* What was known before a call, and what the call reads.                   *)
LEMMA PolandBefore ==
  ASSUME connector = "poland", Register, TypeOK, Screen, PolandKept,
         NEW start, start = Poland!WindowStart(cursor, today),
         NEW last, last = Poland!LesserOf(today, start + Budget),
         NEW ns, ns = Poland!FetchInterval(notices, start, last),
         NEW b, b = IF cursor = None THEN [tracked |-> Absent, closed |-> Absent]
                    ELSE [tracked |-> cursor.tracked, closed |-> cursor.closed],
         NEW base, base = IF cursor = None THEN start ELSE first
  PROVE  /\ start \in Int /\ last \in Int /\ base \in Int /\ last <= today
         /\ cursor # None => /\ cursor.through \in Int /\ start = cursor.through - Overlap
                             /\ cursor.through <= last
         /\ last # today => last = start + Budget
         /\ ns = {n \in notices : start <= n.day /\ n.day <= last}
         /\ b \in Followed
         /\ \A l \in Lot : FollowedLot(b, b, l, {}, ns, start)
         /\ \A l \in Lot : b.tracked[l] # None \/ b.closed[l] # None => cursor # None
         /\ cursor # None => \A l \in Lot : /\ PolandLot(l, start)
                                            /\ b.tracked[l] = cursor.tracked[l]
                                            /\ b.closed[l] = cursor.closed[l]
<1>1. /\ today \in Nat /\ Overlap \in Nat /\ Lookback \in Nat /\ Budget \in Nat
      /\ Undated # 0 /\ Overlap <= Budget
  BY TodayIs, UnitsAre, NoneIs
<1>2. ns = {n \in notices : start <= n.day /\ n.day <= last}
  BY DEF Poland!FetchInterval, Poland!Published
<1>3. ~Visible(None)
  BY DEF Visible
<1>4. Dated({}) = {} /\ \A l : {n \in {} : n.lot = l} = {}
  BY DEF Dated
<1>5. CASE cursor = None
  <2>1. start = today - Lookback /\ base = start
    BY <1>5 DEF Poland!WindowStart
  <2>2. start \in Int /\ last \in Int /\ last <= today /\ (last # today => last = start + Budget)
    BY <1>1, <2>1 DEF Poland!LesserOf
  <2>3. b = [tracked |-> [l \in Lot |-> None], closed |-> [l \in Lot |-> None]]
    BY <1>5 DEF Absent
  <2>4. b \in Followed /\ \A l \in Lot : b.tracked[l] = None /\ b.closed[l] = None
    BY <2>3 DEF Followed, Procedures
  <2>5. ASSUME NEW l \in Lot PROVE FollowedLot(b, b, l, {}, ns, start)
    <3>1. listed[l] # Undated
      BY <1>1, <1>5 DEF Screen
    <3> QED
      BY <1>3, <2>4, <3>1 DEF FollowedLot
  <2> QED
    BY <1>2, <1>5, <2>1, <2>2, <2>4, <2>5
<1>6. CASE cursor # None
  <2>1. cursor \in [through : Int, tracked : Procedures, closed : Procedures]
    BY <1>6 DEF TypeOK, Cursor, Poland!Cursor, Procedures
  <2>2. start = cursor.through - Overlap /\ base = first
    BY <1>6 DEF Poland!WindowStart
  <2>3. first # None /\ cursor.through <= today
    BY <1>6 DEF PolandKept
  <2>4. base \in Int
    BY <2>2, <2>3 DEF TypeOK
  <2>5. /\ cursor.through \in Int /\ start \in Int /\ last \in Int /\ last <= today
        /\ cursor.through <= last /\ (last # today => last = start + Budget)
    BY <1>1, <2>1, <2>2, <2>3 DEF Poland!LesserOf
  <2>6. b = [tracked |-> cursor.tracked, closed |-> cursor.closed]
    BY <1>6
  <2>7. b \in Followed /\ b.tracked = cursor.tracked /\ b.closed = cursor.closed
    BY <2>1, <2>6 DEF Followed
  <2>8. \A l \in Lot : PolandLot(l, start)
    BY <1>6, <2>2 DEF PolandKept
  <2>9. ASSUME NEW l \in Lot PROVE FollowedLot(b, b, l, {}, ns, start)
    <3>1. PolandLot(l, start)
      BY <2>8
    <3>2. ASSUME NEW T \in Tenders(Mine(l))
          PROVE  /\ T.day <= cursor.through => T \in ns \/ T.day < start
      <4>1. T \in notices /\ T.day \in Nat
        BY Times DEF Tenders, Mine
      <4> QED
        BY <1>2, <2>5, <4>1
    <3> QED
      BY <1>4, <2>7, <3>1, <3>2 DEF FollowedLot, PolandLot
  <2> QED
    BY <1>2, <1>6, <2>2, <2>4, <2>5, <2>7, <2>8, <2>9
<1> QED
  BY <1>5, <1>6

(* What is known once the notices are applied, in terms of the notices      *)
(* alone.                                                                   *)
LEMMA FollowedIs ==
  ASSUME connector = "poland", Register, ClosedLast,
         NEW start \in Int, NEW last \in Int, NEW base \in Int,
         NEW ns, ns = {n \in notices : start <= n.day /\ n.day <= last},
         NEW b \in Followed, NEW s \in Followed, NEW l \in Lot,
         FollowedLot(b, s, l, ns, ns, start),
         b.tracked[l] # None => PolandLot(l, start) /\ b.tracked[l] = cursor.tracked[l],
         b.tracked[l] = None => \A T \in Tenders(Mine(l)) :
           base <= T.day /\ T.day < start => ~OpenBy(Mine(l))
  PROVE  FollowedRead(s, l, last, base)
<1> DEFINE t == s.tracked[l]
           bt == b.tracked[l]
           ms == {n \in ns : n.lot = l}
<1>1. /\ \A n \in Mine(l) : n \in notices /\ n.lot = l /\ n.day \in Nat /\ n.at \in Nat
      /\ \A n \in Mine(l) : n.day <= last => n \in ms \/ n.day < start
      /\ ms \in SUBSET notices /\ Mine(l) \in SUBSET notices /\ ms \subseteq Mine(l)
      /\ \A n \in ms : ~(n.day < start)
  BY Times DEF Mine
<1>2. t # None => Mine(l) # {}
  BY DEF FollowedLot
<1>3. ASSUME NEW T \in Tenders(Mine(l)), t # None, T.day <= last
      PROVE  /\ \A n \in Mine(l) : n.day <= last => n.kind \notin Ending
             /\ (\A n \in Dated(Mine(l)) : n.day <= last) => t.deadline = DeadlineOf(Mine(l))
  <2>1. /\ T \in Mine(l) /\ T.kind = "tender" /\ (T \in ns \/ T.day < start)
        /\ T \in ns <=> T \in ms
    BY <1>1, <1>3 DEF Tenders, Mine
  <2>2. /\ \A n \in ms : n.kind \notin Ending
        /\ T \notin ns => bt # None
        /\ T \notin ns /\ Dated(ms) = {} => t.deadline = bt.deadline
        /\ Dated(ms) # {} => t.deadline = DeadlineOf(ms)
    BY <1>3, <2>1 DEF FollowedLot
  <2>3. T \notin ns =>
          /\ \A n \in Mine(l) : n.day < start => n.kind \notin Ending
          /\ (\A n \in Dated(Mine(l)) : n.day < start) => bt.deadline = DeadlineOf(Mine(l))
    BY <2>1, <2>2 DEF PolandLot
  <2>4. ASSUME NEW n \in Mine(l), n.day <= last PROVE n.kind \notin Ending
    <3>1. CASE T \notin ns
      BY <1>1, <2>2, <2>3, <2>4, <3>1
    <3>2. CASE T \in ns
      <4>1. n.kind \in Ending => T.at < n.at
        BY <1>1, <2>1 DEF ClosedLast
      <4>2. T.at < n.at => T.day <= n.day
        BY <1>1, <2>1, Times
      <4>3. ~(T.day < start)
        BY <1>1, <2>1, <3>2
      <4>4. n.kind \in Ending => n \in ms
        BY <1>1, <2>1, <2>4, <4>1, <4>2, <4>3
      <4> QED
        BY <2>2, <4>4
    <3> QED
      BY <3>1, <3>2
  <2>5. ASSUME \A n \in Dated(Mine(l)) : n.day <= last
        PROVE  t.deadline = DeadlineOf(Mine(l))
    <3>1. Dated(Mine(l)) \in SUBSET Mine(l) /\ Dated(ms) \in SUBSET Mine(l)
          /\ Dated(ms) \subseteq Dated(Mine(l))
      BY <1>1 DEF Dated
    <3>2. CASE Dated(ms) = {}
      <4>1. \A n \in Dated(Mine(l)) : n.day < start
        <5>1. \A n \in Dated(Mine(l)) : n \notin ms
          BY <3>2 DEF Dated
        <5> QED
          BY <1>1, <2>5, <3>1, <5>1
      <4>2. T \in Dated(Mine(l))
        BY <2>1 DEF Dated
      <4>3. T \notin ns
        BY <1>1, <2>1, <4>1, <4>2
      <4> QED
        BY <2>2, <2>3, <3>2, <4>1, <4>3
    <3>3. CASE Dated(ms) # {}
      <4> DEFINE m == Newest(Dated(ms))
      <4>1. m \in Dated(ms) /\ \A o \in Dated(ms) : o.at <= m.at
        BY <1>1, <3>1, <3>3, NewestOf
      <4>2. m \in ms /\ m \in Dated(Mine(l)) /\ m \in notices
        BY <1>1, <3>1, <4>1 DEF Dated
      <4> HIDE DEF m
      <4>3. ASSUME NEW o \in Dated(Mine(l)) PROVE o.at <= m.at
        <5>1. o \in notices /\ o.day \in Nat /\ o.at \in Nat /\ m.day \in Nat /\ m.at \in Nat
          BY <1>1, <3>1, <4>2
        <5>2. o \in ms => o \in Dated(ms)
          BY DEF Dated
        <5>3. o \in ms \/ o.day < start
          BY <1>1, <2>5, <3>1
        <5>4. o.day < start => o.day < m.day
          BY <1>1, <4>2, <5>1
        <5>5. o.day < m.day => o.at < m.at
          BY <4>2, <5>1, Times
        <5> QED
          BY <4>1, <5>1, <5>2, <5>3, <5>4, <5>5
      <4>4. Newest(Dated(Mine(l))) = m
        BY <1>1, <3>1, <4>2, <4>3, NewestOf
      <4>5. DeadlineOf(Mine(l)) = DeadlineOf(ms)
        BY <4>4 DEF DeadlineOf, m
      <4> QED
        BY <2>2, <3>3, <4>5
    <3> QED
      BY <3>2, <3>3
  <2> QED
    BY <2>4, <2>5
<1>4. ASSUME NEW T \in Tenders(Mine(l)), t = None, base <= T.day, T.day <= last
      PROVE  ~OpenBy(Mine(l))
  <2>1. /\ T \in Mine(l) /\ (T \in ns \/ T.day < start)
    BY <1>1, <1>4 DEF Tenders, Mine
  <2>2. T \in ns \/ (T.day < start /\ bt # None) => \E n \in ms : n.kind \in Ending
    BY <1>4 DEF FollowedLot
  <2>3. CASE \E n \in ms : n.kind \in Ending
    <3>1. PICK n \in ms : n.kind \in Ending
      BY <2>3
    <3> QED
      BY <1>1, <3>1, EndedIs
  <2>4. CASE T.day < start /\ bt = None
    BY <1>4, <2>4
  <2> QED
    BY <2>1, <2>2, <2>3, <2>4
<1> QED
  BY <1>2, <1>3, <1>4 DEF FollowedRead

(* Poland: days from the cursor less the overlap (fetch_incremental,        *)
(* poland_bzp.py:506-543).                                                  *)
LEMMA PolandPoll ==
  ASSUME connector = "poland", Register, ClosedLast, TypeOK, Screen, PolandKept, Poll
  PROVE  (TypeOK /\ Screen /\ PolandKept /\ Complete /\ Sound)'
<1> DEFINE start == Poland!WindowStart(cursor, today)
           last == Poland!LesserOf(today, start + Budget)
           ns == Poland!FetchInterval(notices, start, last)
           before == IF cursor = None THEN [tracked |-> Absent, closed |-> Absent]
                     ELSE [tracked |-> cursor.tracked, closed |-> cursor.closed]
           s == Poland!Replay(Poland!ProcessEvent, Poland!Newest, before, ns)
           base == IF cursor = None THEN start ELSE first
           open(l) == s.tracked[l] # None /\ Future(s.tracked[l].deadline, today)
           kept == Poland!Survivors(s, today)
<1>1. PICK call : call = Call
  OBVIOUS
<1>2. Call = Poland!Fetch(cursor, notices, today)
  BY DEF Call
<1>3. /\ today \in Nat /\ today < Undated /\ Undated # 0 /\ Overlap \in Nat \ {0}
      /\ Budget \in Nat /\ Budget > 2 * Overlap
  BY TodayIs, UnitsAre, NoneIs
<1>4. /\ connector \notin Plain /\ ~Gap
      /\ connector \notin {"germany", "latvia", "us", "canada", "switzerland", "uk", "ecuador"}
      /\ Cursor = [through : Int, tracked : Procedures, closed : Procedures]
  BY DEF Plain, Gap, Cursor, Poland!Cursor, Procedures
<1>5. /\ start \in Int /\ last \in Int /\ base \in Int /\ last <= today
      /\ cursor # None => /\ cursor.through \in Int /\ start = cursor.through - Overlap
                          /\ cursor.through <= last
      /\ last # today => last = start + Budget
      /\ ns = {n \in notices : start <= n.day /\ n.day <= last}
      /\ before \in Followed
      /\ \A l \in Lot : FollowedLot(before, before, l, {}, ns, start)
      /\ \A l \in Lot : before.tracked[l] # None \/ before.closed[l] # None => cursor # None
      /\ cursor # None => \A l \in Lot : /\ PolandLot(l, start)
                                         /\ before.tracked[l] = cursor.tracked[l]
                                         /\ before.closed[l] = cursor.closed[l]
  <2> DEFINE absent == [tracked |-> Absent, closed |-> Absent]
  <2>1. before = IF cursor = None THEN [tracked |-> Absent, closed |-> Absent]
                 ELSE [tracked |-> cursor.tracked, closed |-> cursor.closed]
    OBVIOUS
  <2> HIDE DEF start, last, ns, before, base
  <2> QED
    BY <2>1, PolandBefore DEF start, last, ns, base
<1>6. /\ last = today =>
           /\ call.cursor = [through |-> last, tracked |-> kept,
                             closed |-> [l \in Lot |-> None]]
           /\ call.seen = Poland!Observed(s, today)
           /\ call.done = TRUE /\ call.first = start
      /\ last # today =>
           /\ call.cursor = [through |-> last, tracked |-> s.tracked, closed |-> s.closed]
           /\ call.seen = Silent
           /\ call.done = FALSE /\ call.first = start
  <2>1. call = IF last >= today
               THEN Poland!Result([through |-> last, tracked |-> kept,
                                   closed |-> Poland!Absent],
                                  Poland!Observed(s, today), TRUE, start)
               ELSE Poland!Result([through |-> last, tracked |-> s.tracked,
                                   closed |-> s.closed],
                                  Poland!Silent, FALSE, start)
    BY <1>1, <1>2, Zenon DEF Poland!Fetch, Poland!Absent, Absent
  <2>2. last >= today <=> last = today
    BY <1>3, <1>5
  <2> HIDE DEF start, last, ns, before, s, kept
  <2> QED
    BY <2>1, <2>2 DEF Poland!Result, Poland!Silent, Silent, Poland!Absent
<1> HIDE DEF start, last, ns, before, base
<1>7. /\ s \in Followed
      /\ \A l \in Lot : FollowedLot(before, s, l, ns, ns, start)
  <2>1. (\A n \in ns : n.day >= start) /\ ns \in SUBSET notices
    BY <1>5, Times
  <2> QED
    BY <1>5, <2>1, FollowedReplay
<1> HIDE DEF s, kept
<1>8. /\ cursor' = call.cursor /\ first' = base
      /\ connector' = connector /\ today' = today /\ notices' = notices
      /\ shown' = shown \cup {l \in Lot : listed'[l] > today}
  BY <1>1, <1>4, <1>6, PollParts DEF base
<1>9. \A l \in Lot : FollowedRead(s, l, last, base)
  <2>1. ASSUME NEW l \in Lot PROVE FollowedRead(s, l, last, base)
    <3>1. before.tracked[l] # None => PolandLot(l, start) /\ before.tracked[l] = cursor.tracked[l]
      BY <1>5
    <3>2. ASSUME before.tracked[l] = None, NEW T \in Tenders(Mine(l)),
                 base <= T.day, T.day < start
          PROVE  ~OpenBy(Mine(l))
      <4>1. T.day \in Nat
        BY Times DEF Tenders, Mine
      <4>2. cursor # None
        BY <1>5, <3>2, <4>1 DEF base
      <4>3. PolandLot(l, start) /\ cursor.tracked[l] = None /\ base = first
        BY <1>5, <3>2, <4>2 DEF base
      <4> QED
        BY <3>2, <4>3 DEF PolandLot
    <3>3. FollowedLot(before, s, l, ns, ns, start)
      BY <1>7
    <3> QED
      BY <1>5, <1>7, <3>1, <3>2, <3>3, FollowedIs
  <2> QED
    BY <2>1
<1>10. ASSUME NEW l \in Lot
       PROVE  /\ kept[l] \in Poland!Procedure \cup {None}
              /\ kept[l] # None <=> s.tracked[l] # None /\ ~Elapsed(s.tracked[l].deadline, today)
              /\ kept[l] # None => kept[l].deadline = s.tracked[l].deadline
              /\ Visible(kept[l]) <=> open(l)
  BY <1>3, <1>7, ProcedureSurvivor DEF kept
<1>11. ASSUME NEW l \in Lot
       PROVE  /\ Visible(s.tracked[l]) \/ Visible(s.closed[l]) => l \in shown /\ cursor # None
              /\ listed[l] = Undated => Visible(s.tracked[l]) \/ Visible(s.closed[l])
              /\ s.tracked[l] # None \/ s.closed[l] # None => Mine(l) # {}
              /\ s.tracked[l] # None => s.closed[l] = None
  <2>1. FollowedLot(before, s, l, ns, ns, start)
    BY <1>7
  <2>2. /\ Visible(s.tracked[l]) => Visible(before.tracked[l])
        /\ Visible(s.closed[l]) => Visible(before.tracked[l]) \/ Visible(before.closed[l])
        /\ listed[l] = Undated => Visible(s.tracked[l]) \/ Visible(s.closed[l])
        /\ s.tracked[l] # None \/ s.closed[l] # None => Mine(l) # {}
        /\ s.tracked[l] # None => s.closed[l] = None
    BY <2>1 DEF FollowedLot
  <2>3. Visible(before.tracked[l]) \/ Visible(before.closed[l]) => cursor # None
    BY <1>5 DEF Visible
  <2>4. Visible(before.tracked[l]) \/ Visible(before.closed[l]) => l \in shown
    BY <1>5, <2>3 DEF PolandLot
  <2> QED
    BY <2>2, <2>3, <2>4
<1>12. ASSUME NEW l \in Lot, NEW T \in Tenders(Mine(l))
       PROVE  T \in notices /\ T.day \in Nat /\ T.day <= today
  BY Times DEF Tenders, Mine, Register
<1>13. \A l \in Lot : \A n \in Mine(l) : n \in notices /\ n.day \in Nat /\ n.day <= today
  BY Times DEF Mine, Register
<1>14. ASSUME last = today, NEW l \in Lot
       PROVE  /\ listed'[l] = Undated <=> open(l)
              /\ call.seen[l] = "closed" => l \in shown
  <2>1. call.seen[l] = IF open(l) THEN "open"
                       ELSE IF Visible(s.tracked[l]) \/ Visible(s.closed[l]) THEN "closed"
                       ELSE "none"
    BY <1>6, <1>14 DEF Poland!Observed, Poland!Observation, Poland!Visible, Visible,
       Poland!Future, Future
  <2>2. /\ call.seen[l] = "open" => listed'[l] = Undated
        /\ call.seen[l] = "closed" => listed'[l] = 0
        /\ call.seen[l] \notin {"open", "closed"} => listed'[l] = listed[l]
    BY <1>1, <1>4, ShowsIs
  <2> HIDE DEF open
  <2> QED
    BY <1>3, <1>11, <2>1, <2>2
<1>15. ASSUME NEW l \in Lot, open(l)
       PROVE  l \in shown' \/ last # today
  BY <1>3, <1>8, <1>14, <1>15
<1>16. TypeOK' /\ Screen'
  <2>1. kept \in Procedures
    <3>1. kept = [l \in Lot |-> kept[l]]
      BY DEF kept, Poland!Survivors
    <3> QED
      BY <1>10, <3>1 DEF Procedures
  <2>2. call.cursor \in Cursor
    <3>1. CASE last = today
      <4>1. [l \in Lot |-> None] \in Procedures
        BY DEF Procedures
      <4> QED
        BY <1>4, <1>5, <1>6, <2>1, <3>1, <4>1
    <3>2. CASE last # today
      BY <1>4, <1>5, <1>6, <1>7, <3>2 DEF Followed
    <3> QED
      BY <3>1, <3>2
  <2>3. call.cursor # None
    BY <2>2, NoneAssumption DEF Cursor
  <2>4. call.done \in BOOLEAN /\ call.first \in Int
    BY <1>5, <1>6
  <2> QED
    BY <1>1, <1>4, <2>2, <2>3, <2>4, PollType
<1>17. PolandKept'
  <2>1. /\ \A l : Mine(l)' = Mine(l)
        /\ \A l : Tenders(Mine(l))' = Tenders(Mine(l))
        /\ \A l : Dated(Mine(l))' = Dated(Mine(l))
        /\ \A l : DeadlineOf(Mine(l))' = DeadlineOf(Mine(l))
        /\ \A l : OpenBy(Mine(l))' <=> OpenBy(Mine(l))
    BY <1>8 DEF Mine, Tenders, Dated, DeadlineOf, Newest, OpenBy, Future
  <2>2. first' # None
    BY <1>5, <1>8, NoneIs
  <2>3. CASE last = today
    <3>1. /\ cursor'.through = today /\ cursor'.tracked = kept
          /\ cursor'.closed = [l \in Lot |-> None]
      BY <1>6, <1>8, <2>3
    <3> DEFINE from == today - Overlap
    <3>2. ASSUME NEW l \in Lot
          PROVE  PolandLot(l, cursor.through - Overlap)'
      <4>1. FollowedRead(s, l, last, base)
        BY <1>9
      <4>2. kept[l] # None => Mine(l) # {} /\ s.tracked[l] # None
        BY <1>10, <1>11
      <4>3. ASSUME NEW T \in Tenders(Mine(l)), kept[l] # None
            PROVE  /\ \A n \in Mine(l) : n.kind \notin Ending
                   /\ kept[l].deadline = DeadlineOf(Mine(l))
        <5>1. T.day <= last /\ \A n \in Mine(l) : n.day <= last
          BY <1>12, <1>13, <2>3
        <5>2. \A n \in Dated(Mine(l)) : n.day <= last
          BY <5>1 DEF Dated
        <5> QED
          BY <1>10, <4>1, <4>2, <4>3, <5>1, <5>2 DEF FollowedRead
      <4>4. ASSUME NEW T \in Tenders(Mine(l)), kept[l] = None, base <= T.day
            PROVE  ~OpenBy(Mine(l))
        <5>1. T.day <= last /\ \A n \in Mine(l) : n.day <= last
          BY <1>12, <1>13, <2>3
        <5>2. \A n \in Dated(Mine(l)) : n.day <= last
          BY <5>1 DEF Dated
        <5>3. CASE s.tracked[l] = None
          BY <4>1, <4>4, <5>1, <5>3 DEF FollowedRead
        <5>4. CASE s.tracked[l] # None
          <6>1. Elapsed(s.tracked[l].deadline, today)
            BY <1>10, <4>4, <5>4
          <6>2. s.tracked[l].deadline = DeadlineOf(Mine(l))
            BY <4>1, <5>1, <5>2, <5>4 DEF FollowedRead
          <6>3. s.tracked[l].deadline \in Int \cup {None}
            BY <1>7, <5>4 DEF Followed, Procedures, Poland!Procedure
          <6>4. ~Future(DeadlineOf(Mine(l)), today)
            BY <1>3, <6>1, <6>2, <6>3 DEF Elapsed, Future
          <6> QED
            BY <6>4 DEF OpenBy
        <5> QED
          BY <5>3, <5>4
      <4>5. listed'[l] = Undated => Visible(kept[l])
        BY <1>10, <1>14, <2>3
      <4>6. Visible(kept[l]) => l \in shown'
        BY <1>10, <1>15, <2>3
      <4>7. \A T \in Tenders(Mine(l)) : T.day <= today
        BY <1>12
      <4>8. cursor'.tracked[l] = kept[l] /\ cursor'.closed[l] = None /\ ~Visible(None)
        BY <3>1 DEF Visible
      <4> HIDE DEF open
      <4> QED
        BY <1>8, <2>1, <3>1, <4>2, <4>3, <4>4, <4>5, <4>6, <4>7, <4>8 DEF PolandLot
    <3> QED
      BY <1>3, <1>8, <2>2, <3>1, <3>2 DEF PolandKept
  <2>4. CASE last # today
    <3>1. cursor'.through = last /\ cursor'.tracked = s.tracked /\ cursor'.closed = s.closed
      BY <1>6, <1>8, <2>4
    <3>2. ASSUME NEW l \in Lot
          PROVE  PolandLot(l, cursor.through - Overlap)'
      <4>1. FollowedRead(s, l, last, base) /\ FollowedLot(before, s, l, ns, ns, start)
        BY <1>7, <1>9
      <4>2. listed'[l] = listed[l]
        <5>1. call.seen[l] = "none"
          BY <1>6, <2>4 DEF Silent
        <5> QED
          BY <1>1, <1>4, <5>1, ShowsIs
      <4>3. ASSUME NEW T \in Tenders(Mine(l)), s.tracked[l] # None, T.day < last - Overlap
            PROVE  /\ \A n \in Mine(l) : n.day < last - Overlap => n.kind \notin Ending
                   /\ (\A n \in Dated(Mine(l)) : n.day < last - Overlap) =>
                        s.tracked[l].deadline = DeadlineOf(Mine(l))
        <5>1. T.day <= last /\ \A n \in Mine(l) : n.day < last - Overlap => n.day <= last
          BY <1>3, <1>5, <1>12, <1>13, <4>3
        <5>2. Dated(Mine(l)) \subseteq Mine(l)
          BY DEF Dated
        <5> QED
          BY <4>1, <4>3, <5>1, <5>2 DEF FollowedRead
      <4>4. ASSUME NEW T \in Tenders(Mine(l)), s.tracked[l] = None, base <= T.day,
                   T.day < last - Overlap
            PROVE  ~OpenBy(Mine(l))
        <5>1. T.day <= last
          BY <1>3, <1>5, <1>12, <4>4
        <5> QED
          BY <4>1, <4>4, <5>1 DEF FollowedRead
      <4>5. ASSUME NEW T \in Tenders(Mine(l)), Visible(s.tracked[l]) \/ Visible(s.closed[l])
            PROVE  T.day < last - Overlap /\ T.day <= last
        <5>1. Visible(before.tracked[l]) \/ Visible(before.closed[l])
          BY <4>1, <4>5 DEF FollowedLot
        <5>2. cursor # None
          BY <1>11, <4>5
        <5>3. T.day <= cursor.through \/ T.day < start
          BY <1>5, <5>1, <5>2 DEF PolandLot
        <5> QED
          BY <1>3, <1>5, <1>12, <2>4, <5>2, <5>3
      <4>6. shown \subseteq shown'
        BY <1>8
      <4>7. /\ Visible(s.tracked[l]) \/ Visible(s.closed[l]) => l \in shown
            /\ listed[l] = Undated => Visible(s.tracked[l]) \/ Visible(s.closed[l])
            /\ s.tracked[l] # None \/ s.closed[l] # None => Mine(l) # {}
            /\ s.tracked[l] # None => s.closed[l] = None
        BY <1>11
      <4> QED
        BY <1>8, <2>1, <3>1, <4>2, <4>3, <4>4, <4>5, <4>6, <4>7 DEF PolandLot
    <3> QED
      BY <1>5, <1>8, <2>2, <3>1, <3>2 DEF PolandKept
  <2> QED
    BY <2>3, <2>4
<1>18. ASSUME last = today, NEW l \in Lot, s.tracked[l] # None
       PROVE  /\ Mine(l) # {} /\ s.tracked[l].deadline = DeadlineOf(Mine(l))
              /\ \A n \in Mine(l) : n.kind \notin Ending
  <2>1. Mine(l) # {}
    BY <1>11, <1>18
  <2>2. PICK T \in Tenders(Mine(l)) : TRUE
    BY <2>1, HasTender
  <2>3. T.day <= last /\ (\A n \in Mine(l) : n.day <= last)
        /\ \A n \in Dated(Mine(l)) : n.day <= last
    BY <1>12, <1>13, <1>18 DEF Dated
  <2> QED
    BY <1>9, <1>18, <2>1, <2>3 DEF FollowedRead
<1>19. Complete'
  <2>1. ASSUME NEW l \in Lot, call.done,
               \A ns1 \in Views(l) : OpenBy(ns1) /\ Newest(Tenders(ns1)).day >= first'
        PROVE  listed'[l] > today
    <3>1. last = today
      BY <1>6, <2>1
    <3>2. OpenBy(Mine(l)) /\ Newest(Tenders(Mine(l))).day >= base
      BY <1>4, <1>8, <2>1, ViewsAre
    <3> DEFINE T == Newest(Tenders(Mine(l)))
    <3>3. T \in Tenders(Mine(l))
      <4>1. Mine(l) # {}
        BY <3>2 DEF OpenBy
      <4> QED
        BY <4>1, TenderOf DEF Tenders
    <3>4. base <= T.day /\ T.day <= last
      BY <1>5, <1>12, <3>1, <3>2, <3>3
    <3> HIDE DEF T
    <3>5. s.tracked[l] # None
      BY <1>9, <3>2, <3>3, <3>4 DEF FollowedRead
    <3>6. Future(DeadlineOf(Mine(l)), today)
      BY <3>2 DEF OpenBy
    <3>7. open(l)
      BY <1>18, <3>1, <3>5, <3>6
    <3> HIDE DEF open
    <3> QED
      BY <1>3, <1>14, <3>1, <3>7
  <2> QED
    BY <1>1, <2>1, CompleteAfter
<1>20. Sound'
  <2>1. ASSUME NEW l \in Lot, call.done, listed'[l] > today PROVE Remains(l)
    <3>1. last = today
      BY <1>6, <2>1
    <3>2. listed'[l] = Undated
      BY <1>1, <1>4, <2>1, ShowsIs
    <3>3. open(l)
      BY <1>14, <3>1, <3>2
    <3>4. OpenBy(Mine(l))
      BY <1>18, <3>1, <3>3, OpenTender
    <3> QED
      BY <1>4, <3>4, RemainsIs
  <2>2. \A l \in Lot : call.seen[l] = "closed" => l \in shown
    BY <1>6, <1>14 DEF Silent
  <2>3. Withdrawn(call) \subseteq shown
    BY <2>2, WithdrawnIs
  <2> QED
    BY <1>1, <2>1, <2>3, SoundAfter
<1> QED
  BY <1>16, <1>17, <1>19, <1>20

(* A notice after a call is one the next call applies.                      *)
LEMMA PolandRest ==
  ASSUME connector = "poland", Register, ClosedLast, TypeOK, PolandKept
  PROVE  /\ \A l \in Lot : \A n : New(n, l) => PolandKept'
         /\ NextDay => PolandKept'
<1> DEFINE start == cursor.through - Overlap
<1>1. cursor # None => start \in Int /\ start <= today - 1 /\ cursor.through \in Int
  <2>1. cursor # None => cursor \in Poland!Cursor
    BY DEF TypeOK, Cursor
  <2> QED
    BY <2>1, UnitsAre, TodayIs DEF Poland!Cursor, PolandKept
<1>2. ASSUME NEW l \in Lot, NEW n, New(n, l) PROVE PolandKept'
  <2> SUFFICES ASSUME cursor # None PROVE PolandKept'
    BY <1>2, NewMine DEF PolandKept
  <2>1. /\ n.lot = l /\ n.day \in Nat /\ n.at \in Nat /\ n.day >= today - 1
        /\ notices' = notices \cup {n} /\ Mine(l)' = Mine(l) \cup {n}
        /\ \A k \in Lot : k # l => Mine(k)' = Mine(k)
        /\ connector' = connector /\ today' = today /\ cursor' = cursor /\ first' = first
        /\ listed' = listed /\ shown' = shown
    BY <1>2, NewMine
  <2>2. ~(n.day < start) /\ start' = start
    BY <1>1, <2>1, TodayIs
  <2> HIDE DEF start
  <2>3. ASSUME NEW k \in Lot, PolandLot(k, start) PROVE PolandLot(k, start)'
    <3>1. Mine(k) # {} /\ ~OpenBy(Mine(k)) => ~OpenBy(Mine(k))'
      BY <1>2, NotOpenAgain
    <3>2. CASE k # l
      <4>1. /\ Mine(k)' = Mine(k) /\ Dated(Mine(k))' = Dated(Mine(k))
            /\ DeadlineOf(Mine(k))' = DeadlineOf(Mine(k))
            /\ Tenders(Mine(k))' = Tenders(Mine(k))
        BY <2>1, <3>2 DEF Dated, DeadlineOf, Newest, Tenders
      <4>2. \A T \in Tenders(Mine(k)) : Mine(k) # {}
        BY DEF Tenders
      <4> QED
        BY <2>1, <2>2, <2>3, <3>1, <4>1, <4>2 DEF PolandLot
    <3>3. CASE k = l
      <4>1. Mine(k)' # {} /\ Mine(k) \subseteq Mine(k)'
        BY <2>1, <3>3
      <4>2. (\A o \in Dated(Mine(k))' : o.day < start) =>
              /\ \A o \in Dated(Mine(k)) : o.day < start
              /\ DeadlineOf(Mine(k))' = DeadlineOf(Mine(k))
        <5>1. CASE n \in Dated(Mine(k))'
          BY <2>2, <5>1
        <5>2. CASE n \notin Dated(Mine(k))'
          <6>1. Dated(Mine(k))' = Dated(Mine(k))
            BY <2>1, <3>3, <5>2 DEF Dated
          <6>2. DeadlineOf(Mine(k))' = DeadlineOf(Mine(k))
            BY <6>1 DEF DeadlineOf, Newest
          <6> QED
            BY <6>1, <6>2
        <5> QED
          BY <5>1, <5>2
      <4>3. ASSUME NEW T \in Tenders(Mine(k))'
            PROVE  \/ T \in Tenders(Mine(k)) /\ Mine(k) # {}
                   \/ T = n /\ Mine(k) = {}
        <5>1. T.kind = "tender" /\ (T = n \/ T \in Mine(k))
          BY <2>1, <3>3 DEF Tenders
        <5>2. CASE T \in Mine(k)
          BY <5>1, <5>2 DEF Tenders
        <5>3. CASE T = n
          <6>1. \A o \in Mine(l) : o.kind # "tender"
            BY <1>2, <5>1, <5>3, NewTerms, PolandKinds DEF Mine
          <6>2. Mine(l) = {}
            BY <6>1, HasTender DEF Tenders
          <6> QED
            BY <3>3, <5>3, <6>2
        <5> QED
          BY <5>1, <5>2, <5>3
      <4>4. ASSUME NEW T \in Tenders(Mine(k))'
            PROVE  /\ T.day < start /\ cursor.tracked[k] # None =>
                        /\ \A o \in Mine(k)' : o.day < start => o.kind \notin Ending
                        /\ (\A o \in Dated(Mine(k))' : o.day < start) =>
                             cursor.tracked[k].deadline = DeadlineOf(Mine(k))'
                   /\ T.day < start /\ first <= T.day /\ cursor.tracked[k] = None =>
                        ~OpenBy(Mine(k))'
                   /\ Visible(cursor.closed[k]) => T.day < start
                   /\ Visible(cursor.tracked[k]) => T.day <= cursor.through
        <5>1. CASE T = n /\ Mine(k) = {}
          <6>1. cursor.tracked[k] = None /\ cursor.closed[k] = None /\ ~Visible(None)
            BY <2>3, <5>1 DEF PolandLot, Visible
          <6> QED
            BY <2>1, <2>2, <5>1, <6>1
        <5>2. CASE T \in Tenders(Mine(k)) /\ Mine(k) # {}
          <6>1. \A o \in Mine(k)' : o.day < start => o \in Mine(k)
            BY <2>1, <2>2, <3>3
          <6> QED
            BY <2>1, <2>2, <2>3, <3>1, <4>2, <5>2, <6>1 DEF PolandLot
        <5> QED
          BY <4>3, <5>1, <5>2
      <4> QED
        BY <2>1, <2>2, <2>3, <4>1, <4>4 DEF PolandLot
    <3> QED
      BY <3>2, <3>3
  <2> QED
    BY <2>1, <2>2, <2>3 DEF PolandKept, start
<1>3. ASSUME NextDay PROVE PolandKept'
  <2> SUFFICES ASSUME cursor # None PROVE PolandKept'
    BY <1>3, NextDayIs DEF PolandKept
  <2>1. /\ today' = today + 1 /\ connector' = connector /\ notices' = notices
        /\ cursor' = cursor /\ first' = first /\ listed' = listed /\ shown' = shown
        /\ \A l : Mine(l)' = Mine(l)
    BY <1>3, NextDayIs
  <2>2. \A l \in Lot : OpenBy(Mine(l))' => OpenBy(Mine(l))
    BY <1>3, OpenEarlier
  <2>3. /\ \A l : Dated(Mine(l))' = Dated(Mine(l))
        /\ \A l : Tenders(Mine(l))' = Tenders(Mine(l))
        /\ \A l : DeadlineOf(Mine(l))' = DeadlineOf(Mine(l))
    BY <2>1 DEF Dated, DeadlineOf, Newest, Tenders
  <2>4. start' = start /\ cursor.through <= today + 1
    BY <1>1, <2>1, TodayIs DEF PolandKept
  <2> HIDE DEF start
  <2>5. ASSUME NEW l \in Lot, PolandLot(l, start) PROVE PolandLot(l, start)'
    BY <2>1, <2>2, <2>3, <2>4, <2>5 DEF PolandLot
  <2> QED
    BY <2>1, <2>4, <2>5 DEF PolandKept, start
<1> QED
  BY <1>2, <1>3

-----------------------------------------------------------------------------
(* Germany: an archive per day, up to yesterday's; a notice is compared with *)
(* what is known of its lot, open, closed or recently closed.               *)
Books == [tracked : Germany!Lots, closed : Germany!Lots, recent : Germany!Lots]

(* A closure that is still to be told.                                      *)
Pending(state) == Visible(state) /\ ~state.emitted

UpTo(l, at) == {n \in Mine(l) : n.at <= at}

(* What is known of a lot is the newest of its notices that are read.       *)
Booked(s, l, read, through) ==
  LET t == s.tracked[l]
      c == s.closed[l]
      r == s.recent[l]
      e == Germany!Current(s, l) IN
  /\ t # None => c = None /\ r = None
  /\ c # None => r = None
  /\ e # None =>
       /\ \E m \in Mine(l) : /\ m.at = e.at /\ m.day = e.day /\ m.day <= through
                             /\ t # None <=> m.kind # "close"
       /\ e.deadline = DeadlineOf(UpTo(l, e.at))
       /\ \A n \in Mine(l) : n \in read => n.at <= e.at
  /\ listed[l] = Undated => Visible(t) \/ Pending(c)
  /\ Visible(e) => l \in shown

(* A tender whose day is not read again is known, unless there is a newer   *)
(* one, its deadline has passed or it closed long ago.                      *)
Remembers(l, T, through) ==
  \/ \E U \in Tenders(Mine(l)) : U.at > T.at /\ U.day <= through
  \/ Elapsed(T.deadline, today)
  \/ \E c \in Mine(l) : c.kind = "close" /\ c.at > T.at /\ c.day < today - 1 - Retention

Earlier(day) == {n \in notices : n.day < day}

GermanyKept ==
  cursor # None =>
    /\ first # None /\ cursor.through <= today - 1
    /\ \A l \in Lot :
         /\ Booked(cursor, l, Earlier(cursor.through + 1 - Overlap), cursor.through)
         /\ Germany!Current(cursor, l) = None =>
              \A T \in Tenders(Mine(l)) :
                first <= T.day /\ T.day < cursor.through + 1 - Overlap =>
                  Remembers(l, T, cursor.through)

(* What Germany's register publishes.                                       *)
LEMMA GermanKinds ==
  ASSUME connector = "germany", Register
  PROVE  /\ \A n \in notices : n.kind \in {"tender", "close", "reopen"}
         /\ connector \notin {"latvia", "us", "canada", "switzerland", "uk", "ecuador",
                              "southafrica", "colombia", "paraguay"}
         /\ connector \notin Plain /\ ~Gap
BY DEF Register, Terms, Kinds, Germany!Kinds, Plain, Gap

(* The entry that counts: tracked, closed in this call, or closed before.   *)
LEMMA CurrentIs ==
  ASSUME NEW s \in Books, NEW l \in Lot
  PROVE  LET e == Germany!Current(s, l) IN
         /\ e \in Germany!LotState \cup {None}
         /\ s.tracked[l] # None => e = s.tracked[l]
         /\ s.tracked[l] = None /\ s.closed[l] # None => e = s.closed[l]
         /\ s.tracked[l] = None /\ s.closed[l] = None => e = s.recent[l]
         /\ e # None => e.at \in Nat /\ e.day \in Nat /\ e.deadline \in Int \cup {None}
<1>1. /\ s.tracked[l] \in Germany!LotState \cup {None}
      /\ s.closed[l] \in Germany!LotState \cup {None}
      /\ s.recent[l] \in Germany!LotState \cup {None}
  BY DEF Books, Germany!Lots
<1>2. Germany!Current(s, l) \in Germany!LotState \cup {None}
  BY <1>1 DEF Germany!Current
<1> QED
  BY <1>2 DEF Germany!Current, Germany!LotState

(* What a notice does to the three books of a lot: a stale one nothing, a   *)
(* closing moves it to the closed, a tender or a reopening back.            *)
LEMMA BookIs ==
  ASSUME connector = "germany", Register, NEW s \in Books, NEW n \in notices
  PROVE  LET r == Germany!ApplyEvent(s, n)
             l == n.lot
             e == Germany!Current(s, l)
             later == e # None /\ n.at > e.at IN
         /\ r \in Books
         /\ \A k \in Lot : k # l => /\ r.tracked[k] = s.tracked[k] /\ r.closed[k] = s.closed[k]
                                    /\ r.recent[k] = s.recent[k]
         /\ n.kind = "tender" /\ (e = None \/ later) =>
              /\ r.tracked[l] # None /\ r.tracked[l].at = n.at /\ r.tracked[l].day = n.day
              /\ r.tracked[l].deadline = n.deadline
              /\ Visible(r.tracked[l]) <=> Visible(e)
              /\ r.closed[l] = None /\ r.recent[l] = None
         /\ n.kind = "reopen" /\ later =>
              /\ r.tracked[l] # None /\ r.tracked[l].at = n.at /\ r.tracked[l].day = n.day
              /\ r.tracked[l].deadline = e.deadline
              /\ Visible(r.tracked[l]) <=> Visible(e)
              /\ r.closed[l] = None /\ r.recent[l] = None
         /\ n.kind = "close" /\ later =>
              /\ r.closed[l] # None /\ r.closed[l].at = n.at /\ r.closed[l].day = n.day
              /\ r.closed[l].deadline = e.deadline
              /\ Visible(r.closed[l]) <=> Visible(e)
              /\ Pending(r.closed[l]) <=> Visible(e)
              /\ r.tracked[l] = None /\ r.recent[l] = None
         /\ ~later /\ ~(n.kind = "tender" /\ e = None) => r = s
<1> DEFINE l == n.lot
           e == Germany!Current(s, l)
           later == e # None /\ n.at > e.at
           r == Germany!ApplyEvent(s, n)
           fresh == Germany!MergeNotice(e, Germany!NoticeEvent(n))
           again == [e EXCEPT !.at = n.at, !.day = n.day, !.emitted = FALSE]
<1>1. /\ l \in Lot /\ n.deadline \in Int \cup {None} /\ n.at \in Nat /\ n.day \in Nat
      /\ n.kind \in {"tender", "close", "reopen"}
  BY Times, GermanKinds
<1>2. /\ s.tracked \in Germany!Lots /\ s.closed \in Germany!Lots /\ s.recent \in Germany!Lots
      /\ s = [tracked |-> s.tracked, closed |-> s.closed, recent |-> s.recent]
  BY DEF Books
<1>3. e \in Germany!LotState \cup {None}
  BY <1>1, CurrentIs
<1>4. r = CASE n.kind = "reopen" /\ later ->
                 Germany!Track(s, l, Germany!Reopened(e, Germany!AwardEvent(n)))
            [] n.kind = "close" /\ later ->
                 [s EXCEPT !.tracked[l] = None, !.recent[l] = None,
                           !.closed[l] = Germany!MergeResult(e, Germany!AwardEvent(n))]
            [] n.kind = "tender" /\ (e = None \/ later) -> Germany!Track(s, l, fresh)
            [] OTHER -> s
  BY DEF Germany!ApplyEvent
<1> HIDE DEF l, e, r
<1>5. /\ Germany!Reopened(e, Germany!AwardEvent(n)) = again
      /\ Germany!MergeResult(e, Germany!AwardEvent(n)) = again
  BY DEF Germany!Reopened, Germany!MergeResult, Germany!AwardEvent
<1>6. later => /\ again \in Germany!LotState /\ again # None
               /\ again.at = n.at /\ again.day = n.day /\ again.deadline = e.deadline
               /\ Visible(again) <=> Visible(e)
               /\ Pending(again) <=> Visible(e)
  <2> SUFFICES ASSUME e # None
               PROVE  /\ again \in Germany!LotState /\ again # None
                      /\ again.at = n.at /\ again.day = n.day /\ again.deadline = e.deadline
                      /\ Visible(again) <=> Visible(e)
                      /\ Pending(again) <=> Visible(e)
    OBVIOUS
  <2>1. /\ again \in Germany!LotState /\ again.at = n.at /\ again.day = n.day
        /\ again.deadline = e.deadline /\ again.visible = e.visible
        /\ again.emitted = FALSE
    BY <1>1, <1>3 DEF Germany!LotState
  <2> HIDE DEF again
  <2>2. again # None
    BY <2>1, NoneAssumption
  <2>3. Visible(again) <=> Visible(e)
    BY <2>1, <2>2, Zenon DEF Visible
  <2>4. Pending(again) <=> Visible(e)
    BY <2>1, <2>3, Zenon DEF Pending
  <2> QED
    BY <2>1, <2>2, <2>3, <2>4
<1>7. /\ fresh \in Germany!LotState /\ fresh # None
      /\ fresh.at = n.at /\ fresh.day = n.day /\ fresh.deadline = n.deadline
      /\ Visible(fresh) <=> Visible(e)
  <2> DEFINE b == Visible(e)
             event == Germany!NoticeEvent(n)
  <2>1. event = [at |-> n.at, day |-> n.day, deadline |-> n.deadline, visible |-> FALSE,
                 emitted |-> FALSE]
    BY DEF Germany!NoticeEvent
  <2>2. fresh = IF e = None THEN event ELSE [event EXCEPT !.visible = e.visible]
    BY DEF Germany!MergeNotice
  <2> HIDE DEF event, fresh
  <2>3. CASE e = None
    <3>1. /\ fresh \in Germany!LotState /\ fresh.at = n.at /\ fresh.day = n.day
          /\ fresh.deadline = n.deadline /\ fresh.visible = FALSE
      BY <1>1, <2>1, <2>2, <2>3 DEF Germany!LotState
    <3>2. ~Visible(fresh) /\ ~Visible(e)
      BY <2>3, <3>1, Zenon DEF Visible
    <3>3. fresh # None
      BY <3>1, NoneAssumption
    <3> QED
      BY <3>1, <3>2, <3>3
  <2>4. CASE e # None
    <3>1. /\ fresh \in Germany!LotState /\ fresh.at = n.at /\ fresh.day = n.day
          /\ fresh.deadline = n.deadline /\ fresh.visible = e.visible
      BY <1>1, <1>3, <2>1, <2>2, <2>4 DEF Germany!LotState
    <3>2. fresh # None
      BY <3>1, NoneAssumption
    <3>3. Visible(fresh) <=> Visible(e)
      BY <2>4, <3>1, <3>2, Zenon DEF Visible
    <3> QED
      BY <3>1, <3>2, <3>3
  <2> QED
    BY <2>3, <2>4
<1>8. ASSUME NEW T, NEW C, NEW R, r = [tracked |-> T, closed |-> C, recent |-> R]
      PROVE  r.tracked = T /\ r.closed = C /\ r.recent = R
  BY <1>8
<1> HIDE DEF fresh, again
<1>9. ASSUME NEW x \in Germany!LotState
      PROVE  LET T == [s.tracked EXCEPT ![l] = x]
                 C == [s.closed EXCEPT ![l] = None]
                 R == [s.recent EXCEPT ![l] = None] IN
             /\ Germany!Track(s, l, x) = [tracked |-> T, closed |-> C, recent |-> R]
             /\ T \in Germany!Lots /\ C \in Germany!Lots /\ R \in Germany!Lots
             /\ T[l] = x /\ C[l] = None /\ R[l] = None
             /\ \A k \in Lot : k # l => /\ T[k] = s.tracked[k] /\ C[k] = s.closed[k]
                                        /\ R[k] = s.recent[k]
  <2>1. Germany!Track(s, l, x) = [tracked |-> [s.tracked EXCEPT ![l] = x],
                                  closed |-> [s.closed EXCEPT ![l] = None],
                                  recent |-> [s.recent EXCEPT ![l] = None]]
    <3> DEFINE T == [s.tracked EXCEPT ![l] = x]
               C == [s.closed EXCEPT ![l] = None]
               R == [s.recent EXCEPT ![l] = None]
    <3>1. Germany!Track(s, l, x) =
            [s EXCEPT !.tracked[l] = x, !.closed[l] = None, !.recent[l] = None]
      BY DEF Germany!Track
    <3> QED
      BY <1>2, <3>1
  <2> QED
    BY <1>1, <1>2, <2>1 DEF Germany!Lots
<1>10. CASE n.kind = "tender" /\ (e = None \/ later)
  <2>1. r = Germany!Track(s, l, fresh)
    BY <1>4, <1>10
  <2> DEFINE T == [s.tracked EXCEPT ![l] = fresh]
             C == [s.closed EXCEPT ![l] = None]
             R == [s.recent EXCEPT ![l] = None]
  <2>2. /\ r = [tracked |-> T, closed |-> C, recent |-> R]
        /\ T \in Germany!Lots /\ C \in Germany!Lots /\ R \in Germany!Lots
        /\ T[l] = fresh /\ C[l] = None /\ R[l] = None
        /\ \A k \in Lot : k # l => /\ T[k] = s.tracked[k] /\ C[k] = s.closed[k]
                                   /\ R[k] = s.recent[k]
    BY <1>7, <1>9, <2>1
  <2> HIDE DEF T, C, R
  <2>3. r.tracked = T /\ r.closed = C /\ r.recent = R /\ r \in Books
    BY <1>8, <2>2 DEF Books
  <2> QED
    BY <1>7, <1>10, <2>2, <2>3 DEF r, e, l
<1>11. CASE n.kind = "reopen" /\ later
  <2>1. r = Germany!Track(s, l, again)
    BY <1>4, <1>5, <1>11
  <2> DEFINE T == [s.tracked EXCEPT ![l] = again]
             C == [s.closed EXCEPT ![l] = None]
             R == [s.recent EXCEPT ![l] = None]
  <2>2. /\ r = [tracked |-> T, closed |-> C, recent |-> R]
        /\ T \in Germany!Lots /\ C \in Germany!Lots /\ R \in Germany!Lots
        /\ T[l] = again /\ C[l] = None /\ R[l] = None
        /\ \A k \in Lot : k # l => /\ T[k] = s.tracked[k] /\ C[k] = s.closed[k]
                                   /\ R[k] = s.recent[k]
    BY <1>6, <1>9, <1>11, <2>1
  <2> HIDE DEF T, C, R
  <2>3. r.tracked = T /\ r.closed = C /\ r.recent = R /\ r \in Books
    BY <1>8, <2>2 DEF Books
  <2> QED
    BY <1>6, <1>11, <2>2, <2>3 DEF r, e, l
<1>12. CASE n.kind = "close" /\ later
  <2> DEFINE T == [s.tracked EXCEPT ![l] = None]
             C == [s.closed EXCEPT ![l] = again]
             R == [s.recent EXCEPT ![l] = None]
  <2>1. r = [s EXCEPT !.tracked[l] = None, !.recent[l] = None, !.closed[l] = again]
    BY <1>4, <1>5, <1>12
  <2>2. r = [tracked |-> T, closed |-> C, recent |-> R]
    BY <1>2, <2>1
  <2>3. /\ T \in Germany!Lots /\ C \in Germany!Lots /\ R \in Germany!Lots
        /\ T[l] = None /\ C[l] = again /\ R[l] = None
        /\ \A k \in Lot : k # l => /\ T[k] = s.tracked[k] /\ C[k] = s.closed[k]
                                   /\ R[k] = s.recent[k]
    BY <1>1, <1>2, <1>6, <1>12 DEF Germany!Lots
  <2> HIDE DEF T, C, R
  <2>4. r.tracked = T /\ r.closed = C /\ r.recent = R /\ r \in Books
    BY <1>8, <2>2, <2>3 DEF Books
  <2> QED
    BY <1>6, <1>12, <2>3, <2>4 DEF r, e, l
<1>13. CASE ~later /\ ~(n.kind = "tender" /\ e = None)
  <2>1. r = s
    BY <1>4, <1>13
  <2> QED
    BY <1>13, <2>1 DEF r, e, l
<1> QED
  BY <1>1, <1>10, <1>11, <1>12, <1>13

(* Replay is made of ApplyEvent.                                            *)
LEMMA BooksReplay ==
  ASSUME connector = "germany", Register, NEW ns \in SUBSET notices, NEW s0 \in Books
  PROVE  \E h : /\ h[{}] = s0
                /\ \A k \in SUBSET ns : k # {} =>
                     h[k] = Germany!ApplyEvent(h[k \ {Newest(k)}], Newest(k))
                /\ h[ns] = Germany!Replay(Germany!ApplyEvent, Germany!Newest, s0, ns)
<1> DEFINE S == Books
           f == [x \in S \X ns |-> Germany!ApplyEvent(x[1], x[2])]
           last == [k \in SUBSET ns |-> Newest(k)]
           E(g) == [k \in SUBSET ns |->
                      IF k = {} THEN s0 ELSE Germany!ApplyEvent(g[k \ {Newest(k)}], Newest(k))]
           h == CHOOSE g : g = E(g)
<1>1. f \in [S \X ns -> S]
  BY BookIs
<1>2. \A k \in SUBSET ns : k # {} => last[k] \in k
  BY NewestOf
<1>3. IsFiniteSet(ns) /\ s0 \in S
  BY FS_Subset DEF Register
<1>4. \A s \in S, n \in ns : f[<<s, n>>] = Germany!ApplyEvent(s, n)
  OBVIOUS
<1>5. \A k \in SUBSET ns : last[k] = Newest(k)
  OBVIOUS
<1> HIDE DEF f, last, S
<1>6. PICK g \in [SUBSET ns -> S] :
        g = [k \in SUBSET ns |-> IF k = {} THEN s0 ELSE f[g[k \ {last[k]}], last[k]]]
  <2>1. Replays(ns, S, s0, f, last)
    BY <1>1, <1>2, <1>3 DEF Replays
  <2>2. \E g \in [SUBSET ns -> S] : Replayed(g, ns, s0, f, last)
    BY <2>1, ReplayExists
  <2> QED
    BY <2>2 DEF Replayed
<1>7. ASSUME NEW k \in SUBSET ns
      PROVE  (IF k = {} THEN s0 ELSE f[g[k \ {last[k]}], last[k]])
               = IF k = {} THEN s0 ELSE Germany!ApplyEvent(g[k \ {Newest(k)}], Newest(k))
  <2>1. k # {} => g[k \ {last[k]}] \in S /\ last[k] \in ns
    BY <1>2
  <2>2. k # {} => f[g[k \ {last[k]}], last[k]] = Germany!ApplyEvent(g[k \ {last[k]}], last[k])
    BY <1>4, <2>1
  <2> QED
    BY <1>5, <2>2
<1>8. g = E(g)
  BY <1>6, <1>7, Zenon
<1>9. h = E(h)
  BY <1>8, Zenon
<1>10. Germany!Replay(Germany!ApplyEvent, Germany!Newest, s0, ns) = h[ns]
  BY DEF Germany!Replay, Germany!Newest, Newest
<1> HIDE DEF h
<1>11. h[{}] = s0 /\ \A k \in SUBSET ns : k # {} =>
                      h[k] = Germany!ApplyEvent(h[k \ {Newest(k)}], Newest(k))
  BY <1>9, Zenon
<1> QED
  BY <1>10, <1>11

BookedAfter(b, s, l, k, start, last) ==
  /\ Booked(s, l, Earlier(start) \cup k, last)
  /\ Germany!Current(s, l) = None =>
       /\ Germany!Current(b, l) = None
       /\ \A n \in k : n.lot = l => n.kind # "tender"

(* One more notice, the newest of those applied.                            *)
LEMMA BookedStep ==
  ASSUME connector = "germany", Register, NEW start \in Int, NEW last \in Int,
         NEW ns, ns = {n \in notices : start <= n.day /\ n.day <= last},
         NEW b, NEW s \in Books, NEW k \in SUBSET ns, k # {}, Prefix(k, ns),
         \A l \in Lot : BookedAfter(b, s, l, k \ {Newest(k)}, start, last)
  PROVE  \A l \in Lot :
           BookedAfter(b, Germany!ApplyEvent(s, Newest(k)), l, k, start, last)
<1> DEFINE n == Newest(k)
           r == Germany!ApplyEvent(s, n)
<1>1. /\ n \in k /\ n \in notices /\ n.lot \in Lot /\ n.at \in Nat
      /\ n.day \in Nat /\ n.day <= last
      /\ \A o \in k : o.at <= n.at
  <2>1. k \in SUBSET notices
    OBVIOUS
  <2> QED
    BY <2>1, NewestOf, Times
<1>2. \A o \in notices : o.at \in Nat /\ o.day \in Nat
  BY Times
<1>3. \A o \in notices : o.at < n.at => o \in k \ {n} \/ o.day < start
  <2>1. ASSUME NEW o \in notices, o.at < n.at PROVE o \in k \ {n} \/ o.day < start
    <3>1. o.day <= n.day
      BY <1>1, <1>2, <2>1, Times
    <3>2. o.day < start \/ o \in ns
      BY <1>1, <1>2, <3>1
    <3>3. o \in ns => o \in k
      BY <1>1, <1>2, <2>1 DEF Prefix
    <3>4. o # n
      BY <1>1, <2>1
    <3> QED
      BY <3>2, <3>3, <3>4
  <2> QED
    BY <2>1
<1> HIDE DEF n, r
<1>4. ASSUME NEW l \in Lot, l # n.lot PROVE BookedAfter(b, r, l, k, start, last)
  <2>1. r.tracked[l] = s.tracked[l] /\ r.closed[l] = s.closed[l] /\ r.recent[l] = s.recent[l]
    BY <1>1, <1>4, BookIs DEF r
  <2>2. Germany!Current(r, l) = Germany!Current(s, l)
    BY <2>1 DEF Germany!Current
  <2>3. BookedAfter(b, s, l, k \ {n}, start, last)
    BY DEF n
  <2>4. n \notin Mine(l)
    BY <1>4 DEF Mine
  <2>5. \A o \in Mine(l) : o \in Earlier(start) \cup k <=> o \in Earlier(start) \cup (k \ {n})
    BY <2>4
  <2> QED
    BY <1>4, <2>1, <2>2, <2>3, <2>5 DEF BookedAfter, Booked
<1>5. ASSUME NEW l \in Lot, l = n.lot PROVE BookedAfter(b, r, l, k, start, last)
  <2> DEFINE e == Germany!Current(s, l)
             x == Germany!Current(r, l)
             later == e # None /\ n.at > e.at
  <2>1. n \in Mine(l) /\ Mine(l) \in SUBSET notices
    BY <1>1, <1>5 DEF Mine
  <2>2. BookedAfter(b, s, l, k \ {n}, start, last)
    BY DEF n
  <2>3. /\ s.tracked[l] # None => s.closed[l] = None /\ s.recent[l] = None
        /\ s.closed[l] # None => s.recent[l] = None
        /\ e # None => \E m \in Mine(l) : /\ m.at = e.at /\ m.day = e.day /\ m.day <= last
                                          /\ s.tracked[l] # None <=> m.kind # "close"
        /\ e # None => e.deadline = DeadlineOf(UpTo(l, e.at))
        /\ e # None => \A o \in Mine(l) : o \in Earlier(start) \cup (k \ {n}) => o.at <= e.at
        /\ listed[l] = Undated => Visible(s.tracked[l]) \/ Pending(s.closed[l])
        /\ Visible(e) => l \in shown
        /\ e = None => /\ Germany!Current(b, l) = None
                       /\ \A o \in k \ {n} : o.lot = l => o.kind # "tender"
    BY <2>2 DEF BookedAfter, Booked
  <2>4. /\ e \in Germany!LotState \cup {None}
        /\ e # None => e.at \in Nat
        /\ s.tracked[l] # None => e = s.tracked[l]
        /\ s.tracked[l] = None /\ s.closed[l] # None => e = s.closed[l]
        /\ s.tracked[l] = None /\ s.closed[l] = None => e = s.recent[l]
    BY CurrentIs
  <2>5. r \in Books
    BY <1>1, BookIs DEF r
  <2>6. /\ r.tracked[l] # None => x = r.tracked[l]
        /\ r.tracked[l] = None /\ r.closed[l] # None => x = r.closed[l]
        /\ r.tracked[l] = None /\ r.closed[l] = None => x = r.recent[l]
    BY <2>5, CurrentIs
  <2>7. listed[l] = Undated => Visible(e) /\ e # None
    <3>1. Visible(s.tracked[l]) => s.tracked[l] # None
      BY DEF Visible
    <3>2. Pending(s.closed[l]) => s.closed[l] # None /\ Visible(s.closed[l])
      BY DEF Visible, Pending
    <3> QED
      BY <2>3, <2>4, <3>1, <3>2
  <2>8. \A o \in Mine(l) : o.at < n.at => o \in k \ {n} \/ o \in Earlier(start)
    BY <1>3, <2>1 DEF Earlier
  <2>9. ~Visible(None)
    BY DEF Visible
  <2>10. n.kind \in {"tender", "close", "reopen"}
    BY <1>1, GermanKinds
  <2>11. ASSUME x # None, x.at = n.at, x.day = n.day, Visible(x) <=> Visible(e),
                r.tracked[l] # None <=> n.kind # "close",
                r.tracked[l] # None => r.closed[l] = None /\ r.recent[l] = None,
                r.closed[l] # None => r.recent[l] = None,
                Visible(e) => Visible(r.tracked[l]) \/ Pending(r.closed[l]),
                x.deadline = DeadlineOf(UpTo(l, n.at))
         PROVE  BookedAfter(b, r, l, k, start, last)
    <3>1. \A o \in Mine(l) : o \in Earlier(start) \cup k => o.at <= n.at
      <4>1. ASSUME NEW o \in Mine(l), o \in Earlier(start) PROVE o.at <= n.at
        <5>1. n \in ns /\ o \in notices
          BY <1>1, <2>1
        <5>2. o.day < n.day
          BY <1>1, <1>2, <4>1, <5>1 DEF Earlier
        <5> QED
          BY <1>1, <1>2, <5>1, <5>2, Times
      <4> QED
        BY <1>1, <4>1
    <3> HIDE DEF x, e
    <3>2. Booked(r, l, Earlier(start) \cup k, last)
      BY <1>1, <2>1, <2>3, <2>7, <2>11, <3>1 DEF Booked, x
    <3> QED
      BY <2>11, <3>2 DEF BookedAfter, x
  <2>12. CASE n.kind = "tender" /\ (e = None \/ later)
    <3>1. /\ r.tracked[l] # None /\ r.tracked[l].at = n.at /\ r.tracked[l].day = n.day
          /\ r.tracked[l].deadline = n.deadline
          /\ Visible(r.tracked[l]) <=> Visible(e)
          /\ r.closed[l] = None /\ r.recent[l] = None
      BY <1>1, <1>5, <2>12, BookIs DEF r
    <3>2. n.deadline = DeadlineOf(UpTo(l, n.at))
      <4>1. UpTo(l, n.at) \in SUBSET notices /\ n \in UpTo(l, n.at)
            /\ \A o \in UpTo(l, n.at) : o.at <= n.at
        BY <1>1, <2>1 DEF UpTo
      <4>2. Newest(UpTo(l, n.at)) = n
        BY <4>1, NewestOf
      <4> QED
        BY <2>12, <4>1, <4>2, DeadlineOfNewest
    <3> HIDE DEF e, x, later
    <3> QED
      BY <2>6, <2>11, <2>12, <3>1, <3>2
  <2>13. ASSUME later, n.kind # "tender"
         PROVE  DeadlineOf(UpTo(l, n.at)) = e.deadline
    <3>1. \A o \in Mine(l) : o.at <= n.at <=> o = n \/ o.at <= e.at
      <4>1. ASSUME NEW o \in Mine(l), o.at <= n.at, o # n PROVE o.at <= e.at
        <5>1. o.at < n.at
          BY <1>1, <1>2, <2>1, <4>1, Times
        <5> QED
          BY <2>3, <2>8, <2>13, <4>1, <5>1
      <4>2. ASSUME NEW o \in Mine(l), o.at <= e.at PROVE o.at <= n.at
        BY <1>1, <1>2, <2>1, <2>4, <2>13, <4>2
      <4> QED
        BY <1>1, <4>1, <4>2
    <3>2. UpTo(l, n.at) = UpTo(l, e.at) \cup {n}
      BY <2>1, <3>1 DEF UpTo
    <3>3. Dated(UpTo(l, n.at)) = Dated(UpTo(l, e.at))
      BY <2>10, <2>13, <3>2 DEF Dated
    <3> QED
      BY <2>3, <2>13, <3>3 DEF DeadlineOf
  <2>14. CASE n.kind = "reopen" /\ later
    <3>1. /\ r.tracked[l] # None /\ r.tracked[l].at = n.at /\ r.tracked[l].day = n.day
          /\ r.tracked[l].deadline = e.deadline
          /\ Visible(r.tracked[l]) <=> Visible(e)
          /\ r.closed[l] = None /\ r.recent[l] = None
      BY <1>1, <1>5, <2>14, BookIs DEF r
    <3> HIDE DEF e, x, later
    <3> QED
      BY <2>6, <2>11, <2>13, <2>14, <3>1
  <2>15. CASE n.kind = "close" /\ later
    <3>1. /\ r.closed[l] # None /\ r.closed[l].at = n.at /\ r.closed[l].day = n.day
          /\ r.closed[l].deadline = e.deadline
          /\ Visible(r.closed[l]) <=> Visible(e)
          /\ Pending(r.closed[l]) <=> Visible(e)
          /\ r.tracked[l] = None /\ r.recent[l] = None
      BY <1>1, <1>5, <2>15, BookIs DEF r
    <3> HIDE DEF e, x, later
    <3> QED
      BY <2>6, <2>11, <2>13, <2>15, <3>1
  <2>16. CASE ~later /\ ~(n.kind = "tender" /\ e = None)
    <3>1. r = s
      BY <1>1, <1>5, <2>16, BookIs DEF r
    <3>2. e # None => n.at <= e.at
      BY <1>1, <2>4, <2>16
    <3>3. x = e
      BY <3>1
    <3>4. \A o \in Mine(l) : o \in Earlier(start) \cup k => o \in Earlier(start) \cup (k \ {n}) \/ o = n
      OBVIOUS
    <3>5. e = None => \A o \in k : o.lot = l => o.kind # "tender"
      BY <2>3, <2>16
    <3> HIDE DEF e, x, later
    <3>6. Booked(s, l, Earlier(start) \cup k, last)
      BY <2>3, <3>2, <3>4 DEF Booked, e
    <3> QED
      BY <2>3, <3>1, <3>3, <3>5, <3>6 DEF BookedAfter, x
  <2> QED
    BY <2>10, <2>12, <2>14, <2>15, <2>16
<1> QED
  BY <1>4, <1>5 DEF r, n

(* Applied from the first to the last (BookedAfter).                        *)
LEMMA BookedReplay ==
  ASSUME connector = "germany", Register, NEW start \in Int, NEW last \in Int,
         NEW ns, ns = {n \in notices : start <= n.day /\ n.day <= last}, NEW b \in Books,
         \A l \in Lot : Booked(b, l, Earlier(start), last)
  PROVE  LET s == Germany!Replay(Germany!ApplyEvent, Germany!Newest, b, ns) IN
         /\ s \in Books
         /\ \A l \in Lot : BookedAfter(b, s, l, ns, start, last)
<1>1. PICK h : /\ h[{}] = b
               /\ \A k \in SUBSET ns : k # {} =>
                    h[k] = Germany!ApplyEvent(h[k \ {Newest(k)}], Newest(k))
               /\ h[ns] = Germany!Replay(Germany!ApplyEvent, Germany!Newest, b, ns)
  <2>1. ns \in SUBSET notices
    OBVIOUS
  <2> QED
    BY <2>1, BooksReplay
<1> DEFINE J == {x \in (SUBSET ns) \X Books :
                   Prefix(x[1], ns) => \A l \in Lot : BookedAfter(b, x[2], l, x[1], start, last)}
           last0 == [k \in SUBSET ns |-> Newest(k)]
<1>2. \A k \in SUBSET ns : k # {} => Newest(k) \in k /\ \A o \in k : o.at <= Newest(k).at
  <2>1. \A k \in SUBSET ns : k \in SUBSET notices
    OBVIOUS
  <2> QED
    BY <2>1, NewestOf
<1>3. h[{}] \in Books /\ <<{}, h[{}]>> \in J
  <2>1. \A l \in Lot : BookedAfter(b, b, l, {}, start, last)
    BY DEF BookedAfter
  <2> QED
    BY <1>1, <2>1
<1>4. ASSUME NEW k \in SUBSET ns, k # {}, h[k \ {last0[k]}] \in Books,
             <<k \ {last0[k]}, h[k \ {last0[k]}]>> \in J
      PROVE  h[k] \in Books /\ <<k, h[k]>> \in J
  <2> DEFINE n == Newest(k)
             s == h[k \ {n}]
  <2>1. last0[k] = n /\ n \in k /\ n \in notices /\ \A o \in k : o.at <= n.at
    BY <1>2, <1>4
  <2>2. h[k] = Germany!ApplyEvent(s, n)
    BY <1>1, <1>4
  <2>3. Prefix(k, ns) => Prefix(k \ {n}, ns)
    <3>1. ASSUME Prefix(k, ns), NEW m \in k \ {n}, NEW o \in ns, o.at <= m.at
          PROVE  o \in k \ {n}
      <4>1. o \in k
        BY <3>1 DEF Prefix
      <4>2. m.at <= n.at /\ m.at \in Nat /\ n.at \in Nat /\ m # n /\ m \in notices /\ n \in notices
        BY <1>4, <2>1, <3>1, Times
      <4>3. m.at < n.at
        BY <4>2, Times
      <4>4. o # n
        BY <3>1, <4>2, <4>3
      <4> QED
        BY <4>1, <4>4
    <3> HIDE DEF n
    <3> QED
      BY <3>1, Zenon DEF Prefix
  <2>4. s \in Books /\ (Prefix(k, ns) => \A l \in Lot : BookedAfter(b, s, l, k \ {n}, start, last))
    <3> HIDE DEF n
    <3> QED
      BY <1>4, <2>1, <2>3
  <2> HIDE DEF s
  <2>5. h[k] \in Books
    BY <1>4, <2>1, <2>2, <2>4, BookIs
  <2>6. ASSUME Prefix(k, ns)
        PROVE  \A l \in Lot : BookedAfter(b, h[k], l, k, start, last)
    <3>1. \A l \in Lot : BookedAfter(b, s, l, k \ {Newest(k)}, start, last)
      BY <2>4, <2>6
    <3>2. \A l \in Lot : BookedAfter(b, Germany!ApplyEvent(s, Newest(k)), l, k, start, last)
      BY <1>4, <2>4, <2>6, <3>1, BookedStep, Zenon
    <3> QED
      BY <2>2, <3>2
  <2> QED
    BY <2>5, <2>6
<1>5. IsFiniteSet(ns)
  <2>1. ns \in SUBSET notices
    OBVIOUS
  <2> QED
    BY <2>1, FS_Subset DEF Register
<1>6. Prefix(ns, ns)
  BY DEF Prefix
<1>7. \A k \in SUBSET ns : k # {} => last0[k] \in k
  BY <1>2
<1> HIDE DEF J, last0
<1>8. Inductive(ns, Books, J, h, last0)
  BY <1>3, <1>4, <1>5, <1>7, Zenon DEF Inductive
<1>9. h[ns] \in Books /\ <<ns, h[ns]>> \in J
  BY <1>8, ReplayInduction
<1> QED
  BY <1>1, <1>6, <1>9 DEF J

(* Which lots are tracked on, and which of them are visible.                *)
LEMMA BookSurvivor ==
  ASSUME NEW s \in Books, NEW l \in Lot, today \in Int
  PROVE  LET t == s.tracked[l]
             r == Germany!Survivors(s, today)[l] IN
         /\ r \in Germany!LotState \cup {None}
         /\ r # None <=> t # None /\ ~Elapsed(t.deadline, today)
         /\ r # None => r.at = t.at /\ r.day = t.day /\ r.deadline = t.deadline
         /\ Visible(r) <=> t # None /\ Future(t.deadline, today)
<1> DEFINE t == s.tracked[l]
           r == Germany!Survivors(s, today)[l]
<1>1. t \in Germany!LotState \cup {None}
  BY DEF Books, Germany!Lots
<1>2. r = IF t = None \/ Elapsed(t.deadline, today) THEN None
          ELSE [t EXCEPT !.visible = t.deadline # None]
  BY DEF Germany!Survivors, Germany!Elapsed, Elapsed
<1> HIDE DEF t, r
<1>3. CASE t = None \/ Elapsed(t.deadline, today)
  <2>1. r = None /\ ~Visible(r)
    BY <1>2, <1>3 DEF Visible
  <2>2. ~(t # None /\ Future(t.deadline, today))
    BY <1>1, <1>3 DEF Elapsed, Future, Germany!LotState
  <2> QED
    BY <1>3, <2>1, <2>2 DEF r, t
<1>4. CASE t # None /\ ~Elapsed(t.deadline, today)
  <2>1. /\ r \in Germany!LotState /\ r.deadline = t.deadline /\ r.at = t.at /\ r.day = t.day
        /\ r.visible = (t.deadline # None)
    BY <1>1, <1>2, <1>4 DEF Germany!LotState
  <2>2. r # None
    BY <2>1, NoneAssumption
  <2>3. Future(t.deadline, today) <=> t.deadline # None
    BY <1>1, <1>4 DEF Elapsed, Future, Germany!LotState
  <2>4. Visible(r) <=> t.deadline # None
    BY <2>1, <2>2, Zenon DEF Visible
  <2> QED
    BY <1>4, <2>1, <2>2, <2>3, <2>4 DEF r, t
<1> QED
  BY <1>3, <1>4

(* What retention forgets: closings older than it (_prune_recently_closed,  *)
(* germany_doe.py:627-634).                                                 *)
LEMMA PrunedIs ==
  ASSUME NEW recent \in Germany!Lots, NEW target \in Int, NEW l \in Lot
  PROVE  LET p == Germany!Pruned(recent, target)[l] IN
         /\ Germany!Pruned(recent, target) \in Germany!Lots
         /\ p = recent[l] \/ (p = None /\ recent[l] # None /\ recent[l].day < target - Retention)
BY DEF Germany!Pruned, Germany!Lots

(* Closings of a call are remembered for reopenings.                        *)
LEMMA RememberedIs ==
  ASSUME NEW s \in Books, NEW l \in Lot
  PROVE  LET c == s.closed[l]
             q == Germany!Remembered(s)[l] IN
         /\ Germany!Remembered(s) \in Germany!Lots
         /\ c = None => q = s.recent[l]
         /\ c # None => /\ q # None /\ q.at = c.at /\ q.day = c.day /\ q.deadline = c.deadline
                        /\ Visible(q) <=> Visible(c)
<1>1. /\ s.closed \in Germany!Lots /\ s.recent \in Germany!Lots
  BY DEF Books
<1>2. ASSUME NEW k \in Lot, s.closed[k] # None
      PROVE  LET c == s.closed[k]
                 q == Germany!Remembered(s)[k] IN
             /\ q \in Germany!LotState /\ q # None
             /\ q.at = c.at /\ q.day = c.day /\ q.deadline = c.deadline
             /\ Visible(q) <=> Visible(c)
  <2> DEFINE c == s.closed[k]
             q == Germany!Remembered(s)[k]
             b == c.emitted \/ c.visible
  <2>1. c \in Germany!LotState
    BY <1>1, <1>2 DEF Germany!Lots
  <2>2. q = [c EXCEPT !.emitted = b]
    BY <1>2 DEF Germany!Remembered
  <2>3. b \in BOOLEAN
    BY <2>1, Zenon DEF Germany!LotState
  <2> HIDE DEF c, q, b
  <2>4. /\ q \in Germany!LotState /\ q.at = c.at /\ q.day = c.day /\ q.deadline = c.deadline
        /\ q.visible = c.visible
    BY <2>1, <2>2, <2>3 DEF Germany!LotState
  <2>5. q # None /\ c # None
    BY <1>2, <2>4, NoneAssumption DEF c
  <2>6. Visible(q) <=> Visible(c)
    BY <2>4, <2>5, Zenon DEF Visible
  <2> QED
    BY <2>4, <2>5, <2>6 DEF q, c
<1>3. Germany!Remembered(s) = [k \in Lot |-> Germany!Remembered(s)[k]]
  BY DEF Germany!Remembered
<1>4. \A k \in Lot : s.closed[k] = None => Germany!Remembered(s)[k] = s.recent[k]
  BY DEF Germany!Remembered
<1>5. \A k \in Lot : Germany!Remembered(s)[k] \in Germany!LotState \cup {None}
  BY <1>1, <1>2, <1>4 DEF Germany!Lots
<1>6. Germany!Remembered(s) \in Germany!Lots
  BY <1>3, <1>5 DEF Germany!Lots
<1> QED
  BY <1>2, <1>4, <1>6

(* What is known once the archives up to a day are read.                    *)
BookRead(s, l, last, base) ==
  LET e == Germany!Current(s, l) IN
  /\ e # None =>
       /\ Of(l, last) # {} /\ e.deadline = DeadlineOf(Of(l, last))
       /\ Newest(Of(l, last)).at = e.at /\ Newest(Of(l, last)).day = e.day
       /\ s.tracked[l] # None <=> Newest(Of(l, last)).kind # "close"
  /\ \A T \in Tenders(Mine(l)) :
       /\ e # None /\ T.day <= last =>
            \/ \E U \in Tenders(Mine(l)) : U.at > T.at /\ U.day <= last
            \/ T.deadline = e.deadline /\ T.at <= e.at
       /\ e = None /\ base <= T.day /\ T.day <= last => Remembers(l, T, last)

(* What is known once the archives are read, in terms of the notices alone. *)
LEMMA BookReadIs ==
  ASSUME connector = "germany", Register, NEW start \in Int, NEW last \in Int, NEW base \in Int,
         NEW ns, ns = {n \in notices : start <= n.day /\ n.day <= last},
         NEW b \in Books, NEW s \in Books, NEW l \in Lot,
         BookedAfter(b, s, l, ns, start, last),
         Germany!Current(b, l) = None => \A T \in Tenders(Mine(l)) :
           base <= T.day /\ T.day < start => Remembers(l, T, last)
  PROVE  BookRead(s, l, last, base)
<1> DEFINE e == Germany!Current(s, l)
           V == Of(l, last)
<1>1. /\ V \in SUBSET notices /\ V = {n \in Mine(l) : n.day <= last}
      /\ \A n \in Mine(l) : /\ n \in notices /\ n.day \in Nat /\ n.at \in Nat /\ n.lot = l
                            /\ n.kind \in {"tender", "close", "reopen"}
  BY Times, GermanKinds DEF Of, Mine
<1>2. \A n \in Mine(l) : n.day <= last => n \in Earlier(start) \cup ns
  BY <1>1 DEF Earlier
<1>3. ASSUME e # None
      PROVE  \E m \in V : /\ m = Newest(V) /\ m.at = e.at /\ m.day = e.day
                          /\ s.tracked[l] # None <=> m.kind # "close"
                          /\ UpTo(l, e.at) = V /\ e.deadline = DeadlineOf(V)
  <2>1. PICK m \in Mine(l) : /\ m.at = e.at /\ m.day = e.day /\ m.day <= last
                             /\ s.tracked[l] # None <=> m.kind # "close"
    BY <1>3 DEF BookedAfter, Booked
  <2>2. /\ e.deadline = DeadlineOf(UpTo(l, e.at))
        /\ \A n \in Mine(l) : n \in Earlier(start) \cup ns => n.at <= e.at
    BY <1>3 DEF BookedAfter, Booked
  <2>3. \A n \in Mine(l) : n.at <= e.at => n.day <= last
    <3>1. \A n \in Mine(l) : n.at <= m.at => n.day <= m.day
      BY <1>1, <2>1, Times
    <3>2. m.day \in Nat
      BY <1>1, <2>1
    <3> HIDE DEF e
    <3> QED
      BY <1>1, <2>1, <3>1, <3>2
  <2> HIDE DEF e
  <2>4. UpTo(l, e.at) = V
    BY <1>1, <1>2, <2>2, <2>3 DEF UpTo
  <2>5. m \in V /\ \A o \in V : o.at <= m.at
    BY <1>1, <1>2, <2>1, <2>2
  <2>6. m = Newest(V)
    BY <1>1, <2>5, NewestOf
  <2> QED
    BY <2>1, <2>2, <2>4, <2>5, <2>6
<1>4. ASSUME e # None, NEW T \in Tenders(Mine(l)), T.day <= last
      PROVE  \/ \E U \in Tenders(Mine(l)) : U.at > T.at /\ U.day <= last
             \/ T.deadline = e.deadline /\ T.at <= e.at
  <2>1. PICK m \in V : m = Newest(V) /\ m.at = e.at /\ e.deadline = DeadlineOf(V)
    BY <1>3, <1>4
  <2> DEFINE N == Newest(Dated(V))
  <2>2. T \in V /\ T.kind = "tender" /\ T \in Dated(V) /\ Dated(V) \in SUBSET notices
    BY <1>1, <1>4 DEF Tenders, Dated
  <2>3. /\ N \in Dated(V) /\ T.at <= N.at /\ \A o \in Dated(V) : o.at <= N.at
    BY <2>2, NewestOf
  <2>4. N \in Tenders(Mine(l)) /\ N.day <= last
    BY <1>1, <2>3 DEF Tenders, Dated
  <2>5. T \in notices /\ N \in notices /\ T.at \in Nat /\ N.at \in Nat /\ T.at <= m.at
    BY <1>1, <2>1, <2>2, <2>4, NewestOf, Times DEF Tenders, Mine
  <2>6. DeadlineOf(V) = N.deadline
    BY DEF DeadlineOf
  <2> HIDE DEF N, e
  <2>7. CASE T.at = N.at
    <3>1. T = N
      BY <2>5, <2>7, Times
    <3> QED
      BY <2>1, <2>5, <2>6, <3>1
  <2>8. CASE T.at # N.at
    BY <2>3, <2>4, <2>5, <2>8
  <2> QED
    BY <2>7, <2>8
<1>5. ASSUME e = None, NEW T \in Tenders(Mine(l)), base <= T.day, T.day <= last
      PROVE  Remembers(l, T, last)
  <2>1. /\ Germany!Current(b, l) = None /\ \A n \in ns : n.lot = l => n.kind # "tender"
    BY <1>5 DEF BookedAfter
  <2>2. T \in Mine(l) /\ T.kind = "tender" /\ T \notin ns
    BY <1>1, <2>1 DEF Tenders, Mine
  <2>3. T.day < start
    BY <1>1, <1>5, <2>2
  <2> QED
    BY <1>5, <2>1, <2>3
<1> HIDE DEF e, V
<1>6. e # None =>
       /\ V # {} /\ e.deadline = DeadlineOf(V)
       /\ Newest(V).at = e.at /\ Newest(V).day = e.day
       /\ s.tracked[l] # None <=> Newest(V).kind # "close"
  BY <1>3
<1> QED
  BY <1>4, <1>5, <1>6 DEF BookRead, e, V

(* What a call keeps of what it knows.                                      *)
KeptBook(s, u, l) ==
  LET e == Germany!Current(s, l)
      x == Germany!Current(u, l) IN
  /\ u.tracked[l] # None => u.closed[l] = None /\ u.recent[l] = None
  /\ u.closed[l] # None => u.recent[l] = None
  /\ x # None => /\ e # None /\ x.at = e.at /\ x.day = e.day /\ x.deadline = e.deadline
                 /\ u.tracked[l] # None <=> s.tracked[l] # None
  /\ x = None /\ e # None =>
       \/ s.tracked[l] # None /\ Elapsed(e.deadline, today)
       \/ s.tracked[l] = None /\ e.day < today - 1 - Retention

(* What is known between two calls, next being the first day still to read. *)
Bookkept(u, l, next, last, base) ==
  LET x == Germany!Current(u, l) IN
  /\ u.tracked[l] # None => u.closed[l] = None /\ u.recent[l] = None
  /\ u.closed[l] # None => u.recent[l] = None
  /\ x # None =>
       /\ \E m \in Mine(l) : /\ m.at = x.at /\ m.day = x.day /\ m.day <= last
                             /\ u.tracked[l] # None <=> m.kind # "close"
       /\ x.deadline = DeadlineOf(UpTo(l, x.at))
       /\ \A n \in Mine(l) : n \in Earlier(next) => n.at <= x.at
  /\ x = None =>
       \A T \in Tenders(Mine(l)) :
         base <= T.day /\ T.day < next => Remembers(l, T, last)

(* The books that are stored say what the next call must find.              *)
LEMMA KeptBookIs ==
  ASSUME connector = "germany", Register, NEW start \in Int, NEW last \in Int, NEW base \in Int,
         NEW ns, ns = {n \in notices : start <= n.day /\ n.day <= last},
         NEW b, NEW s \in Books, NEW u, NEW l \in Lot, NEW next \in Int, next <= last + 1,
         BookedAfter(b, s, l, ns, start, last), BookRead(s, l, last, base), KeptBook(s, u, l)
  PROVE  Bookkept(u, l, next, last, base)
<1> DEFINE e == Germany!Current(s, l)
           x == Germany!Current(u, l)
<1>1. \A n \in Mine(l) : /\ n \in notices /\ n.day \in Nat /\ n.at \in Nat
                         /\ n \in Earlier(next) => n \in Earlier(start) \cup ns
                         /\ n.day < next => n.day <= last
  BY Times DEF Mine, Earlier
<1>2. Tenders(Mine(l)) \in SUBSET Mine(l)
  BY DEF Tenders
<1>3. x # None => /\ e # None /\ x.at = e.at /\ x.day = e.day /\ x.deadline = e.deadline
                  /\ u.tracked[l] # None <=> s.tracked[l] # None
  BY DEF KeptBook
<1>4. e # None =>
        /\ \E m \in Mine(l) : /\ m.at = e.at /\ m.day = e.day /\ m.day <= last
                              /\ s.tracked[l] # None <=> m.kind # "close"
        /\ e.deadline = DeadlineOf(UpTo(l, e.at))
        /\ \A n \in Mine(l) : n \in Earlier(start) \cup ns => n.at <= e.at
  BY DEF BookedAfter, Booked
<1>5. ASSUME x = None, NEW T \in Tenders(Mine(l)), base <= T.day, T.day < next
      PROVE  Remembers(l, T, last)
  <2>1. T.day <= last /\ T \in Mine(l) /\ T.kind = "tender"
    BY <1>1, <1>2, <1>5 DEF Tenders
  <2>2. CASE e = None
    BY <1>5, <2>1, <2>2 DEF BookRead
  <2>3. CASE e # None
    <3>1. CASE \E U \in Tenders(Mine(l)) : U.at > T.at /\ U.day <= last
      BY <3>1 DEF Remembers
    <3>2. CASE T.deadline = e.deadline /\ T.at <= e.at
      <4>1. PICK m \in Mine(l) : /\ m.at = e.at /\ m.day = e.day
                                 /\ s.tracked[l] # None <=> m.kind # "close"
        BY <1>4, <2>3
      <4>2. CASE s.tracked[l] # None /\ Elapsed(e.deadline, today)
        BY <3>2, <4>2 DEF Remembers
      <4>3. CASE s.tracked[l] = None /\ e.day < today - 1 - Retention
        <5>1. m.kind = "close" /\ T # m
          BY <2>1, <4>1, <4>3
        <5>2. T.at < m.at
          BY <1>1, <2>1, <3>2, <4>1, <5>1, Times
        <5>3. m.at > T.at /\ m.day < today - 1 - Retention
          BY <1>1, <2>1, <4>1, <4>3, <5>2
        <5> QED
          BY <5>1, <5>3 DEF Remembers
      <4> QED
        BY <1>5, <2>3, <4>2, <4>3 DEF KeptBook
    <3> QED
      BY <1>5, <2>1, <2>3, <3>1, <3>2 DEF BookRead
  <2> QED
    BY <2>2, <2>3
<1>6. /\ u.tracked[l] # None => u.closed[l] = None /\ u.recent[l] = None
      /\ u.closed[l] # None => u.recent[l] = None
  BY DEF KeptBook
<1> HIDE DEF e, x
<1>7. x # None =>
        /\ \E m \in Mine(l) : /\ m.at = x.at /\ m.day = x.day /\ m.day <= last
                              /\ u.tracked[l] # None <=> m.kind # "close"
        /\ x.deadline = DeadlineOf(UpTo(l, x.at))
        /\ \A n \in Mine(l) : n \in Earlier(next) => n.at <= x.at
  BY <1>1, <1>3, <1>4
<1> QED
  BY <1>5, <1>6, <1>7 DEF x, Bookkept

(* What was known before a call, and what the call reads.                   *)
LEMMA GermanyBefore ==
  ASSUME connector = "germany", Register, TypeOK, Screen, GermanyKept,
         NEW target, target = today - 1,
         NEW start, start = Germany!StartDay(cursor, target),
         NEW last, last = Germany!LesserOf(target, start + Budget - 1),
         NEW ns, ns = Germany!Archives(notices, start, last),
         NEW b, b = IF cursor = None
                    THEN [tracked |-> Absent, closed |-> Absent, recent |-> Absent]
                    ELSE [tracked |-> cursor.tracked, closed |-> cursor.closed,
                          recent |-> cursor.recent],
         NEW base, base = IF cursor = None THEN start ELSE first
  PROVE  /\ start \in Int /\ last \in Int /\ base \in Int /\ last <= target
         /\ (IF cursor = None THEN last ELSE Germany!GreaterOf(cursor.through, last)) = last
         /\ ns = {n \in notices : start <= n.day /\ n.day <= last}
         /\ b \in Books
         /\ \A l \in Lot : Booked(b, l, Earlier(start), last)
         /\ \A l \in Lot : Germany!Current(b, l) = None =>
              \A T \in Tenders(Mine(l)) :
                base <= T.day /\ T.day < start => Remembers(l, T, last)
<1>1. /\ today \in Nat /\ Overlap \in Nat \ {0} /\ Lookback \in Nat \ {0} /\ Budget \in Nat
      /\ Undated # 0 /\ Budget > 2 * Overlap
  BY TodayIs, UnitsAre, NoneIs
<1>2. ns = {n \in notices : start <= n.day /\ n.day <= last}
  BY DEF Germany!Archives, Germany!Published
<1>3. ~Visible(None) /\ ~Pending(None)
  BY DEF Visible, Pending
<1>4. CASE cursor = None
  <2>1. start = target - Lookback + 1 /\ base = start
    BY <1>4 DEF Germany!StartDay
  <2>2. start \in Int /\ last \in Int /\ last <= target
    BY <1>1, <2>1 DEF Germany!LesserOf
  <2>3. b = [tracked |-> [l \in Lot |-> None], closed |-> [l \in Lot |-> None],
             recent |-> [l \in Lot |-> None]]
    BY <1>4 DEF Absent
  <2>4. /\ b \in Books
        /\ \A l \in Lot : /\ b.tracked[l] = None /\ b.closed[l] = None /\ b.recent[l] = None
    BY <2>3 DEF Books, Germany!Lots
  <2>5. \A l \in Lot : Germany!Current(b, l) = None
    BY <2>4 DEF Germany!Current
  <2>6. ASSUME NEW l \in Lot PROVE Booked(b, l, Earlier(start), last)
    <3>1. listed[l] # Undated
      BY <1>1, <1>4 DEF Screen
    <3> QED
      BY <1>3, <2>4, <2>5, <3>1 DEF Booked
  <2>7. ASSUME NEW l \in Lot, NEW T \in Tenders(Mine(l)), base <= T.day, T.day < start
        PROVE  FALSE
    <3>1. T.day \in Nat
      BY Times DEF Tenders, Mine
    <3> QED
      BY <2>1, <2>2, <2>7, <3>1
  <2> QED
    BY <1>2, <1>4, <2>1, <2>2, <2>4, <2>6, <2>7
<1>5. CASE cursor # None
  <2>1. cursor \in [through : Int, tracked : Germany!Lots, closed : Germany!Lots,
                    recent : Germany!Lots]
    BY <1>5 DEF TypeOK, Cursor, Germany!Cursor
  <2>2. start = cursor.through + 1 - Overlap /\ base = first
    BY <1>5 DEF Germany!StartDay
  <2>3. first # None /\ cursor.through <= target
    BY <1>5 DEF GermanyKept
  <2>4. base \in Int
    BY <2>2, <2>3 DEF TypeOK
  <2>5. /\ cursor.through \in Int /\ start \in Int /\ last \in Int /\ last <= target
        /\ cursor.through <= last
    BY <1>1, <2>1, <2>2, <2>3 DEF Germany!LesserOf
  <2>6. Germany!GreaterOf(cursor.through, last) = last
    BY <2>5 DEF Germany!GreaterOf
  <2>7. b = [tracked |-> cursor.tracked, closed |-> cursor.closed, recent |-> cursor.recent]
    BY <1>5
  <2>8. /\ b \in Books /\ b.tracked = cursor.tracked /\ b.closed = cursor.closed
        /\ b.recent = cursor.recent
    BY <2>1, <2>7 DEF Books
  <2>9. \A l \in Lot : Germany!Current(b, l) = Germany!Current(cursor, l)
    BY <2>8 DEF Germany!Current
  <2>10. ASSUME NEW l \in Lot PROVE Booked(b, l, Earlier(start), last)
    <3>1. Booked(cursor, l, Earlier(start), cursor.through)
      BY <1>5, <2>2 DEF GermanyKept
    <3>2. Booked(b, l, Earlier(start), cursor.through)
      BY <2>8, <2>9, <3>1 DEF Booked
    <3>3. \A m \in Mine(l) : m.day <= cursor.through => m.day <= last
      <4>1. \A m \in Mine(l) : m.day \in Nat
        BY Times DEF Mine
      <4> QED
        BY <2>5, <4>1
    <3> QED
      BY <3>2, <3>3 DEF Booked
  <2>11. ASSUME NEW l \in Lot, Germany!Current(b, l) = None, NEW T \in Tenders(Mine(l)),
                base <= T.day, T.day < start
         PROVE  Remembers(l, T, last)
    <3>1. Remembers(l, T, cursor.through)
      BY <1>5, <2>2, <2>9, <2>11 DEF GermanyKept
    <3>2. \A U \in Tenders(Mine(l)) : U.day <= cursor.through => U.day <= last
      <4>1. \A m \in Tenders(Mine(l)) : m.day \in Nat
        BY Times DEF Mine, Tenders
      <4> QED
        BY <2>5, <4>1
    <3> QED
      BY <3>1, <3>2 DEF Remembers
  <2> QED
    BY <1>2, <1>5, <2>4, <2>5, <2>6, <2>8, <2>10, <2>11
<1> QED
  BY <1>4, <1>5

(* Germany: the archives of the days from the cursor less the overlap, up   *)
(* to the day before (fetch_incremental, germany_doe.py:811-859).           *)
LEMMA GermanyPoll ==
  ASSUME connector = "germany", Register, TypeOK, Screen, GermanyKept, Poll
  PROVE  (TypeOK /\ Screen /\ GermanyKept /\ Complete /\ Sound)'
<1> DEFINE target == today - 1
           start == Germany!StartDay(cursor, target)
           last == Germany!LesserOf(target, start + Budget - 1)
           ns == Germany!Archives(notices, start, last)
           before == IF cursor = None
                     THEN [tracked |-> Absent, closed |-> Absent, recent |-> Absent]
                     ELSE [tracked |-> cursor.tracked, closed |-> cursor.closed,
                           recent |-> cursor.recent]
           s == Germany!Replay(Germany!ApplyEvent, Germany!Newest, before, ns)
           base == IF cursor = None THEN start ELSE first
           through == IF cursor = None THEN last ELSE Germany!GreaterOf(cursor.through, last)
           open(l) == s.tracked[l] # None /\ Future(s.tracked[l].deadline, today)
           kept == Germany!Survivors(s, today)
           told == Germany!Pruned(Germany!Remembered(s), target)
           left == Germany!Pruned(s.recent, target)
<1>1. PICK call : call = Call
  OBVIOUS
<1>2. Call = Germany!Fetch(cursor, notices, today)
  BY DEF Call
<1>3. /\ today \in Nat /\ today < Undated /\ Undated # 0 /\ Overlap \in Nat \ {0}
      /\ Budget \in Nat /\ Budget > 2 * Overlap
  BY TodayIs, UnitsAre, NoneIs
<1>4. /\ connector \notin Plain /\ ~Gap
      /\ connector \notin {"latvia", "us", "canada", "switzerland", "uk", "ecuador",
                           "southafrica", "colombia", "paraguay"}
      /\ Cursor = [through : Int, tracked : Germany!Lots, closed : Germany!Lots,
                   recent : Germany!Lots]
  BY GermanKinds DEF Cursor, Germany!Cursor
<1>5. /\ start \in Int /\ last \in Int /\ base \in Int /\ last <= target
      /\ through = last
      /\ ns = {n \in notices : start <= n.day /\ n.day <= last}
      /\ before \in Books
      /\ \A l \in Lot : Booked(before, l, Earlier(start), last)
      /\ \A l \in Lot : Germany!Current(before, l) = None =>
           \A T \in Tenders(Mine(l)) :
             base <= T.day /\ T.day < start => Remembers(l, T, last)
  <2>1. before = IF cursor = None
                 THEN [tracked |-> Absent, closed |-> Absent, recent |-> Absent]
                 ELSE [tracked |-> cursor.tracked, closed |-> cursor.closed,
                       recent |-> cursor.recent]
    OBVIOUS
  <2> HIDE DEF target, start, last, ns, before, base
  <2> QED
    BY <2>1, GermanyBefore DEF target, start, last, ns, base
<1>6. /\ last = target =>
           /\ call.cursor = [through |-> last, tracked |-> kept,
                             closed |-> [l \in Lot |-> None], recent |-> told]
           /\ call.seen = Germany!Observed(s, today)
           /\ call.done = TRUE /\ call.first = start
      /\ last # target =>
           /\ call.cursor = [through |-> last, tracked |-> s.tracked, closed |-> s.closed,
                             recent |-> left]
           /\ call.seen = Silent
           /\ call.done = FALSE /\ call.first = start
  <2>1. call = IF through >= target
               THEN Germany!Result([through |-> through, tracked |-> kept,
                                    closed |-> Germany!Absent, recent |-> told],
                                   Germany!Observed(s, today), TRUE, start)
               ELSE Germany!Result([through |-> through, tracked |-> s.tracked,
                                    closed |-> s.closed, recent |-> left],
                                   Germany!Silent, FALSE, start)
    BY <1>1, <1>2, Zenon DEF Germany!Fetch, Germany!Absent, Absent
  <2>2. through = last /\ target \in Int /\ (last >= target <=> last = target)
    BY <1>3, <1>5
  <2> HIDE DEF target, start, last, ns, before, s, kept, through, told, left
  <2> QED
    BY <2>1, <2>2 DEF Germany!Result, Germany!Silent, Silent, Germany!Absent
<1> HIDE DEF start, last, ns, before, base, through
<1>7. /\ s \in Books
      /\ \A l \in Lot : BookedAfter(before, s, l, ns, start, last)
  BY <1>5, BookedReplay
<1> HIDE DEF s, kept, told, left
<1>8. /\ cursor' = call.cursor /\ first' = base
      /\ connector' = connector /\ today' = today /\ notices' = notices
      /\ shown' = shown \cup {l \in Lot : listed'[l] > today}
  BY <1>1, <1>4, <1>6, PollParts DEF base
<1>9. \A l \in Lot : BookRead(s, l, last, base)
  BY <1>5, <1>7, BookReadIs
<1>10. ASSUME NEW l \in Lot
       PROVE  /\ kept[l] \in Germany!LotState \cup {None}
              /\ kept[l] # None <=> s.tracked[l] # None /\ ~Elapsed(s.tracked[l].deadline, today)
              /\ kept[l] # None => /\ kept[l].at = s.tracked[l].at /\ kept[l].day = s.tracked[l].day
                                   /\ kept[l].deadline = s.tracked[l].deadline
              /\ Visible(kept[l]) <=> open(l)
  BY <1>3, <1>7, BookSurvivor DEF kept
<1>11. ASSUME NEW l \in Lot
       PROVE  /\ s.tracked[l] # None => s.closed[l] = None /\ s.recent[l] = None
              /\ s.closed[l] # None => s.recent[l] = None
              /\ listed[l] = Undated => Visible(s.tracked[l]) \/ Pending(s.closed[l])
              /\ Visible(Germany!Current(s, l)) => l \in shown
              /\ s.tracked[l] # None => Germany!Current(s, l) = s.tracked[l]
              /\ s.tracked[l] = None /\ s.closed[l] # None =>
                   Germany!Current(s, l) = s.closed[l]
              /\ s.tracked[l] = None /\ s.closed[l] = None =>
                   Germany!Current(s, l) = s.recent[l]
  <2>1. BookedAfter(before, s, l, ns, start, last)
    BY <1>7
  <2>2. /\ s.tracked[l] # None => Germany!Current(s, l) = s.tracked[l]
        /\ s.tracked[l] = None /\ s.closed[l] # None => Germany!Current(s, l) = s.closed[l]
        /\ s.tracked[l] = None /\ s.closed[l] = None => Germany!Current(s, l) = s.recent[l]
    BY <1>7, CurrentIs
  <2> QED
    BY <2>1, <2>2 DEF BookedAfter, Booked
<1>12. ASSUME NEW l \in Lot
       PROVE  Visible(s.tracked[l]) \/ Visible(s.closed[l]) => l \in shown
  <2>1. /\ Visible(s.tracked[l]) => s.tracked[l] # None
        /\ Visible(s.closed[l]) => s.closed[l] # None
    BY DEF Visible
  <2> QED
    BY <1>11, <2>1
<1>13. ASSUME last = target, NEW l \in Lot
       PROVE  /\ listed'[l] = Undated <=> open(l)
              /\ call.seen[l] = "closed" => l \in shown
  <2>1. call.seen[l] = IF open(l) THEN "open"
                       ELSE IF Visible(s.tracked[l]) \/ Pending(s.closed[l]) THEN "closed"
                       ELSE "none"
    BY <1>6, <1>13 DEF Germany!Observed, Germany!Observation, Germany!Visible, Visible,
       Germany!Future, Future, Pending
  <2>2. /\ call.seen[l] = "open" => listed'[l] = Undated
        /\ call.seen[l] = "closed" => listed'[l] = 0
        /\ call.seen[l] \notin {"open", "closed"} => listed'[l] = listed[l]
    BY <1>1, <1>4, ShowsIs
  <2>3. Pending(s.closed[l]) => Visible(s.closed[l])
    BY DEF Pending
  <2> HIDE DEF open
  <2> QED
    BY <1>3, <1>11, <1>12, <2>1, <2>2, <2>3
<1>14. /\ told \in Germany!Lots /\ left \in Germany!Lots
       /\ \A l \in Lot :
            /\ \/ told[l] = Germany!Remembered(s)[l]
               \/ /\ told[l] = None /\ Germany!Remembered(s)[l] # None
                  /\ Germany!Remembered(s)[l].day < target - Retention
            /\ \/ left[l] = s.recent[l]
               \/ left[l] = None /\ s.recent[l] # None /\ s.recent[l].day < target - Retention
            /\ s.closed[l] = None => Germany!Remembered(s)[l] = s.recent[l]
            /\ s.closed[l] # None =>
                 /\ Germany!Remembered(s)[l] # None
                 /\ Germany!Remembered(s)[l].at = s.closed[l].at
                 /\ Germany!Remembered(s)[l].day = s.closed[l].day
                 /\ Germany!Remembered(s)[l].deadline = s.closed[l].deadline
                 /\ Visible(Germany!Remembered(s)[l]) <=> Visible(s.closed[l])
  <2>1. /\ s.recent \in Germany!Lots /\ target \in Int
    BY <1>3, <1>7 DEF Books
  <2>2. \A l \in Lot : Germany!Remembered(s) \in Germany!Lots
    BY <1>7, RememberedIs
  <2>3. Germany!Remembered(s) \in Germany!Lots
    <3>1. CASE Lot = {}
      BY <3>1 DEF Germany!Remembered, Germany!Lots
    <3>2. CASE Lot # {}
      BY <2>2, <3>2
    <3> QED
      BY <3>1, <3>2
  <2>4. told \in Germany!Lots /\ left \in Germany!Lots
    <3>1. told = [l \in Lot |-> told[l]] /\ left = [l \in Lot |-> left[l]]
      BY DEF told, left, Germany!Pruned
    <3>2. \A l \in Lot : told[l] \in Germany!LotState \cup {None} /\ left[l] \in Germany!LotState \cup {None}
      BY <2>1, <2>3 DEF told, left, Germany!Pruned, Germany!Lots
    <3> QED
      BY <3>1, <3>2 DEF Germany!Lots
  <2> HIDE DEF target
  <2> QED
    BY <1>7, <2>1, <2>3, <2>4, PrunedIs, RememberedIs DEF told, left
<1>15. ASSUME NEW l \in Lot PROVE KeptBook(s, cursor', l)
  <2> DEFINE e == Germany!Current(s, l)
             x == Germany!Current(cursor', l)
  <2>1. x = IF cursor'.tracked[l] # None THEN cursor'.tracked[l]
            ELSE IF cursor'.closed[l] # None THEN cursor'.closed[l] ELSE cursor'.recent[l]
    BY DEF Germany!Current
  <2> HIDE DEF e, x, open
  <2>2. CASE last = target
    <3>1. cursor'.tracked[l] = kept[l] /\ cursor'.closed[l] = None /\ cursor'.recent[l] = told[l]
      BY <1>6, <1>8, <2>2
    <3>2. CASE s.tracked[l] # None
      <4>1. e = s.tracked[l] /\ told[l] = None
        BY <1>11, <1>14, <3>2 DEF e
      <4> QED
        BY <1>10, <2>1, <3>1, <3>2, <4>1 DEF KeptBook, e, x
    <3>3. CASE s.tracked[l] = None
      <4>1. kept[l] = None /\ x = told[l]
        BY <1>10, <2>1, <3>1, <3>3
      <4>2. CASE s.closed[l] # None
        BY <1>11, <1>14, <3>1, <3>3, <4>1, <4>2 DEF KeptBook, e, x
      <4>3. CASE s.closed[l] = None
        BY <1>11, <1>14, <3>1, <3>3, <4>1, <4>3 DEF KeptBook, e, x
      <4> QED
        BY <4>2, <4>3
    <3> QED
      BY <3>2, <3>3
  <2>3. CASE last # target
    <3>1. cursor'.tracked = s.tracked /\ cursor'.closed = s.closed /\ cursor'.recent[l] = left[l]
      BY <1>6, <1>8, <2>3
    <3> QED
      BY <1>11, <1>14, <2>1, <3>1 DEF KeptBook, e, x
  <2> QED
    BY <2>2, <2>3
<1>16. TypeOK' /\ Screen'
  <2>1. kept \in Germany!Lots
    <3>1. kept = [l \in Lot |-> kept[l]]
      BY DEF kept, Germany!Survivors
    <3> QED
      BY <1>10, <3>1 DEF Germany!Lots
  <2>2. call.cursor \in Cursor
    <3>1. CASE last = target
      <4>1. [l \in Lot |-> None] \in Germany!Lots
        BY DEF Germany!Lots
      <4> QED
        BY <1>4, <1>5, <1>6, <1>14, <2>1, <3>1, <4>1
    <3>2. CASE last # target
      BY <1>4, <1>5, <1>6, <1>7, <1>14, <3>2 DEF Books
    <3> QED
      BY <3>1, <3>2
  <2>3. call.cursor # None
    BY <2>2, NoneAssumption DEF Cursor
  <2>4. call.done \in BOOLEAN /\ call.first \in Int
    BY <1>5, <1>6
  <2> QED
    BY <1>1, <1>4, <2>2, <2>3, <2>4, PollType
<1>17. ASSUME NEW l \in Lot
       PROVE  /\ listed'[l] = Undated =>
                   Visible(cursor'.tracked[l]) \/ Pending(cursor'.closed[l])
              /\ Visible(Germany!Current(cursor', l)) => l \in shown'
  <2> DEFINE x == Germany!Current(cursor', l)
  <2>1. x = IF cursor'.tracked[l] # None THEN cursor'.tracked[l]
            ELSE IF cursor'.closed[l] # None THEN cursor'.closed[l] ELSE cursor'.recent[l]
    BY DEF Germany!Current
  <2> HIDE DEF x, open
  <2>2. ~Visible(None) /\ shown \subseteq shown'
    BY <1>8 DEF Visible
  <2>3. Visible(s.recent[l]) /\ s.tracked[l] = None /\ s.closed[l] = None => l \in shown
    BY <1>11
  <2>4. CASE last = target
    <3>1. cursor'.tracked[l] = kept[l] /\ cursor'.closed[l] = None /\ cursor'.recent[l] = told[l]
      BY <1>6, <1>8, <2>4
    <3>2. open(l) => l \in shown'
      BY <1>3, <1>8, <1>13, <2>4
    <3>3. Visible(told[l]) => l \in shown
      BY <1>11, <1>12, <1>14, <2>2, <2>3
    <3> QED
      BY <1>10, <1>13, <2>1, <2>2, <2>4, <3>1, <3>2, <3>3 DEF x
  <2>5. CASE last # target
    <3>1. cursor'.tracked = s.tracked /\ cursor'.closed = s.closed /\ cursor'.recent[l] = left[l]
      BY <1>6, <1>8, <2>5
    <3>2. listed'[l] = listed[l]
      <4>1. call.seen[l] = "none"
        BY <1>6, <2>5 DEF Silent
      <4> QED
        BY <1>1, <1>4, <4>1, ShowsIs
    <3> QED
      BY <1>11, <1>12, <1>14, <2>1, <2>2, <2>3, <3>1, <3>2 DEF x
  <2> QED
    BY <2>4, <2>5
<1>18. GermanyKept'
  <2>1. cursor'.through = last
    BY <1>6, <1>8
  <2>2. first' # None
    BY <1>5, <1>8, NoneIs
  <2>3. /\ \A l : Mine(l)' = Mine(l)
        /\ \A l : Tenders(Mine(l))' = Tenders(Mine(l))
        /\ \A l, at : UpTo(l, at)' = UpTo(l, at)
        /\ \A d : Earlier(d)' = Earlier(d)
        /\ \A ns1 : DeadlineOf(ns1)' = DeadlineOf(ns1)
    BY <1>8 DEF Mine, Tenders, UpTo, Earlier, DeadlineOf, Dated, Newest
  <2>4. PICK through1 \in Int : through1 = last
    BY <1>5
  <2>5. PICK next \in Int : next = through1 + 1 - Overlap
    BY <1>3
  <2>6. next <= last + 1 /\ through1 = cursor'.through
    BY <1>3, <2>1, <2>4, <2>5
  <2>7. ASSUME NEW l \in Lot
        PROVE  /\ Booked(cursor, l, Earlier(cursor.through + 1 - Overlap), cursor.through)'
               /\ (Germany!Current(cursor, l) = None =>
                     \A T \in Tenders(Mine(l)) :
                       first <= T.day /\ T.day < cursor.through + 1 - Overlap =>
                         Remembers(l, T, cursor.through))'
    <3> DEFINE u == cursor'
               x == Germany!Current(u, l)
    <3>1. /\ u.tracked[l] # None => u.closed[l] = None /\ u.recent[l] = None
          /\ u.closed[l] # None => u.recent[l] = None
          /\ x # None =>
               /\ \E m \in Mine(l) : /\ m.at = x.at /\ m.day = x.day /\ m.day <= through1
                                     /\ u.tracked[l] # None <=> m.kind # "close"
               /\ x.deadline = DeadlineOf(UpTo(l, x.at))
               /\ \A n \in Mine(l) : n \in Earlier(next) => n.at <= x.at
          /\ x = None =>
               \A T \in Tenders(Mine(l)) :
                 base <= T.day /\ T.day < next => Remembers(l, T, through1)
      <4>1. /\ BookedAfter(before, s, l, ns, start, last) /\ BookRead(s, l, last, base)
            /\ KeptBook(s, cursor', l) /\ s \in Books
        BY <1>7, <1>9, <1>15
      <4>2. PICK v : v = cursor'
        OBVIOUS
      <4>3. KeptBook(s, v, l)
        BY <4>1, <4>2
      <4> HIDE DEF x
      <4>4. Bookkept(v, l, next, last, base)
        <5>1. /\ start \in Int /\ last \in Int /\ base \in Int /\ next <= last + 1
              /\ ns = {n \in notices : start <= n.day /\ n.day <= last}
          BY <1>5, <2>6
        <5> QED
          BY <4>1, <4>3, <5>1, KeptBookIs, Zenon
      <4> QED
        BY <2>4, <4>2, <4>4 DEF x, Bookkept
    <3>2. \A T \in Tenders(Mine(l)) :
            Remembers(l, T, cursor.through)' <=> Remembers(l, T, through1)
      BY <1>8, <2>3, <2>6 DEF Remembers, Elapsed
    <3>3. /\ listed'[l] = Undated => Visible(u.tracked[l]) \/ Pending(u.closed[l])
          /\ Visible(x) => l \in shown'
      BY <1>17
    <3>4. x = Germany!Current(cursor, l)'
      BY DEF Germany!Current
    <3>5. next = cursor'.through + 1 - Overlap
      BY <2>5, <2>6
    <3> HIDE DEF x
    <3>6. Booked(cursor, l, Earlier(cursor.through + 1 - Overlap), cursor.through)'
      BY <2>3, <2>6, <3>1, <3>3, <3>4, <3>5 DEF Booked
    <3>7. (Germany!Current(cursor, l) = None =>
             \A T \in Tenders(Mine(l)) :
               first <= T.day /\ T.day < cursor.through + 1 - Overlap =>
                 Remembers(l, T, cursor.through))'
      BY <1>8, <2>3, <3>1, <3>2, <3>4, <3>5
    <3> QED
      BY <3>6, <3>7
  <2> QED
    BY <1>3, <1>5, <1>8, <2>1, <2>2, <2>7 DEF GermanyKept
<1>19. Complete'
  <2>1. ASSUME NEW l \in Lot, call.done,
               \A ns1 \in Views(l) : OpenBy(ns1) /\ Newest(Tenders(ns1)).day >= first',
               ~Forgotten(l)'
        PROVE  listed'[l] > today
    <3> DEFINE V == Of(l, last)
               T == Newest(Tenders(V))
               e == Germany!Current(s, l)
    <3>1. last = target
      BY <1>6, <2>1
    <3>2. OpenBy(V) /\ T.day >= base
      <4>1. Views(l) = {V}
        BY <1>4, <3>1 DEF Views
      <4> QED
        BY <1>8, <2>1, <4>1
    <3>3. /\ V \in SUBSET notices /\ V = {n \in Mine(l) : n.day <= last}
          /\ \A n \in Mine(l) : /\ n \in notices /\ n.day \in Nat /\ n.at \in Nat
                                /\ n.kind \in {"tender", "close", "reopen"}
      BY Times, GermanKinds DEF Of, Mine
    <3>4. Dated(V) = Tenders(V) /\ Tenders(V) \in SUBSET notices
      BY <3>3 DEF Dated, Tenders
    <3>5. /\ V # {} /\ Newest(V).kind # "close" /\ Tenders(V) # {}
          /\ Future(T.deadline, today) /\ DeadlineOf(V) = T.deadline
      BY <3>2, <3>4 DEF OpenBy, DeadlineOf
    <3>6. T \in Tenders(V) /\ \A U \in Tenders(V) : U.at <= T.at
      BY <3>4, <3>5, NewestOf
    <3>7. /\ T \in Tenders(Mine(l)) /\ T.day <= last /\ base <= T.day /\ T.at \in Nat
          /\ T.deadline \in Int \cup {None}
      <4>1. T \in V /\ T.kind = "tender" /\ T \in notices
        BY <3>3, <3>6 DEF Tenders
      <4> QED
        BY <1>5, <3>2, <3>3, <4>1, Times DEF Tenders
    <3>8. /\ e # None => /\ e.deadline = DeadlineOf(V)
                         /\ s.tracked[l] # None <=> Newest(V).kind # "close"
          /\ e = None => Remembers(l, T, last)
      BY <1>9, <3>7 DEF BookRead
    <3> HIDE DEF V, T, e
    <3>9. CASE e # None
      <4>1. s.tracked[l] # None /\ s.tracked[l].deadline = T.deadline
        BY <1>11, <3>5, <3>8, <3>9 DEF e
      <4>2. open(l)
        BY <3>5, <4>1
      <4> HIDE DEF open
      <4> QED
        BY <1>3, <1>13, <3>1, <4>2
    <3>10. CASE e = None
      <4>1. ~ \E U \in Tenders(Mine(l)) : U.at > T.at /\ U.day <= last
        <5>1. \A U \in Tenders(Mine(l)) : U.day <= last => U \in Tenders(V) /\ U.at \in Nat
          BY <3>3 DEF Tenders
        <5> QED
          BY <3>6, <3>7, <5>1
      <4>2. ~Elapsed(T.deadline, today)
        BY <1>3, <3>5, <3>7 DEF Elapsed, Future
      <4>3. PICK c \in Mine(l) : /\ c.kind = "close" /\ c.at > T.at
                                 /\ c.day < today - 1 - Retention
        BY <3>8, <3>10, <4>1, <4>2 DEF Remembers
      <4>4. Retention \in Nat
        BY ConnectorsAssumption
      <4>5. c \in V
        BY <1>3, <3>1, <3>3, <4>3, <4>4
      <4>6. /\ Newest(V) \in V /\ c.at <= Newest(V).at
            /\ \A U \in Tenders(V) : U.at <= T.at /\ U.at \in Nat
        BY <3>3, <3>5, <3>6, <4>5, NewestOf DEF Tenders
      <4>7. /\ Newest(V) \in Mine(l) /\ Newest(V) # T /\ Newest(V).kind = "reopen"
            /\ Newest(V) # c
        <5>1. Newest(V) \in Mine(l)
          BY <3>3, <4>6
        <5>2. Newest(V).kind # "tender"
          <6>1. Newest(V).kind = "tender" => Newest(V) \in Tenders(V)
            BY <4>6 DEF Tenders
          <6> QED
            BY <3>3, <3>7, <4>3, <4>6, <5>1, <6>1
        <5>3. T.kind = "tender"
          BY <3>7 DEF Tenders
        <5> QED
          BY <3>3, <3>5, <4>3, <5>1, <5>2, <5>3
      <4>8. Newest(V).at > c.at
        <5>1. Newest(V).at # c.at
          BY <3>3, <4>3, <4>7, Times
        <5> QED
          BY <3>3, <4>3, <4>6, <4>7, <5>1
      <4>9. cursor'.tracked[l] = None
        <5>1. s.tracked[l] = None
          BY <1>11, <3>10 DEF e
        <5> QED
          BY <1>6, <1>8, <1>10, <3>1, <5>1
      <4>10. Of(l, today - 1)' = V
        BY <1>8, <3>1 DEF Of, V
      <4>11. \A t \in V : t.kind = "tender" => t.at < c.at
        <5>1. \A t \in V : t.kind = "tender" => t \in Tenders(V)
          BY DEF Tenders
        <5> QED
          BY <3>3, <3>7, <4>3, <4>6, <5>1
      <4>12. Forgotten(l)'
        BY <1>4, <1>8, <4>3, <4>5, <4>6, <4>7, <4>8, <4>9, <4>10, <4>11 DEF Forgotten
      <4> QED
        BY <2>1, <4>12
    <3> QED
      BY <3>9, <3>10
  <2> QED
    BY <1>1, <2>1, CompleteAfter
<1>20. Sound'
  <2>1. ASSUME NEW l \in Lot, call.done, listed'[l] > today PROVE Remains(l)
    <3> DEFINE V == Of(l, last)
    <3>1. last = target
      BY <1>6, <2>1
    <3>2. listed'[l] = Undated
      BY <1>1, <1>4, <2>1, ShowsIs
    <3>3. s.tracked[l] # None /\ Future(s.tracked[l].deadline, today)
      BY <1>13, <3>1, <3>2
    <3>4. /\ V # {} /\ s.tracked[l].deadline = DeadlineOf(V) /\ Newest(V).kind # "close"
      BY <1>9, <1>11, <3>3 DEF BookRead
    <3>5. /\ V \in SUBSET notices /\ V = {n \in Mine(l) : n.day <= last}
          /\ \A n \in Mine(l) : /\ n \in notices /\ n.day \in Nat /\ n.at \in Nat
                                /\ n.lot = l /\ n.kind \in {"tender", "close", "reopen"}
      BY Times, GermanKinds DEF Of, Mine
    <3>6. Newest(V) \in V
      BY <3>4, <3>5, NewestOf
    <3>7. Dated(V) # {}
      <4> DEFINE m == Newest(V)
      <4>1. CASE m.kind = "tender"
        BY <3>6, <4>1 DEF Dated
      <4>2. CASE m.kind # "tender"
        <5>1. m \in Mine(l) /\ m \in notices /\ m.kind = "reopen" /\ m.lot = l /\ m.day <= last
          BY <3>4, <3>5, <3>6, <4>2
        <5>2. PICK t \in notices : t.lot = m.lot /\ t.kind = "tender" /\ t.at < m.at
          BY <5>1 DEF Register
        <5>3. t \in Mine(l) /\ m \in Mine(l)
          BY <5>1, <5>2 DEF Mine
        <5>4. t.day <= m.day
          BY <3>5, <5>2, <5>3, Times
        <5>5. t.day <= last
          BY <1>5, <3>5, <5>1, <5>3, <5>4
        <5>6. t \in V
          BY <3>5, <5>3, <5>5
        <5> QED
          BY <5>2, <5>6 DEF Dated
      <4> QED
        BY <4>1, <4>2
    <3>8. OpenBy(V)
      BY <1>4, <3>3, <3>4, <3>5, <3>6, <3>7 DEF OpenBy
    <3> QED
      BY <1>4, <3>1, <3>8 DEF Remains, Views
  <2>2. \A l \in Lot : call.seen[l] = "closed" => l \in shown
    BY <1>6, <1>13 DEF Silent
  <2>3. Withdrawn(call) \subseteq shown
    BY <2>2, WithdrawnIs
  <2> QED
    BY <1>1, <2>1, <2>3, SoundAfter
<1> QED
  BY <1>16, <1>18, <1>19, <1>20

(* A notice after a call is in an archive the next call reads.              *)
LEMMA GermanyRest ==
  ASSUME connector = "germany", Register, TypeOK, GermanyKept
  PROVE  /\ \A l \in Lot : \A n : New(n, l) => GermanyKept'
         /\ NextDay => GermanyKept'
<1> DEFINE next == cursor.through + 1 - Overlap
<1>1. cursor # None => next \in Int /\ next <= cursor.through /\ cursor.through \in Int
                       /\ cursor.through <= today - 1 /\ first \in Int
  <2>1. cursor # None => cursor \in Germany!Cursor
    BY DEF TypeOK, Cursor
  <2> QED
    BY <2>1, UnitsAre, TodayIs DEF Germany!Cursor, GermanyKept, TypeOK
<1>2. Retention \in Nat /\ today \in Nat
  BY TodayIs, ConnectorsAssumption
<1>3. \A k \in Lot : \A m \in Mine(k) : /\ m \in notices /\ m.day \in Nat /\ m.at \in Nat
                                        /\ m.deadline \in Int \cup {None}
  BY Times DEF Mine
<1>4. ASSUME NEW l \in Lot, NEW n, New(n, l) PROVE GermanyKept'
  <2> SUFFICES ASSUME cursor # None PROVE GermanyKept'
    BY <1>4, NewMine DEF GermanyKept
  <2>1. /\ n.lot = l /\ n.day \in Nat /\ n.at \in Nat /\ n.day >= today - 1 /\ n \notin notices
        /\ notices' = notices \cup {n} /\ Mine(l)' = Mine(l) \cup {n}
        /\ \A k \in Lot : k # l => Mine(k)' = Mine(k)
        /\ connector' = connector /\ today' = today /\ cursor' = cursor /\ first' = first
        /\ listed' = listed /\ shown' = shown
    BY <1>4, NewMine
  <2>2. ~(n.day < next) /\ ~(n.day < cursor.through)
    BY <1>1, <1>2, <2>1
  <2>3. \A o \in notices : o.day <= n.day => o.at < n.at
    BY <1>4, NewTimes
  <2>4. ASSUME NEW k \in Lot
        PROVE  /\ Booked(cursor, k, Earlier(cursor.through + 1 - Overlap), cursor.through)'
               /\ (Germany!Current(cursor, k) = None =>
                     \A T \in Tenders(Mine(k)) :
                       first <= T.day /\ T.day < cursor.through + 1 - Overlap =>
                         Remembers(k, T, cursor.through))'
    <3> DEFINE e == Germany!Current(cursor, k)
    <3>1. e' = e
      BY <2>1 DEF Germany!Current
    <3>2. /\ Booked(cursor, k, Earlier(next), cursor.through)
          /\ e = None => \A T \in Tenders(Mine(k)) :
               first <= T.day /\ T.day < next => Remembers(k, T, cursor.through)
      BY DEF GermanyKept
    <3>3. /\ Mine(k) \subseteq Mine(k)' /\ Tenders(Mine(k)) \subseteq Tenders(Mine(k))'
          /\ \A m \in Mine(k)' : m.day < next => m \in Mine(k)
          /\ \A m \in Tenders(Mine(k))' : m.day < next => m \in Tenders(Mine(k))
      BY <2>1, <2>2 DEF Tenders
    <3>4. ASSUME NEW m \in Mine(k), m.day <= cursor.through
          PROVE  UpTo(k, m.at)' = UpTo(k, m.at)
      <4>1. CASE k # l
        BY <2>1, <4>1 DEF UpTo
      <4>2. CASE k = l
        <5>1. m.at < n.at
          BY <1>1, <1>3, <2>1, <2>2, <2>3, <3>4
        <5>2. ~(n.at <= m.at)
          BY <1>3, <2>1, <5>1
        <5> QED
          BY <2>1, <4>2, <5>2 DEF UpTo
      <4> QED
        BY <4>1, <4>2
    <3>5. \A ns : DeadlineOf(ns)' = DeadlineOf(ns)
      BY DEF DeadlineOf, Dated, Newest
    <3> HIDE DEF e
    <3>6. Booked(cursor, k, Earlier(cursor.through + 1 - Overlap), cursor.through)'
      <4>1. e # None =>
              /\ \E m \in Mine(k)' : /\ m.at = e.at /\ m.day = e.day /\ m.day <= cursor.through
                                     /\ cursor.tracked[k] # None <=> m.kind # "close"
              /\ e.deadline = DeadlineOf(UpTo(k, e.at))'
              /\ \A m \in Mine(k)' : m \in Earlier(cursor.through + 1 - Overlap)' => m.at <= e.at
        <5> SUFFICES ASSUME e # None
                     PROVE  /\ \E m \in Mine(k)' :
                                 /\ m.at = e.at /\ m.day = e.day /\ m.day <= cursor.through
                                 /\ cursor.tracked[k] # None <=> m.kind # "close"
                            /\ e.deadline = DeadlineOf(UpTo(k, e.at))'
                            /\ \A m \in Mine(k)' :
                                 m \in Earlier(cursor.through + 1 - Overlap)' => m.at <= e.at
          OBVIOUS
        <5>1. PICK m \in Mine(k) : /\ m.at = e.at /\ m.day = e.day /\ m.day <= cursor.through
                                   /\ cursor.tracked[k] # None <=> m.kind # "close"
          BY <3>2 DEF Booked, e
        <5>2. e.deadline = DeadlineOf(UpTo(k, m.at))
          BY <3>2, <5>1 DEF Booked, e
        <5>3. DeadlineOf(UpTo(k, m.at))' = DeadlineOf(UpTo(k, m.at))
          <6>1. UpTo(k, m.at)' = UpTo(k, m.at)
            BY <3>4, <5>1
          <6> QED
            BY <6>1 DEF DeadlineOf, Dated, Newest
        <5>4. DeadlineOf(UpTo(k, e.at))' = DeadlineOf(UpTo(k, m.at))'
          <6>1. UpTo(k, e.at)' = UpTo(k, m.at)'
            BY <3>1, <5>1 DEF UpTo
          <6> QED
            BY <6>1 DEF DeadlineOf, Dated, Newest
        <5>5. \A o \in Mine(k) : o.day < next => o.at <= e.at
          BY <1>3, <3>2 DEF Booked, Earlier, e
        <5>6. \A o \in Mine(k)' : o \in Earlier(cursor.through + 1 - Overlap)' => o.day < next
          BY <2>1 DEF Earlier
        <5> QED
          BY <3>3, <5>1, <5>2, <5>3, <5>4, <5>5, <5>6
      <4>2. /\ cursor.tracked[k] # None => cursor.closed[k] = None /\ cursor.recent[k] = None
            /\ cursor.closed[k] # None => cursor.recent[k] = None
            /\ listed[k] = Undated => Visible(cursor.tracked[k]) \/ Pending(cursor.closed[k])
            /\ Visible(e) => k \in shown
        BY <3>2 DEF Booked, e
      <4>3. e = Germany!Current(cursor, k) /\ e' = Germany!Current(cursor, k)'
        BY DEF e
      <4> QED
        BY <2>1, <3>1, <4>1, <4>2, <4>3 DEF Booked
    <3>7. ASSUME NEW T \in Tenders(Mine(k)), Remembers(k, T, cursor.through)
          PROVE  Remembers(k, T, cursor.through)'
      BY <2>1, <3>3, <3>7 DEF Remembers, Elapsed
    <3>8. (Germany!Current(cursor, k) = None =>
             \A T \in Tenders(Mine(k)) :
               first <= T.day /\ T.day < cursor.through + 1 - Overlap =>
                 Remembers(k, T, cursor.through))'
      BY <2>1, <3>1, <3>2, <3>3, <3>7 DEF e
    <3> QED
      BY <3>6, <3>8
  <2> QED
    BY <2>1, <2>4 DEF GermanyKept
<1>5. ASSUME NextDay PROVE GermanyKept'
  <2> SUFFICES ASSUME cursor # None PROVE GermanyKept'
    BY <1>5, NextDayIs DEF GermanyKept
  <2>1. /\ today' = today + 1 /\ connector' = connector /\ notices' = notices
        /\ cursor' = cursor /\ first' = first /\ listed' = listed /\ shown' = shown
        /\ \A l : Mine(l)' = Mine(l)
    BY <1>5, NextDayIs
  <2>2. /\ \A l : Tenders(Mine(l))' = Tenders(Mine(l))
        /\ \A ns : DeadlineOf(ns)' = DeadlineOf(ns)
        /\ \A l, at : UpTo(l, at)' = UpTo(l, at)
        /\ \A d : Earlier(d)' = Earlier(d)
        /\ \A l : Germany!Current(cursor, l)' = Germany!Current(cursor, l)
    BY <2>1 DEF Dated, DeadlineOf, Newest, Tenders, UpTo, Earlier, Germany!Current
  <2>3. cursor.through <= today' - 1
    BY <1>1, <1>2, <2>1
  <2>4. ASSUME NEW l \in Lot, NEW T \in Tenders(Mine(l)), Remembers(l, T, cursor.through)
        PROVE  Remembers(l, T, cursor.through)'
    <3>1. T.deadline \in Int \cup {None}
      BY <1>3 DEF Tenders
    <3>2. Elapsed(T.deadline, today) => Elapsed(T.deadline, today')
      BY <1>2, <2>1, <3>1 DEF Elapsed
    <3>3. \A c \in Mine(l) : c.day < today - 1 - Retention => c.day < today' - 1 - Retention
      BY <1>2, <1>3, <2>1
    <3>4. Elapsed(T.deadline, today)' <=> Elapsed(T.deadline, today')
      BY DEF Elapsed
    <3> QED
      BY <2>1, <2>2, <2>4, <3>2, <3>3, <3>4 DEF Remembers
  <2>5. ASSUME NEW l \in Lot
        PROVE  /\ Booked(cursor, l, Earlier(cursor.through + 1 - Overlap), cursor.through)'
               /\ (Germany!Current(cursor, l) = None =>
                     \A T \in Tenders(Mine(l)) :
                       first <= T.day /\ T.day < cursor.through + 1 - Overlap =>
                         Remembers(l, T, cursor.through))'
    <3>1. /\ Booked(cursor, l, Earlier(cursor.through + 1 - Overlap), cursor.through)
          /\ Germany!Current(cursor, l) = None =>
               \A T \in Tenders(Mine(l)) :
                 first <= T.day /\ T.day < cursor.through + 1 - Overlap =>
                   Remembers(l, T, cursor.through)
      BY DEF GermanyKept
    <3>2. Booked(cursor, l, Earlier(cursor.through + 1 - Overlap), cursor.through)'
      BY <2>1, <2>2, <3>1 DEF Booked
    <3> QED
      BY <2>1, <2>2, <2>4, <3>1, <3>2
  <2> QED
    BY <2>1, <2>3, <2>5 DEF GermanyKept
<1> QED
  BY <1>4, <1>5

-----------------------------------------------------------------------------
(* Uruguay: the newest releases, or those of a month, after the cursor; what *)
(* is not beyond the cursor was read since the first releases were.         *)
Reached(c) ==
  /\ c.month <= today /\ (c.ended => c.month < today)
  /\ \E m \in notices : m.at = c.through /\ m.day <= c.month
  /\ ~c.ended => \A n \in notices : n.at > c.through => n.day >= c.month

UruguayKept ==
  cursor # None =>
    /\ first # None /\ Reached(cursor)
    /\ \A l \in Lot :
         /\ Mine(l) # {} /\ Newest(Mine(l)).kind # "close" /\ Newest(Mine(l)).day >= first
         /\ Newest(Mine(l)) \notin Uruguay!Beyond(notices, cursor)
         /\ Future(DeadlineOf(Mine(l)), today)
         => listed[l] = DeadlineOf(Mine(l))

Stated == \A l \in Lot : connector = "uruguay" /\ listed[l] # 0 => Mine(l) # {}

(* What ARCE publishes; a call raises on an empty feed.                     *)
LEMMA UruguayIs ==
  ASSUME connector = "uruguay"
  PROVE  /\ Call = Uruguay!Fetch(cursor, notices, today) /\ Cursor = Uruguay!Cursor
         /\ connector \in Plain /\ ~Gap /\ connector \notin Late
         /\ Kinds = {"tender", "close", "correct"}
         /\ \A l : Remains(l) <=> Of(l, today) # {}
         /\ Raises <=> notices = {}
BY DEF Call, Cursor, Plain, Gap, Late, Kinds, Uruguay!Kinds, Remains, Raises, Uruguay!Raises

(* A call takes the oldest of the releases eligible.                        *)
LEMMA BatchIs ==
  ASSUME Register, NEW es \in SUBSET notices
  PROVE  /\ Uruguay!Batch(es) \subseteq es
         /\ es # {} => Uruguay!Batch(es) # {}
         /\ \A b \in Uruguay!Batch(es) : \A n \in es : n.at <= b.at => n \in Uruguay!Batch(es)
<1> DEFINE Less(n) == {m \in es : m.at < n.at}
<1>1. Events \in Nat \ {0} /\ IsFiniteSet(es)
  BY ConnectorsAssumption, FS_Subset DEF Register
<1>2. \A n \in notices : n.at \in Nat
  BY Times
<1>3. \A n : IsFiniteSet(Less(n)) /\ Cardinality(Less(n)) \in Nat
  BY <1>1, FS_Subset, FS_CardinalityType
<1>4. Uruguay!Batch(es) = {n \in es : Cardinality(Less(n)) < Events}
  BY DEF Uruguay!Batch, Uruguay!Cardinality, Cardinality, Uruguay!IsFiniteSet, IsFiniteSet
<1>5. ASSUME NEW b \in Uruguay!Batch(es), NEW n \in es, n.at <= b.at
      PROVE  n \in Uruguay!Batch(es)
  <2>1. b \in es /\ Cardinality(Less(b)) < Events
    BY <1>4
  <2>2. Less(n) \subseteq Less(b)
    BY <1>2, <1>5, <2>1
  <2>3. Cardinality(Less(n)) <= Cardinality(Less(b))
    BY <1>3, <2>2, FS_Subset
  <2>4. Cardinality(Less(n)) < Events
    <3> HIDE DEF Less
    <3> QED
      BY <1>1, <1>3, <2>1, <2>3
  <2> QED
    BY <1>4, <1>5, <2>4
<1>6. ASSUME es # {} PROVE Uruguay!Batch(es) # {}
  <2>1. Oldest(es) \in es /\ \A o \in es : Oldest(es).at <= o.at
    BY <1>6, OldestOf
  <2>2. Less(Oldest(es)) = {}
    BY <1>2, <2>1
  <2>3. Cardinality(Less(Oldest(es))) < Events
    BY <1>1, <2>2, FS_EmptySet
  <2> QED
    BY <1>4, <2>1, <2>3
<1> HIDE DEF Less
<1> QED
  BY <1>4, <1>5, <1>6

(* The current feed has the newest releases.                                *)
LEMMA LiveIs ==
  ASSUME Register, notices # {}
  PROVE  LET L == Uruguay!LiveEvents(notices) IN
         /\ L \in SUBSET notices /\ L # {} /\ Uruguay!Oldest(L) = Oldest(L)
         /\ Oldest(L) \in L
         /\ \A n \in notices : n.at >= Oldest(L).at => n \in L
<1> DEFINE More(n) == {m \in notices : m.at > n.at}
           L == Uruguay!LiveEvents(notices)
<1>1. Live \in Nat \ {0} /\ IsFiniteSet(notices)
  BY ConnectorsAssumption DEF Register
<1>2. \A n \in notices : n.at \in Nat
  BY Times
<1>3. \A n : IsFiniteSet(More(n)) /\ Cardinality(More(n)) \in Nat
  BY <1>1, FS_Subset, FS_CardinalityType
<1>4. L = {n \in notices : Cardinality(More(n)) < Live}
  BY DEF Uruguay!LiveEvents, Uruguay!Cardinality, Cardinality, Uruguay!IsFiniteSet, IsFiniteSet
<1>5. ASSUME NEW o \in L, NEW n \in notices, n.at >= o.at PROVE n \in L
  <2>1. o \in notices /\ Cardinality(More(o)) < Live
    BY <1>4
  <2>2. More(n) \subseteq More(o)
    BY <1>2, <1>5, <2>1
  <2>3. Cardinality(More(n)) <= Cardinality(More(o))
    BY <1>3, <2>2, FS_Subset
  <2>4. Cardinality(More(n)) < Live
    <3> HIDE DEF More
    <3> QED
      BY <1>1, <1>3, <2>1, <2>3
  <2> QED
    BY <1>4, <1>5, <2>4
<1>6. Newest(notices) \in L
  <2>1. Newest(notices) \in notices /\ \A o \in notices : o.at <= Newest(notices).at
    BY NewestOf
  <2>2. More(Newest(notices)) = {}
    BY <1>2, <2>1
  <2>3. Cardinality(More(Newest(notices))) < Live
    BY <1>1, <2>2, FS_EmptySet
  <2> QED
    BY <1>4, <2>1, <2>3
<1>7. L \in SUBSET notices
  BY <1>4
<1> HIDE DEF L
<1>8. Oldest(L) \in L /\ Uruguay!Oldest(L) = Oldest(L)
  BY <1>6, <1>7, OldestOf DEF Uruguay!Oldest, Oldest
<1> QED
  BY <1>5, <1>6, <1>7, <1>8 DEF L

(* What is beyond the cursor is what a call may take next.                  *)
LEMMA EligibleIs ==
  ASSUME Register, notices # {}, Tolerance <= 1, NEW c \in Uruguay!Cursor, Reached(c)
  PROVE  LET es == Uruguay!Eligible(notices, c)
             B == Uruguay!Beyond(notices, c)
             month == Uruguay!RecoveryMonth(c) IN
         /\ es \in SUBSET notices /\ es \subseteq B
         /\ Uruguay!Covered(notices, c) => es = B
         /\ ~Uruguay!Covered(notices, c) => es = {n \in B : n.day = month}
         /\ \A n \in B : n.day >= month /\ n.at > c.through
         /\ month \in Int /\ month >= c.month /\ (c.ended => month = c.month + 1)
<1> DEFINE L == Uruguay!LiveEvents(notices)
           B == Uruguay!Beyond(notices, c)
           old == Oldest(L)
           month == Uruguay!RecoveryMonth(c)
<1>1. /\ c.through \in Int /\ c.month \in Int /\ c.ended \in BOOLEAN /\ Tolerance \in Nat
  BY ConnectorsAssumption DEF Uruguay!Cursor
<1>2. /\ L \in SUBSET notices /\ old \in L /\ Uruguay!Oldest(L) = old
      /\ \A n \in notices : n.at >= old.at => n \in L
  BY LiveIs
<1>3. \A n \in notices : n.at \in Nat /\ n.day \in Nat
  BY Times
<1>4. month = IF c.ended THEN c.month + 1 ELSE c.month
  BY DEF Uruguay!RecoveryMonth
<1>5. /\ B = {n \in notices : IF c.ended THEN n.day > c.month ELSE n.at > c.through}
      /\ Uruguay!Beyond(L, c) =
           {n \in L : IF c.ended THEN n.day > c.month ELSE n.at > c.through}
  BY DEF Uruguay!Beyond
<1>6. ASSUME NEW n \in B PROVE n.day >= month /\ n.at > c.through /\ n \in notices
  <2>1. n \in notices /\ IF c.ended THEN n.day > c.month ELSE n.at > c.through
    BY <1>5
  <2>2. CASE c.ended
    <3>1. PICK m \in notices : m.at = c.through /\ m.day <= c.month
      BY DEF Reached
    <3>2. m.day < n.day
      BY <1>1, <1>3, <2>1, <2>2, <3>1
    <3>3. m.at < n.at
      BY <2>1, <3>1, <3>2, Times
    <3> QED
      BY <1>1, <1>3, <1>4, <2>1, <2>2, <3>1, <3>3
  <2>3. CASE ~c.ended
    BY <1>1, <1>3, <1>4, <2>1, <2>3 DEF Reached
  <2> QED
    BY <2>2, <2>3
<1>7. ASSUME Uruguay!Covered(notices, c) PROVE Uruguay!Beyond(L, c) = B
  <2>1. IF c.ended THEN old.day <= c.month ELSE old.at <= c.through + Tolerance
    BY <1>2, <1>7 DEF Uruguay!Covered
  <2>2. ASSUME NEW n \in B PROVE n \in L
    <3>1. n \in notices /\ IF c.ended THEN n.day > c.month ELSE n.at > c.through
      BY <1>5
    <3>2. old \in notices
      BY <1>2
    <3>3. CASE c.ended
      <4>1. old.day < n.day
        BY <1>1, <1>3, <2>1, <3>1, <3>2, <3>3
      <4>2. old.at < n.at
        BY <3>1, <3>2, <4>1, Times
      <4> QED
        BY <1>2, <1>3, <3>1, <3>2, <4>2
    <3>4. CASE ~c.ended
      <4>1. n.at >= old.at
        BY <1>1, <1>3, <2>1, <3>1, <3>2, <3>4
      <4> QED
        BY <1>2, <3>1, <4>1
    <3> QED
      BY <3>3, <3>4
  <2> HIDE DEF L, B
  <2> QED
    BY <1>2, <1>5, <2>2
<1>8. Uruguay!Eligible(notices, c) =
        IF Uruguay!Covered(notices, c) THEN Uruguay!Beyond(L, c)
        ELSE {n \in B : n.day = month}
  BY DEF Uruguay!Eligible
<1> HIDE DEF L, B, month
<1>9. month \in Int /\ month >= c.month /\ (c.ended => month = c.month + 1)
  BY <1>1, <1>4
<1> QED
  BY <1>6, <1>7, <1>8, <1>9 DEF B, month

(* The next cursor, and that what it passes was taken.                      *)
LEMMA NextCursorIs ==
  ASSUME Register, notices # {}, Tolerance <= 1, NEW c \in Uruguay!Cursor, Reached(c)
  PROVE  LET d == Uruguay!NextCursor(notices, c, today)
             batch == Uruguay!Batch(Uruguay!Eligible(notices, c)) IN
         /\ d \in Uruguay!Cursor /\ Reached(d)
         /\ \A n \in Uruguay!Beyond(notices, c) :
              n \notin Uruguay!Beyond(notices, d) => n \in batch
         /\ Uruguay!Beyond(notices, d) # {} => Uruguay!Later(d, c)
<1> DEFINE es == Uruguay!Eligible(notices, c)
           B == Uruguay!Beyond(notices, c)
           month == Uruguay!RecoveryMonth(c)
           batch == Uruguay!Batch(es)
           d == Uruguay!NextCursor(notices, c, today)
           covered == Uruguay!Covered(notices, c)
           new == Uruguay!Newest(batch)
<1>1. /\ c.through \in Int /\ c.month \in Int /\ c.ended \in BOOLEAN /\ today \in Nat
      /\ c = [through |-> c.through, month |-> c.month, ended |-> c.ended]
  BY TodayIs DEF Uruguay!Cursor
<1>2. /\ es \in SUBSET notices /\ es \subseteq B
      /\ covered => es = B
      /\ ~covered => es = {n \in B : n.day = month}
      /\ \A n \in B : n.day >= month /\ n.at > c.through
      /\ month \in Int /\ month >= c.month /\ (c.ended => month = c.month + 1)
  <2>1. /\ es \in SUBSET notices /\ es \subseteq B
    BY EligibleIs
  <2>2. covered => es = B
    BY EligibleIs
  <2> QED
    BY <2>1, <2>2, EligibleIs
<1>3. \A n \in notices : n.at \in Nat /\ n.day \in Nat /\ n.day <= today
  BY Times DEF Register
<1>4. /\ batch \subseteq es /\ (es # {} => batch # {})
      /\ \A b \in batch : \A n \in es : n.at <= b.at => n \in batch
  BY <1>2, BatchIs
<1>5. d = IF ~covered /\ batch = es /\ month < today THEN Uruguay!Ended(month, c)
          ELSE IF batch = {} THEN c ELSE Uruguay!At(new)
  BY DEF Uruguay!NextCursor
<1>6. batch # {} => new \in batch /\ \A o \in batch : o.at <= new.at
  <2>1. batch \in SUBSET notices
    BY <1>2, <1>4
  <2> HIDE DEF batch
  <2> QED
    BY <2>1, NewestOf DEF Uruguay!Newest, Newest
<1>7. B = {n \in notices : IF c.ended THEN n.day > c.month ELSE n.at > c.through}
  BY DEF Uruguay!Beyond
<1>8. Uruguay!Beyond(notices, d) =
        {n \in notices : IF d.ended THEN n.day > d.month ELSE n.at > d.through}
  BY DEF Uruguay!Beyond
<1> HIDE DEF es, B, month, batch, d, covered, new
<1>9. CASE ~covered /\ batch = es /\ month < today
  <2>1. /\ d = [through |-> c.through, month |-> month, ended |-> TRUE]
    BY <1>5, <1>9 DEF Uruguay!Ended
  <2>2. d.through = c.through /\ d.month = month /\ d.ended = TRUE
    BY <2>1
  <2>3. d \in Uruguay!Cursor
    BY <1>1, <1>2, <2>1 DEF Uruguay!Cursor
  <2>4. Reached(d)
    <3>1. PICK m \in notices : m.at = c.through /\ m.day <= c.month
      BY DEF Reached
    <3>2. m.day <= month
      BY <1>1, <1>2, <1>3, <3>1
    <3> QED
      BY <1>1, <1>2, <1>9, <2>2, <3>1, <3>2 DEF Reached
  <2>5. \A n \in B : n \notin Uruguay!Beyond(notices, d) => n \in batch
    <3>1. \A n \in B : n \in notices
      BY <1>7
    <3>2. \A n \in notices : n \notin Uruguay!Beyond(notices, d) => ~(n.day > month)
      BY <1>8, <2>2
    <3>3. \A n \in B : n \notin Uruguay!Beyond(notices, d) => n.day = month
      BY <1>2, <1>3, <3>1, <3>2
    <3> QED
      BY <1>2, <1>9, <3>3
  <2>6. Uruguay!Later(d, c)
    BY <1>1, <1>2, <2>2 DEF Uruguay!Later
  <2> QED
    BY <2>3, <2>4, <2>5, <2>6 DEF B, d, batch, es
<1>10. CASE ~(~covered /\ batch = es /\ month < today) /\ batch = {}
  <2>1. d = c
    BY <1>5, <1>10
  <2>2. \A n \in B : n \notin Uruguay!Beyond(notices, d) => n \in batch
    BY <2>1 DEF B
  <2>3. Uruguay!Beyond(notices, d) = {}
    <3>1. es = {} /\ batch = es
      BY <1>4, <1>10
    <3>2. CASE covered
      BY <1>2, <2>1, <3>1, <3>2 DEF B
    <3>3. CASE ~covered
      <4>1. ~(month < today)
        BY <1>10, <3>1, <3>3
      <4>2. \A n \in B : n \in notices
        BY <1>7
      <4>3. \A n \in B : n.day = month
        BY <1>1, <1>2, <1>3, <4>1, <4>2
      <4> QED
        BY <1>2, <2>1, <3>1, <3>3, <4>3 DEF B
    <3> QED
      BY <3>2, <3>3
  <2> QED
    BY <2>1, <2>2, <2>3 DEF B, d, batch, es
<1>11. CASE ~(~covered /\ batch = es /\ month < today) /\ batch # {}
  <2>1. new \in batch /\ new \in es /\ new \in notices /\ new \in B
    BY <1>2, <1>4, <1>6, <1>11
  <2>2. d = [through |-> new.at, month |-> new.day, ended |-> FALSE]
    BY <1>5, <1>11 DEF Uruguay!At
  <2>3. d.through = new.at /\ d.month = new.day /\ d.ended = FALSE
    BY <2>2
  <2>4. d \in Uruguay!Cursor
    BY <1>3, <2>1, <2>2 DEF Uruguay!Cursor
  <2>5. Reached(d)
    <3>1. \A n \in notices : n.at > new.at => n.day >= new.day
      <4>1. \A n \in notices : n.at > new.at => new.at <= n.at
        BY <1>3, <2>1
      <4>2. \A n \in notices : new.at <= n.at => new.day <= n.day
        BY <2>1, Times
      <4> QED
        BY <1>3, <2>1, <4>1, <4>2
    <3> QED
      BY <1>3, <2>1, <2>3, <3>1 DEF Reached
  <2>6. ASSUME NEW n \in B, n \notin Uruguay!Beyond(notices, d) PROVE n \in batch
    <3>1. n \in notices
      BY <1>7
    <3>2. n.at <= new.at
      BY <1>3, <1>8, <2>1, <2>3, <2>6, <3>1
    <3>3. n \in es
      <4>1. CASE covered
        BY <1>2, <4>1
      <4>2. CASE ~covered
        <5>1. n.day <= new.day /\ new.day = month
          BY <1>2, <2>1, <3>1, <3>2, <4>2, Times
        <5>2. n.day = month
          BY <1>2, <1>3, <3>1, <5>1
        <5> QED
          BY <1>2, <4>2, <5>2
      <4> QED
        BY <4>1, <4>2
    <3> QED
      BY <1>4, <2>1, <3>2, <3>3
  <2>7. Uruguay!Later(d, c)
    BY <1>2, <2>1, <2>3 DEF Uruguay!Later
  <2> QED
    BY <2>4, <2>5, <2>6, <2>7 DEF B, d, batch, es
<1> QED
  BY <1>9, <1>10, <1>11

(* The first call.                                                          *)
LEMMA FirstCursorIs ==
  ASSUME connector = "uruguay", Register, notices # {}
  PROVE  LET batch == Uruguay!FirstBatch(notices, today)
             d == IF batch = {} THEN Uruguay!Present(notices, today)
                  ELSE Uruguay!At(Uruguay!Newest(batch))
             horizon == Uruguay!Horizon(notices, today) IN
         /\ batch \in SUBSET notices
         /\ horizon \in Int
         /\ d \in Uruguay!Cursor /\ Reached(d)
         /\ \A n \in notices : n.day >= horizon /\ n \notin Uruguay!Beyond(notices, d)
              => n \in batch
<1> DEFINE L == Uruguay!LiveEvents(notices)
           es == {n \in L : n.day > today - Lookback}
           batch == Uruguay!FirstBatch(notices, today)
           new == Uruguay!Newest(batch)
           last == Uruguay!Newest(notices)
           d == IF batch = {} THEN Uruguay!Present(notices, today) ELSE Uruguay!At(new)
           horizon == Uruguay!Horizon(notices, today)
           old == Oldest(L)
<1>1. /\ L \in SUBSET notices /\ old \in L /\ Uruguay!Oldest(L) = old
      /\ \A n \in notices : n.at >= old.at => n \in L
  BY LiveIs
<1>2. \A n \in notices : n.at \in Nat /\ n.day \in Nat /\ n.day <= today
  BY Times DEF Register
<1>3. today \in Nat /\ Lookback \in Nat
  BY TodayIs, UnitsAre
<1>4. batch = Uruguay!Batch(es) /\ es \in SUBSET notices
  BY <1>1 DEF Uruguay!FirstBatch
<1>5. /\ batch \subseteq es /\ batch \in SUBSET notices
      /\ es # {} => batch # {}
      /\ \A b \in batch : \A n \in es : n.at <= b.at => n \in batch
  <2> HIDE DEF es, batch
  <2> QED
    BY <1>4, BatchIs
<1>6. horizon = IF L = notices THEN today - Lookback + 1
                ELSE Uruguay!GreaterOf(today - Lookback + 1, old.day + 1)
  BY <1>1 DEF Uruguay!Horizon
<1>7. horizon \in Int /\ horizon > today - Lookback
  BY <1>1, <1>2, <1>3, <1>6 DEF Uruguay!GreaterOf
<1>8. ASSUME NEW n \in notices, n.day >= horizon PROVE n \in es
  <2>1. n.day > today - Lookback
    BY <1>2, <1>3, <1>7, <1>8
  <2>2. CASE L = notices
    BY <2>1, <2>2
  <2>3. CASE L # notices
    <3>1. old \in notices /\ n.day > old.day
      BY <1>1, <1>2, <1>3, <1>6, <1>8, <2>3 DEF Uruguay!GreaterOf
    <3>2. n.at > old.at
      BY <1>2, <3>1, Times
    <3> QED
      BY <1>1, <1>2, <2>1, <3>1, <3>2
  <2> QED
    BY <2>2, <2>3
<1>9. /\ last \in notices /\ \A o \in notices : o.at <= last.at
  BY NewestOf DEF Uruguay!Newest, Newest
<1>10. batch # {} => new \in batch /\ \A o \in batch : o.at <= new.at
  <2> HIDE DEF batch
  <2> QED
    BY <1>5, NewestOf DEF Uruguay!Newest, Newest
<1>11. Uruguay!Beyond(notices, d) =
         {n \in notices : IF d.ended THEN n.day > d.month ELSE n.at > d.through}
  BY DEF Uruguay!Beyond
<1> HIDE DEF es, batch, new, last, d, horizon
<1>12. CASE batch = {}
  <2>1. d = [through |-> last.at, month |-> today, ended |-> FALSE]
    BY <1>12 DEF d, Uruguay!Present, last
  <2>2. d.through = last.at /\ d.month = today /\ d.ended = FALSE
    BY <2>1
  <2>3. d \in Uruguay!Cursor
    BY <1>2, <1>3, <1>9, <2>1 DEF Uruguay!Cursor
  <2>4. Reached(d)
    BY <1>2, <1>3, <1>9, <2>2 DEF Reached
  <2> QED
    BY <1>5, <1>7, <1>8, <1>12, <2>3, <2>4 DEF batch, new, d, horizon
<1>13. CASE batch # {}
  <2>1. d = [through |-> new.at, month |-> new.day, ended |-> FALSE]
    BY <1>13 DEF d, Uruguay!At
  <2>2. d.through = new.at /\ d.month = new.day /\ d.ended = FALSE /\ new \in notices
    BY <1>5, <1>10, <1>13, <2>1
  <2>3. d \in Uruguay!Cursor
    BY <1>2, <2>1, <2>2 DEF Uruguay!Cursor
  <2>4. Reached(d)
    <3>1. \A n \in notices : n.at > new.at => n.day >= new.day
      <4>1. \A n \in notices : n.at > new.at => new.at <= n.at
        BY <1>2, <2>2
      <4>2. \A n \in notices : new.at <= n.at => new.day <= n.day
        BY <2>2, Times
      <4> QED
        BY <1>2, <2>2, <4>1, <4>2
    <3> QED
      BY <1>2, <2>2, <3>1 DEF Reached
  <2>5. ASSUME NEW n \in notices, n.day >= horizon, n \notin Uruguay!Beyond(notices, d)
        PROVE  n \in batch
    <3>1. n.at <= new.at
      BY <1>2, <1>11, <2>2, <2>5
    <3> QED
      BY <1>5, <1>8, <1>10, <1>13, <2>5, <3>1
  <2> QED
    BY <1>5, <1>7, <2>3, <2>4, <2>5 DEF batch, new, d, horizon
<1> QED
  BY <1>12, <1>13

(* The rows of a call.                                                      *)
LEMMA GivenIs ==
  ASSUME connector = "uruguay", Register, NEW batch \in SUBSET notices, NEW l \in Lot
  PROVE  Uruguay!Given(batch, notices, today)[l] =
           IF /\ \E n \in batch : n.lot = l
              /\ Newest(Mine(l)).kind # "close" /\ Dated(Mine(l)) # {}
              /\ Future(DeadlineOf(Mine(l)), today)
           THEN DeadlineOf(Mine(l)) ELSE None
BY DEF Uruguay!Given, Mine, Uruguay!Newest, Newest, Uruguay!Dated, Dated, Uruguay!Future, Future,
   Uruguay!DeadlineOf, DeadlineOf

(* Whatever the tolerance, the cursor is one and what is shown is published. *)
LEMMA UruguayRows ==
  ASSUME connector = "uruguay", Register, TypeOK, Screen, Stated, Poll
  PROVE  (TypeOK /\ Screen /\ Stated /\ Sound)'
<1> DEFINE batch == IF cursor = None THEN Uruguay!FirstBatch(notices, today)
                    ELSE Uruguay!Batch(Uruguay!Eligible(notices, cursor))
           next == IF cursor # None THEN Uruguay!NextCursor(notices, cursor, today)
                   ELSE IF batch = {} THEN Uruguay!Present(notices, today)
                   ELSE Uruguay!At(Uruguay!Newest(batch))
           none == Uruguay!Beyond(notices, next) = {}
           horizon == Uruguay!Horizon(notices, today)
           given == Uruguay!Given(batch, notices, today)
<1>1. PICK call : call = Call
  OBVIOUS
<1>2. /\ call.cursor = next /\ call.until = given
      /\ call.done = none /\ call.first = horizon
  <2>1. call = Uruguay!Rows(next, given, none, horizon)
    BY <1>1, UruguayIs, Zenon DEF Uruguay!Fetch
  <2> HIDE DEF batch, next, given, none, horizon
  <2> QED
    BY <2>1, Zenon DEF Uruguay!Rows
<1>3. /\ notices # {} /\ horizon \in Int
  <2>1. notices # {}
    BY UruguayIs, PollParts
  <2> QED
    BY <2>1, FirstCursorIs
<1>4. batch \in SUBSET notices /\ next \in Uruguay!Cursor
  <2>1. CASE cursor = None
    <3>1. /\ batch = Uruguay!FirstBatch(notices, today)
          /\ next = IF batch = {} THEN Uruguay!Present(notices, today)
                    ELSE Uruguay!At(Uruguay!Newest(batch))
      BY <2>1
    <3> HIDE DEF batch, next
    <3> QED
      BY <1>3, <3>1, FirstCursorIs
  <2>2. CASE cursor # None
    <3> DEFINE es == Uruguay!Eligible(notices, cursor)
    <3>1. cursor \in Uruguay!Cursor
      BY <2>2, UruguayIs DEF TypeOK
    <3>2. es \in SUBSET notices
      BY DEF Uruguay!Eligible, Uruguay!Beyond, Uruguay!LiveEvents
    <3>3. batch = Uruguay!Batch(es) /\ next = Uruguay!NextCursor(notices, cursor, today)
      BY <2>2
    <3>4. next \in {Uruguay!Ended(Uruguay!RecoveryMonth(cursor), cursor), cursor}
          \/ (batch # {} /\ next = Uruguay!At(Uruguay!Newest(batch)))
      BY <3>3 DEF Uruguay!NextCursor
    <3> HIDE DEF batch, next, es
    <3>5. batch \in SUBSET notices
      BY <3>2, <3>3, BatchIs
    <3>6. batch # {} => Uruguay!Newest(batch) \in notices
      BY <3>5, NewestOf DEF Uruguay!Newest, Newest
    <3>7. \A n \in notices : Uruguay!At(n) \in Uruguay!Cursor
      BY Times DEF Uruguay!At, Uruguay!Cursor
    <3>8. Uruguay!Ended(Uruguay!RecoveryMonth(cursor), cursor) \in Uruguay!Cursor
      BY <3>1 DEF Uruguay!Ended, Uruguay!RecoveryMonth, Uruguay!Cursor
    <3> QED
      BY <3>1, <3>4, <3>5, <3>6, <3>7, <3>8
  <2> QED
    BY <2>1, <2>2
<1> HIDE DEF batch, next, none, horizon
<1>5. \A l \in Lot : given[l] \in Int \cup {None}
  <2> SUFFICES ASSUME NEW l \in Lot, given[l] # None PROVE given[l] \in Int
    OBVIOUS
  <2>1. /\ \E n \in batch : n.lot = l
        /\ given[l] = DeadlineOf(Mine(l))
    BY <1>4, GivenIs
  <2>2. Mine(l) # {}
    BY <1>4, <2>1 DEF Mine
  <2> QED
    BY <2>1, <2>2, DeadlineDated
<1>6. \A l \in Lot : given[l] # None => Mine(l) # {}
  <2> SUFFICES ASSUME NEW l \in Lot, given[l] # None PROVE Mine(l) # {}
    OBVIOUS
  <2>1. \E n \in batch : n.lot = l
    BY <1>4, GivenIs
  <2> QED
    BY <1>4, <2>1 DEF Mine
<1> HIDE DEF given
<1>7. TypeOK' /\ Screen'
  <2>1. call.done \in BOOLEAN
    BY <1>2, Zenon DEF none
  <2>2. next # None
    BY <1>4, NoneAssumption
  <2> QED
    BY <1>1, <1>2, <1>3, <1>4, <1>5, <2>1, <2>2, UruguayIs, PollType
<1>8. ASSUME NEW l \in Lot, listed'[l] # 0 PROVE Mine(l) # {}
  <2>1. listed'[l] = IF given[l] = None THEN listed[l] ELSE given[l]
    BY <1>1, <1>2, RowsAre, UruguayIs
  <2> QED
    BY <1>6, <1>8, <2>1 DEF Stated
<1>9. Stated'
  <2>1. \A l : Mine(l)' = Mine(l)
    BY PollParts DEF Mine
  <2> QED
    BY <1>8, <2>1 DEF Stated
<1>10. Sound'
  <2>1. ASSUME NEW l \in Lot, listed'[l] > today PROVE Remains(l)
    <3>1. listed'[l] # 0
      BY <2>1, TodayIs
    <3> QED
      BY <1>8, <3>1, OfToday, UruguayIs
  <2>2. Withdrawn(call) \subseteq shown
    BY UruguayIs DEF Withdrawn
  <2> QED
    BY <1>1, <2>1, <2>2, SoundAfter
<1> QED
  BY <1>7, <1>9, <1>10

(* Uruguay: the releases beyond the cursor, the oldest first                *)
(* (fetch_incremental, uruguay_arce.py:404-429), with a tolerance of at     *)
(* most one release.                                                        *)
LEMMA UruguayPoll ==
  ASSUME connector = "uruguay", Register, TypeOK, Screen, UruguayKept, Poll, Tolerance <= 1
  PROVE  (UruguayKept /\ Complete)'
<1> DEFINE batch == IF cursor = None THEN Uruguay!FirstBatch(notices, today)
                    ELSE Uruguay!Batch(Uruguay!Eligible(notices, cursor))
           next == IF cursor # None THEN Uruguay!NextCursor(notices, cursor, today)
                   ELSE IF batch = {} THEN Uruguay!Present(notices, today)
                   ELSE Uruguay!At(Uruguay!Newest(batch))
           horizon == Uruguay!Horizon(notices, today)
           base == IF cursor = None THEN horizon ELSE first
           N(l) == Newest(Mine(l))
           due(l) == DeadlineOf(Mine(l))
<1>1. PICK call : call = Call
  OBVIOUS
<1>2. /\ call.cursor = next /\ call.until = Uruguay!Given(batch, notices, today)
      /\ call.done = (Uruguay!Beyond(notices, next) = {}) /\ call.first = horizon
  <2>1. call = Uruguay!Rows(next, Uruguay!Given(batch, notices, today),
                            Uruguay!Beyond(notices, next) = {}, horizon)
    BY <1>1, UruguayIs, Zenon DEF Uruguay!Fetch
  <2> HIDE DEF batch, next, horizon
  <2> QED
    BY <2>1, Zenon DEF Uruguay!Rows
<1>3. /\ today \in Nat /\ today < Undated
      /\ notices # {}
  BY TodayIs, UruguayIs, PollParts
<1>4. cursor # None => cursor \in Uruguay!Cursor /\ Reached(cursor) /\ first \in Int
  BY UruguayIs DEF TypeOK, UruguayKept
<1>5. /\ batch \in SUBSET notices /\ next \in Uruguay!Cursor /\ Reached(next)
      /\ base \in Int /\ horizon \in Int
      /\ \A n \in notices :
           /\ n.day >= base /\ n \notin Uruguay!Beyond(notices, next)
           /\ cursor # None => n \in Uruguay!Beyond(notices, cursor)
           => n \in batch
  <2>1. horizon \in Int
    BY <1>3, FirstCursorIs
  <2> HIDE DEF horizon
  <2>2. CASE cursor = None
    <3>1. /\ batch = Uruguay!FirstBatch(notices, today) /\ base = Uruguay!Horizon(notices, today)
          /\ next = IF batch = {} THEN Uruguay!Present(notices, today)
                    ELSE Uruguay!At(Uruguay!Newest(batch))
      BY <2>2 DEF horizon
    <3> HIDE DEF batch, next, base
    <3> QED
      BY <1>3, <2>1, <2>2, <3>1, FirstCursorIs
  <2>3. CASE cursor # None
    <3>1. /\ batch = Uruguay!Batch(Uruguay!Eligible(notices, cursor)) /\ base = first
          /\ next = Uruguay!NextCursor(notices, cursor, today)
      BY <2>3
    <3>2. batch \in SUBSET notices
      <4>1. Uruguay!Eligible(notices, cursor) \in SUBSET notices
        BY <1>3, <1>4, <2>3, EligibleIs
      <4> HIDE DEF batch
      <4> QED
        BY <3>1, <4>1, BatchIs
    <3> HIDE DEF batch, next, base
    <3>3. /\ next \in Uruguay!Cursor /\ Reached(next)
          /\ \A n \in Uruguay!Beyond(notices, cursor) :
               n \notin Uruguay!Beyond(notices, next) => n \in batch
      BY <1>3, <1>4, <2>3, <3>1, NextCursorIs
    <3> QED
      BY <1>4, <2>1, <2>3, <3>1, <3>2, <3>3
  <2> QED
    BY <2>2, <2>3
<1>6. ASSUME NEW l \in Lot
      PROVE  call.until[l] =
               IF /\ \E n \in batch : n.lot = l
                  /\ N(l).kind # "close" /\ Dated(Mine(l)) # {} /\ Future(due(l), today)
               THEN due(l) ELSE None
  <2> HIDE DEF batch
  <2> QED
    BY <1>2, <1>5, GivenIs
<1>7. /\ cursor' = next /\ first' = base /\ connector' = connector /\ today' = today
      /\ notices' = notices
  BY <1>1, <1>2, PollParts, UruguayIs
<1> HIDE DEF batch, next, base, horizon
<1>8. ASSUME NEW l \in Lot, Mine(l) # {}
      PROVE  /\ N(l) \in Mine(l) /\ N(l) \in notices /\ N(l).day \in Nat /\ N(l).lot = l
             /\ Dated(Mine(l)) # {} /\ due(l) \in Int \cup {None}
  <2>1. N(l) \in Mine(l) /\ N(l) \in notices
    BY <1>8, OfToday, NewestOf
  <2>2. N(l).day \in Nat /\ N(l).lot = l
    BY <2>1, Times DEF Mine
  <2> QED
    BY <1>8, <2>1, <2>2, DeadlineDated
<1>9. ASSUME NEW l \in Lot
      PROVE  /\ listed'[l] = IF call.until[l] = None THEN listed[l] ELSE call.until[l]
             /\ cursor = None => listed[l] = 0
             /\ call.until[l] \in Int \cup {None}
             /\ listed[l] \in Int
             /\ call.until[l] # None => Mine(l) # {} /\ call.until[l] = due(l)
  <2>1. \A n \in batch : n.lot = l => n \in Mine(l)
    BY <1>5 DEF Mine
  <2>2. call.until[l] # None => Mine(l) # {} /\ call.until[l] = due(l)
    BY <1>6, <2>1
  <2> HIDE DEF due
  <2> QED
    BY <1>1, <1>8, <2>2, RowsAre, UruguayIs DEF due
<1> HIDE DEF N, due
<1>11. ASSUME NEW l \in Lot, Mine(l) # {}, N(l).kind # "close", N(l).day >= base,
              N(l) \notin Uruguay!Beyond(notices, next), Future(due(l), today)
       PROVE  listed'[l] = due(l)
  <2>1. due(l) # None
    BY <1>11 DEF Future
  <2>2. CASE N(l) \in batch
    BY <1>6, <1>8, <1>9, <1>11, <2>1, <2>2
  <2>3. CASE N(l) \notin batch
    <3>1. cursor # None /\ N(l) \notin Uruguay!Beyond(notices, cursor)
      BY <1>5, <1>8, <1>11, <2>3
    <3>2. listed[l] = due(l)
      BY <1>11, <3>1 DEF UruguayKept, base, N, due
    <3> QED
      BY <1>9, <3>2
  <2> QED
    BY <2>2, <2>3
<1>13. UruguayKept'
  <2>1. first' # None
    BY <1>5, <1>7, NoneIs
  <2>2. /\ \A l \in Lot : Mine(l)' = Mine(l)
        /\ \A l \in Lot : Newest(Mine(l))' = N(l)
        /\ \A l \in Lot : DeadlineOf(Mine(l))' = due(l)
    BY <1>7 DEF Mine, N, due, Newest, DeadlineOf, Dated
  <2>3. Uruguay!Beyond(notices, cursor)' = Uruguay!Beyond(notices, next)
    BY <1>7 DEF Uruguay!Beyond
  <2>4. Reached(cursor)'
    BY <1>5, <1>7 DEF Reached
  <2>5. \A l \in Lot : Future(DeadlineOf(Mine(l)), today)' <=> Future(due(l), today)
    BY <1>7, <2>2 DEF Future
  <2> QED
    BY <1>5, <1>7, <1>11, <2>1, <2>2, <2>3, <2>4, <2>5 DEF UruguayKept
<1>14. Complete'
  <2>1. ASSUME NEW l \in Lot, call.done,
               \A ns \in Views(l) : OpenBy(ns) /\ Newest(Tenders(ns)).day >= first'
        PROVE  listed'[l] > today
    <3>1. OpenBy(Mine(l)) /\ Newest(Tenders(Mine(l))).day >= base
      BY <1>7, <2>1, ViewsAre
    <3>2. Mine(l) # {} /\ N(l).kind # "close" /\ Future(due(l), today)
      BY <3>1 DEF OpenBy, N, due
    <3>3. Newest(Tenders(Mine(l))).day \in Nat /\ Newest(Tenders(Mine(l))).day <= N(l).day
      BY <3>2, TenderOf DEF N
    <3>4. N(l).day >= base
      BY <1>5, <1>8, <3>1, <3>2, <3>3
    <3>5. N(l) \notin Uruguay!Beyond(notices, next)
      BY <1>2, <2>1
    <3>6. listed'[l] = due(l)
      BY <1>11, <3>2, <3>4, <3>5
    <3> QED
      BY <3>2, <3>6 DEF Future
  <2> QED
    BY <1>1, <2>1, CompleteAfter
<1> QED
  BY <1>13, <1>14

(* A release published after a call is beyond the cursor.                   *)
LEMMA UruguayRest ==
  ASSUME connector = "uruguay", Register, TypeOK, UruguayKept
  PROVE  /\ \A l \in Lot : \A n : New(n, l) => UruguayKept'
         /\ NextDay => UruguayKept'
<1>1. /\ cursor # None => /\ cursor.through \in Int /\ cursor.month \in Int
                          /\ cursor.ended \in BOOLEAN /\ first \in Int
      /\ today \in Nat
  <2>1. cursor # None => cursor \in Uruguay!Cursor
    BY UruguayIs DEF TypeOK
  <2> QED
    BY <2>1, TodayIs DEF Uruguay!Cursor, TypeOK, UruguayKept
<1>2. ASSUME NEW l \in Lot, NEW n, New(n, l) PROVE UruguayKept'
  <2> SUFFICES ASSUME cursor # None PROVE UruguayKept'
    BY <1>2, NewMine DEF UruguayKept
  <2>1. /\ n.day = today /\ n.at \in Nat
        /\ notices' = notices \cup {n} /\ Mine(l)' = Mine(l) \cup {n}
        /\ \A k \in Lot : k # l => Mine(k)' = Mine(k)
        /\ connector' = connector /\ today' = today /\ cursor' = cursor /\ first' = first
        /\ listed' = listed /\ shown' = shown
    BY <1>2, NewMine, UruguayIs
  <2>2. \A o \in notices : o.at < n.at /\ o.at \in Nat /\ o.day \in Nat
    BY <1>2, <2>1, Times, NewTimes DEF Register
  <2>3. Reached(cursor)
    BY DEF UruguayKept
  <2>4. n.at > cursor.through
    BY <1>1, <2>1, <2>2, <2>3 DEF Reached
  <2>5. n \in Uruguay!Beyond(notices, cursor)'
    BY <1>1, <2>1, <2>3, <2>4 DEF Reached, Uruguay!Beyond
  <2>6. Reached(cursor)'
    BY <1>1, <2>1, <2>3 DEF Reached
  <2>7. Newest(Mine(l)') = n
    <3>1. \A o \in Mine(l) : o.at \in Nat /\ o.at < n.at
      BY <2>2 DEF Mine
    <3> QED
      BY <2>1, <3>1, NewestUnique
  <2>8. ASSUME NEW k \in Lot, k # l
        PROVE  /\ Mine(k)' = Mine(k) /\ Newest(Mine(k))' = Newest(Mine(k))
               /\ DeadlineOf(Mine(k))' = DeadlineOf(Mine(k))
               /\ (Future(DeadlineOf(Mine(k)), today)' <=> Future(DeadlineOf(Mine(k)), today))
               /\ \A o \in Mine(k) : o \in Uruguay!Beyond(notices, cursor)' <=>
                                     o \in Uruguay!Beyond(notices, cursor)
    <3>1. Mine(k)' = Mine(k)
      BY <2>1, <2>8
    <3>2. Newest(Mine(k))' = Newest(Mine(k)) /\ DeadlineOf(Mine(k))' = DeadlineOf(Mine(k))
      BY <3>1 DEF Newest, DeadlineOf, Dated
    <3> QED
      BY <2>1, <3>1, <3>2 DEF Future, Uruguay!Beyond, Mine
  <2>9. ASSUME NEW k \in Lot
        PROVE  (/\ Mine(k) # {} /\ Newest(Mine(k)).kind # "close"
                /\ Newest(Mine(k)).day >= first
                /\ Newest(Mine(k)) \notin Uruguay!Beyond(notices, cursor)
                /\ Future(DeadlineOf(Mine(k)), today)
                => listed[k] = DeadlineOf(Mine(k)))'
    <3>1. CASE k = l
      <4>1. Newest(Mine(k))' = n
        BY <2>7, <3>1 DEF Newest
      <4> QED
        BY <2>1, <2>5, <3>1, <4>1
    <3>2. CASE k # l
      <4>1. Mine(k) # {} => Newest(Mine(k)) \in Mine(k)
        BY OfToday, NewestOf
      <4> QED
        BY <2>1, <2>8, <3>2, <4>1 DEF UruguayKept
    <3> QED
      BY <3>1, <3>2
  <2> QED
    BY <2>1, <2>6, <2>9 DEF UruguayKept
<1>3. ASSUME NextDay PROVE UruguayKept'
  <2> SUFFICES ASSUME cursor # None PROVE UruguayKept'
    BY <1>3, NextDayIs DEF UruguayKept
  <2>1. /\ today' = today + 1 /\ connector' = connector /\ notices' = notices
        /\ cursor' = cursor /\ first' = first /\ listed' = listed /\ shown' = shown
        /\ \A l : Mine(l)' = Mine(l)
    BY <1>3, NextDayIs
  <2>2. Reached(cursor)'
    BY <1>1, <2>1 DEF Reached, UruguayKept
  <2>3. /\ \A l : Newest(Mine(l))' = Newest(Mine(l))
        /\ \A l : DeadlineOf(Mine(l))' = DeadlineOf(Mine(l))
        /\ Uruguay!Beyond(notices, cursor)' = Uruguay!Beyond(notices, cursor)
    BY <2>1 DEF Newest, DeadlineOf, Dated, Uruguay!Beyond
  <2>4. ASSUME NEW l \in Lot, Mine(l) # {}, Future(DeadlineOf(Mine(l)), today)'
        PROVE  Future(DeadlineOf(Mine(l)), today)
    <3>1. DeadlineOf(Mine(l)) \in Int \cup {None}
      BY <2>4, DeadlineDated
    <3> QED
      BY <1>1, <2>1, <2>3, <2>4, <3>1 DEF Future
  <2> QED
    BY <2>1, <2>2, <2>3, <2>4 DEF UruguayKept
<1> QED
  BY <1>2, <1>3

-----------------------------------------------------------------------------
(* Progress, connector by connector: a call is done or reads further.       *)
Onward(call) == call.done = TRUE \/ call.cursor.through > cursor.through

(* These read up to the present in one call.                                *)
LEMMA AlwaysDone ==
  ASSUME connector \in {"netherlands", "lithuania", "canada", "switzerland", "ecuador", "us",
                        "colombia"},
         NEW call, call = Call
  PROVE  call.done = TRUE
<1>1. CASE connector = "netherlands"
  <2>1. Call = Netherlands!Fetch(cursor, notices, today)
    BY <1>1 DEF Call
  <2> QED
    BY <2>1, Zenon DEF Netherlands!Fetch, Netherlands!Result
<1>2. CASE connector = "lithuania"
  <2>1. Call = Lithuania!Fetch(cursor, notices, today)
    BY <1>2 DEF Call
  <2> QED
    BY <2>1, Zenon DEF Lithuania!Fetch, Lithuania!Result
<1>3. CASE connector = "canada"
  <2>1. Call = Canada!Fetch(cursor, notices, today)
    BY <1>3 DEF Call
  <2> QED
    BY <2>1, Zenon DEF Canada!Fetch, Canada!Result
<1>4. CASE connector = "switzerland"
  <2>1. Call = Switzerland!Fetch(cursor, notices, today)
    BY <1>4 DEF Call
  <2> QED
    BY <2>1, Zenon DEF Switzerland!Fetch, Switzerland!Result
<1>5. CASE connector = "ecuador"
  <2>1. Call = Ecuador!Fetch(cursor, notices, today)
    BY <1>5 DEF Call
  <2> QED
    BY <2>1, Zenon DEF Ecuador!Fetch, Ecuador!Result
<1>6. CASE connector = "us"
  <2>1. Call = US!Fetch(cursor, notices, today)
    BY <1>6 DEF Call
  <2>2. CASE US!NotModified(cursor, today)
    BY <2>1, <2>2, Zenon DEF US!Fetch, US!Result
  <2>3. CASE ~US!NotModified(cursor, today)
    BY <2>1, <2>3, Zenon DEF US!Fetch, US!Result
  <2> QED
    BY <2>2, <2>3
<1>7. CASE connector = "colombia"
  <2>1. Call = Colombia!Fetch(cursor, notices, today)
    BY <1>7 DEF Call
  <2> QED
    BY <2>1, Zenon DEF Colombia!Fetch, Colombia!Rows
<1> QED
  BY <1>1, <1>2, <1>3, <1>4, <1>5, <1>6, <1>7

(* Days up to a target, an overlap read again.                              *)
LEMMA DaysAdvance ==
  ASSUME NEW through \in Int, NEW target \in Int, NEW last,
         last = IF target <= through + 1 - Overlap + Budget - 1
                THEN target ELSE through + 1 - Overlap + Budget - 1
  PROVE  last \in Int /\ (last = target \/ last > through)
BY UnitsAre

(* Windows that begin at the cursor.                                        *)
LEMMA WindowsAdvance ==
  ASSUME NEW through \in Int, NEW now \in Int, NEW start \in {through - Overlap, through},
         NEW last, last = IF now <= start + Budget THEN now ELSE start + Budget
  PROVE  last \in Int /\ (last = now \/ last > through)
BY UnitsAre

(* Italy: the budget exceeds the overlap.                                   *)
LEMMA ItalyAdvances ==
  ASSUME connector = "italy", Register, TypeOK, cursor # None, NEW call, call = Call
  PROVE  Onward(call)
<1> DEFINE last == Italy!LesserOf(today, Italy!StartDay(cursor, today) + Budget - 1)
           through == IF cursor = None THEN last ELSE Italy!GreaterOf(cursor.through, last)
<1>1. Call = Italy!Fetch(cursor, notices, today)
  BY DEF Call
<1>2. /\ through >= today => call.done = TRUE
      /\ ~(through >= today) => call.cursor.through = through
  <2>1. CASE through >= today
    BY <1>1, <2>1, Zenon DEF Italy!Fetch, Italy!Result
  <2>2. CASE ~(through >= today)
    BY <1>1, <2>2, Zenon DEF Italy!Fetch, Italy!Result
  <2> QED
    BY <2>1, <2>2
<1>3. cursor.through \in Int /\ today \in Int
  <2>1. cursor \in Italy!Cursor
    BY DEF TypeOK, Cursor
  <2> QED
    BY <2>1, TodayIs DEF Italy!Cursor
<1>4. last \in Int /\ (last = today \/ last > cursor.through)
  BY <1>3, DaysAdvance DEF Italy!LesserOf, Italy!StartDay
<1> QED
  BY <1>2, <1>3, <1>4 DEF Italy!GreaterOf, Onward

(* Germany: the same.                                                       *)
LEMMA GermanyAdvances ==
  ASSUME connector = "germany", Register, TypeOK, cursor # None, NEW call, call = Call
  PROVE  Onward(call)
<1> DEFINE last == Germany!LesserOf(today - 1, Germany!StartDay(cursor, today - 1) + Budget - 1)
           through == IF cursor = None THEN last ELSE Germany!GreaterOf(cursor.through, last)
<1>1. Call = Germany!Fetch(cursor, notices, today)
  BY DEF Call
<1>2. /\ through >= today - 1 => call.done = TRUE
      /\ ~(through >= today - 1) => call.cursor.through = through
  <2>1. CASE through >= today - 1
    BY <1>1, <2>1, Zenon DEF Germany!Fetch, Germany!Result
  <2>2. CASE ~(through >= today - 1)
    BY <1>1, <2>2, Zenon DEF Germany!Fetch, Germany!Result
  <2> QED
    BY <2>1, <2>2
<1>3. cursor.through \in Int /\ today \in Int
  <2>1. cursor \in Germany!Cursor
    BY DEF TypeOK, Cursor
  <2> QED
    BY <2>1, TodayIs DEF Germany!Cursor
<1>4. last \in Int /\ (last = today - 1 \/ last > cursor.through)
  BY <1>3, DaysAdvance DEF Germany!LesserOf, Germany!StartDay
<1> QED
  BY <1>2, <1>3, <1>4 DEF Germany!GreaterOf, Onward

(* Korea: the same.                                                         *)
LEMMA KoreaAdvances ==
  ASSUME connector = "korea", Register, TypeOK, cursor # None, NEW call, call = Call
  PROVE  Onward(call)
<1> DEFINE last == Korea!WindowEnd(cursor, today)
<1>1. Call = Korea!Fetch(cursor, notices, today)
  BY DEF Call
<1>2. /\ last >= today => call.done = TRUE
      /\ ~(last >= today) => call.cursor.through = last
  <2>1. CASE last >= today
    BY <1>1, <2>1, Zenon DEF Korea!Fetch, Korea!Result
  <2>2. CASE ~(last >= today)
    BY <1>1, <2>2, Zenon DEF Korea!Fetch, Korea!Result
  <2> QED
    BY <2>1, <2>2
<1>3. cursor.through \in Int /\ today \in Int
  <2>1. cursor \in Korea!Cursor
    BY DEF TypeOK, Cursor
  <2> QED
    BY <2>1, TodayIs DEF Korea!Cursor
<1>4. last \in Int /\ (last = today \/ last > cursor.through)
  BY <1>3, WindowsAdvance DEF Korea!LesserOf, Korea!WindowEnd
<1> QED
  BY <1>2, <1>3, <1>4 DEF Onward

(* Poland: the same.                                                        *)
LEMMA PolandAdvances ==
  ASSUME connector = "poland", Register, TypeOK, cursor # None, NEW call, call = Call
  PROVE  Onward(call)
<1> DEFINE last == Poland!LesserOf(today, Poland!WindowStart(cursor, today) + Budget)
<1>1. Call = Poland!Fetch(cursor, notices, today)
  BY DEF Call
<1>2. /\ last >= today => call.done = TRUE
      /\ ~(last >= today) => call.cursor.through = last
  <2>1. CASE last >= today
    BY <1>1, <2>1, Zenon DEF Poland!Fetch, Poland!Result
  <2>2. CASE ~(last >= today)
    BY <1>1, <2>2, Zenon DEF Poland!Fetch, Poland!Result
  <2> QED
    BY <2>1, <2>2
<1>3. cursor.through \in Int /\ today \in Int
  <2>1. cursor \in Poland!Cursor
    BY DEF TypeOK, Cursor
  <2> QED
    BY <2>1, TodayIs DEF Poland!Cursor
<1>4. last \in Int /\ (last = today \/ last > cursor.through)
  BY <1>3, WindowsAdvance DEF Poland!LesserOf, Poland!WindowStart
<1> QED
  BY <1>2, <1>3, <1>4 DEF Onward

(* Estonia: a period at least is read.                                      *)
LEMMA EstoniaAdvances ==
  ASSUME connector = "estonia", Register, TypeOK, cursor # None, NEW call, call = Call
  PROVE  call.done = TRUE \/ call.cursor.next > Estonia!StartPeriod(cursor, today)
<1> DEFINE start == Estonia!StartPeriod(cursor, today)
           last == Estonia!LesserOf(today, start + Budget - 1)
<1>1. Call = Estonia!Fetch(cursor, notices, today)
  BY DEF Call
<1>2. /\ last = today => call.done = TRUE
      /\ last # today => call.cursor.next = last + 1
  <2>1. CASE last = today
    BY <1>1, <2>1, Zenon DEF Estonia!Fetch, Estonia!Result
  <2>2. CASE last # today
    BY <1>1, <2>2, Zenon DEF Estonia!Fetch, Estonia!Result
  <2> QED
    BY <2>1, <2>2
<1>3. start \in Int /\ today \in Int
  <2>1. cursor \in Estonia!Cursor
    BY DEF TypeOK, Cursor
  <2> QED
    BY <2>1, TodayIs, UnitsAre DEF Estonia!Cursor, Estonia!StartPeriod
<1>4. last = today \/ last = start + Budget - 1
  BY DEF Estonia!LesserOf
<1> HIDE DEF start, last
<1>5. last # today => call.cursor.next = start + Budget
  BY <1>2, <1>3, <1>4, UnitsAre
<1> QED
  BY <1>2, <1>3, <1>5, UnitsAre DEF start

(* United Kingdom: the windows of a call reach beyond the overlap.          *)
LEMMA UKAdvances ==
  ASSUME connector = "uk", Register, TypeOK, cursor # None, NEW call, call = Call
  PROVE  Onward(call)
<1> DEFINE end == UK!End(cursor, today)
<1>1. Call = UK!Fetch(cursor, notices, today)
  BY DEF Call
<1>2. call.done = (end = today) /\ call.cursor.through = end
  BY <1>1, Zenon DEF UK!Fetch, UK!Result
<1>3. cursor.through \in Int /\ today \in Int
  <2>1. cursor \in UK!Cursor
    BY DEF TypeOK, Cursor
  <2> QED
    BY <2>1, TodayIs DEF UK!Cursor
<1>4. Width * Windows \in Int /\ Width * Windows > Overlap
  BY ConnectorsAssumption
<1>5. end = today \/ end = cursor.through - Overlap + Width * Windows
  BY DEF UK!End, UK!LesserOf, UK!Start
<1>6. end = today \/ end > cursor.through
  BY <1>3, <1>4, <1>5, UnitsAre
<1> QED
  BY <1>2, <1>6 DEF Onward

(* Paraguay and South Africa: the same.                                     *)
LEMMA OCDSAdvances ==
  ASSUME connector \in {"paraguay", "southafrica"}, Register, TypeOK, cursor # None,
         NEW call, call = Call
  PROVE  Onward(call)
<1> DEFINE last == OCDS!LastWindow(cursor, today)
<1>1. \E rows : call = OCDS!Read(cursor, rows, today)
  <2>1. CASE connector = "paraguay"
    <3>1. Call = OCDS!DNCPFetch(cursor, notices, today)
      BY <2>1 DEF Call
    <3> QED
      BY <3>1 DEF OCDS!DNCPFetch
  <2>2. CASE connector = "southafrica"
    <3>1. Call = OCDS!ETendersFetch(cursor, notices, today)
      BY <2>2 DEF Call
    <3> QED
      BY <3>1 DEF OCDS!ETendersFetch
  <2> QED
    BY <2>1, <2>2
<1>2. call.done = (last = today) /\ call.cursor.through = last
  <2>1. PICK rows : Call = OCDS!Read(cursor, rows, today)
    BY <1>1
  <2> QED
    BY <2>1, Zenon DEF OCDS!Read, OCDS!Rows
<1>3. cursor.through \in Int /\ today \in Int
  <2>1. cursor \in OCDS!Cursor
    <3>1. CASE connector = "paraguay"
      BY <3>1 DEF TypeOK, Cursor
    <3>2. CASE connector = "southafrica"
      BY <3>2 DEF TypeOK, Cursor
    <3> QED
      BY <3>1, <3>2
  <2> QED
    BY <2>1, TodayIs DEF OCDS!Cursor
<1>4. last \in Int /\ (last = today \/ last > cursor.through)
  BY <1>3, DaysAdvance DEF OCDS!LesserOf, OCDS!LastWindow, OCDS!Start
<1> QED
  BY <1>2, <1>4 DEF Onward

(* Latvia: a daily file at least is read.                                   *)
LEMMA LatviaAdvances ==
  ASSUME connector = "latvia", Register, TypeOK, cursor # None, NEW call, call = Call
  PROVE  Onward(call)
<1> DEFINE last == Latvia!LastFile(cursor, today)
<1>1. Call = Latvia!Fetch(cursor, notices, today)
  BY DEF Call
<1>2. call.done = (last = today - 1) /\ call.cursor.through = last
  BY <1>1, Zenon DEF Latvia!Fetch, Latvia!Rows, Latvia!TargetEnd
<1>3. cursor.through \in Int /\ today - 1 \in Int
  <2>1. cursor \in Latvia!Cursor
    BY DEF TypeOK, Cursor
  <2> QED
    BY <2>1, TodayIs DEF Latvia!Cursor
<1>4. last \in Int /\ (last = today - 1 \/ last > cursor.through)
  BY <1>3, DaysAdvance DEF Latvia!LesserOf, Latvia!LastFile, Latvia!Start, Latvia!TargetEnd
<1> QED
  BY <1>2, <1>4 DEF Onward

(* Uruguay: a release at least is passed.                                   *)
LEMMA UruguayAdvances ==
  ASSUME connector = "uruguay", Register, TypeOK, UruguayKept, Tolerance <= 1, cursor # None,
         notices # {}, NEW call, call = Call
  PROVE  call.done = TRUE \/ Uruguay!Later(call.cursor, cursor)
<1> DEFINE batch == Uruguay!Batch(Uruguay!Eligible(notices, cursor))
           next == Uruguay!NextCursor(notices, cursor, today)
<1>1. call = Uruguay!Rows(next, Uruguay!Given(batch, notices, today),
                          Uruguay!Beyond(notices, next) = {},
                          Uruguay!Horizon(notices, today))
  BY UruguayIs, Zenon DEF Uruguay!Fetch
<1>2. /\ call.cursor = next
      /\ call.done = (Uruguay!Beyond(notices, next) = {})
  <2> DEFINE given == Uruguay!Given(batch, notices, today)
             horizon == Uruguay!Horizon(notices, today)
             none == Uruguay!Beyond(notices, next) = {}
  <2>1. Call = Uruguay!Rows(next, given, none, horizon)
    BY <1>1
  <2> HIDE DEF next, given, none, horizon
  <2>2. call.cursor = next /\ call.done = none
    BY <2>1, Zenon DEF Uruguay!Rows
  <2> QED
    BY <2>2, Zenon DEF none
<1>3. cursor \in Uruguay!Cursor /\ Reached(cursor)
  BY UruguayIs DEF TypeOK, UruguayKept
<1>4. Uruguay!Beyond(notices, next) # {} => Uruguay!Later(next, cursor)
  BY <1>3, NextCursorIs
<1> QED
  BY <1>2, <1>4

-----------------------------------------------------------------------------
(* What each connector keeps between two polls.                             *)
Kept ==
  /\ connector = "lithuania" => LithuaniaKept
  /\ connector = "canada" => CanadaKept
  /\ connector = "switzerland" => SwitzerlandKept
  /\ connector = "ecuador" => EcuadorKept
  /\ connector = "uk" => UKKept
  /\ connector = "us" => USKept
  /\ connector = "paraguay" => ParaguayKept
  /\ connector \in {"southafrica", "latvia"} => TendersKept
  /\ connector = "colombia" => ColombiaKept
  /\ connector \in {"italy", "korea"} => EnteredKept
  /\ connector = "netherlands" => NetherlandsKept
  /\ connector = "estonia" => EstoniaKept
  /\ connector = "poland" => PolandKept
  /\ connector = "germany" => GermanyKept
  /\ connector = "uruguay" => UruguayKept

(* Uruguay answers for a cursor whose release left the feed as soon as the  *)
(* next one is its oldest.                                                  *)
Reliable == connector = "uruguay" => Tolerance <= 1

Answers == Kept /\ Complete

(* The inductive invariant.                                                 *)
Inv ==
  /\ Register /\ Orderly /\ ClosedLast
  /\ TypeOK /\ Screen /\ Stated /\ Sound
  /\ Reliable => Answers

(* A poll keeps Inv, by the lemma of its connector.                         *)
LEMMA PollKeeps ==
  ASSUME Inv, Poll
  PROVE  Inv'
<1>1. /\ Register' /\ connector' = connector /\ notices' = notices
  BY RegisterRest DEF Inv
<1>2. Orderly' /\ ClosedLast'
  BY <1>1, OrderlyRest, ClosedLastRest DEF Inv
<1>3. Reliable' <=> Reliable
  BY <1>1 DEF Reliable
<1>4. connector \in AllConnectors
  BY ConnectorsAssumption DEF Inv, Register
<1> USE DEF Inv, Answers, Kept, Stated
<1>5. CASE connector = "lithuania"
  BY <1>1, <1>2, <1>3, <1>5, LithuaniaPoll DEF Reliable
<1>6. CASE connector = "canada"
  BY <1>1, <1>2, <1>3, <1>6, CanadaPoll DEF Reliable
<1>7. CASE connector = "switzerland"
  BY <1>1, <1>2, <1>3, <1>7, SwitzerlandPoll DEF Reliable
<1>8. CASE connector = "ecuador"
  BY <1>1, <1>2, <1>3, <1>8, EcuadorPoll DEF Reliable
<1>9. CASE connector = "uk"
  BY <1>1, <1>2, <1>3, <1>9, UKPoll DEF Reliable
<1>10. CASE connector = "us"
  BY <1>1, <1>2, <1>3, <1>10, USPoll DEF Reliable
<1>11. CASE connector = "paraguay"
  BY <1>1, <1>2, <1>3, <1>11, ParaguayPoll DEF Reliable
<1>12. CASE connector = "southafrica"
  BY <1>1, <1>2, <1>3, <1>12, SouthAfricaPoll DEF Reliable
<1>13. CASE connector = "latvia"
  BY <1>1, <1>2, <1>3, <1>13, LatviaPoll DEF Reliable
<1>14. CASE connector = "colombia"
  BY <1>1, <1>2, <1>3, <1>14, ColombiaPoll DEF Reliable
<1>15. CASE connector = "italy"
  BY <1>1, <1>2, <1>3, <1>15, ItalyPoll DEF Reliable
<1>16. CASE connector = "korea"
  BY <1>1, <1>2, <1>3, <1>16, KoreaPoll DEF Reliable
<1>17. CASE connector = "netherlands"
  BY <1>1, <1>2, <1>3, <1>17, NetherlandsPoll DEF Reliable
<1>18. CASE connector = "estonia"
  BY <1>1, <1>2, <1>3, <1>18, EstoniaPoll DEF Reliable
<1>19. CASE connector = "poland"
  BY <1>1, <1>2, <1>3, <1>19, PolandPoll DEF Reliable
<1>20. CASE connector = "germany"
  BY <1>1, <1>2, <1>3, <1>20, GermanyPoll DEF Reliable
<1>21. CASE connector = "uruguay"
  <2>1. (TypeOK /\ Screen /\ Stated /\ Sound)'
    BY <1>21, UruguayRows
  <2>2. Reliable => (UruguayKept /\ Complete)'
    BY <1>21, UruguayPoll DEF Reliable
  <2> QED
    BY <1>1, <1>2, <1>3, <1>21, <2>1, <2>2
<1> QED
  BY <1>4, <1>5, <1>6, <1>7, <1>8, <1>9, <1>10, <1>11, <1>12, <1>13, <1>14, <1>15, <1>16,
     <1>17, <1>18, <1>19, <1>20, <1>21 DEF AllConnectors, Plain

(* What a step other than a poll leaves alone.                              *)
LEMMA QuietType ==
  ASSUME Register, TypeOK, Screen, polled' = None,
         connector' = connector, cursor' = cursor, first' = first, listed' = listed,
         shown' = shown, Register', today' >= today
  PROVE  TypeOK' /\ Screen'
<1>1. today \in Nat /\ today' \in 0 .. MaxDay /\ today' \in Nat
  BY TodayIs DEF Register
<1>2. TypeOK'
  BY <1>1, SameCursor DEF TypeOK, Register
<1>3. Screen'
  <2>1. \A l \in Lot : listed[l] \in Int
    BY DEF TypeOK
  <2>2. \A l \in Lot : Shown(l)' => Shown(l)
    BY <1>1, <2>1 DEF Shown
  <2> QED
    BY <2>2 DEF Screen
<1> QED
  BY <1>2, <1>3

(* Complete and Sound are about polls.                                      *)
LEMMA QuietAnswers ==
  ASSUME polled' = None
  PROVE  Complete' /\ Sound'
BY DEF Complete, Sound, Caught

(* A publication keeps Inv.                                                 *)
LEMMA PublishKeeps ==
  ASSUME Inv, NEW l \in LotsOf[connector], Publish(l)
  PROVE  Inv'
<1>1. PICK n : New(n, l)
  BY PublishedIsNew DEF Inv
<1>2. l \in Lot
  BY PublishedIsNew DEF Inv
<1>3. Register' /\ Orderly' /\ ClosedLast'
  BY <1>1, <1>2, RegisterPublish, OrderlyPublish, ClosedLastPublish DEF Inv
<1>4. /\ polled' = None /\ connector' = connector /\ today' = today /\ cursor' = cursor
      /\ first' = first /\ listed' = listed /\ shown' = shown
  BY <1>1 DEF New
<1>5. today' >= today
  BY <1>4, TodayIs DEF Inv
<1>6. TypeOK' /\ Screen' /\ Complete' /\ Sound' /\ Stated'
  <2>1. TypeOK' /\ Screen'
    BY <1>3, <1>4, <1>5, QuietType DEF Inv
  <2>2. Stated'
    <3>1. \A k \in Lot : Mine(k) # {} => Mine(k)' # {}
      BY <1>1 DEF New, Mine
    <3> QED
      BY <1>4, <3>1 DEF Inv, Stated
  <2> QED
    BY <1>4, <2>1, <2>2, QuietAnswers
<1>7. Kept => Kept'
  <2> SUFFICES ASSUME Kept PROVE Kept'
    OBVIOUS
  <2>1. connector = "lithuania" => LithuaniaKept'
    BY <1>4 DEF Kept, LithuaniaKept
  <2> USE <1>1, <1>2 DEF Inv, Kept
  <2>2. connector = "canada" => CanadaKept'
    BY CanadaRest
  <2>3. connector = "switzerland" => SwitzerlandKept'
    BY SwitzerlandRest
  <2>4. connector = "ecuador" => EcuadorKept'
    BY EcuadorRest
  <2>5. connector = "uk" => UKKept'
    BY UKRest
  <2>6. connector = "us" => USKept'
    BY USRest
  <2>7. connector = "paraguay" => ParaguayKept'
    BY ParaguayRest
  <2>8. connector \in {"southafrica", "latvia"} => TendersKept'
    BY TendersRest
  <2>9. connector = "colombia" => ColombiaKept'
    BY ColombiaRest
  <2>10. connector \in {"italy", "korea"} => EnteredKept'
    BY EnteredRest
  <2>11. connector = "netherlands" => NetherlandsKept'
    BY NetherlandsRest
  <2>12. connector = "estonia" => EstoniaKept'
    BY EstoniaRest
  <2>13. connector = "poland" => PolandKept'
    BY PolandRest
  <2>14. connector = "germany" => GermanyKept'
    BY GermanyRest
  <2>15. connector = "uruguay" => UruguayKept'
    BY UruguayRest
  <2> QED
    BY <1>4, <2>1, <2>2, <2>3, <2>4, <2>5, <2>6, <2>7, <2>8, <2>9, <2>10, <2>11, <2>12,
       <2>13, <2>14, <2>15
<1> QED
  BY <1>3, <1>4, <1>6, <1>7 DEF Inv, Answers, Reliable

(* So does a day that passes.                                               *)
LEMMA NextDayKeeps ==
  ASSUME Inv, NextDay
  PROVE  Inv'
<1>1. /\ polled' = None /\ connector' = connector /\ cursor' = cursor /\ notices' = notices
      /\ first' = first /\ listed' = listed /\ shown' = shown
  BY DEF NextDay
<1>2. Register' /\ today' >= today
  BY RegisterRest DEF Inv
<1>3. Orderly' /\ ClosedLast'
  BY <1>1, OrderlyRest, ClosedLastRest DEF Inv
<1>4. TypeOK' /\ Screen' /\ Complete' /\ Sound' /\ Stated'
  <2>1. TypeOK' /\ Screen'
    BY <1>1, <1>2, QuietType DEF Inv
  <2>2. Stated'
    BY <1>1 DEF Inv, Stated, Mine
  <2> QED
    BY <1>1, <2>1, <2>2, QuietAnswers
<1>5. Kept => Kept'
  <2> SUFFICES ASSUME Kept PROVE Kept'
    OBVIOUS
  <2>1. connector = "lithuania" => LithuaniaKept'
    BY <1>1 DEF Kept, LithuaniaKept
  <2> USE DEF Inv, Kept
  <2>2. connector = "canada" => CanadaKept'
    BY CanadaRest
  <2>3. connector = "switzerland" => SwitzerlandKept'
    BY SwitzerlandRest
  <2>4. connector = "ecuador" => EcuadorKept'
    BY EcuadorRest
  <2>5. connector = "uk" => UKKept'
    BY UKRest
  <2>6. connector = "us" => USKept'
    BY USRest
  <2>7. connector = "paraguay" => ParaguayKept'
    BY ParaguayRest
  <2>8. connector \in {"southafrica", "latvia"} => TendersKept'
    BY TendersRest
  <2>9. connector = "colombia" => ColombiaKept'
    BY ColombiaRest
  <2>10. connector \in {"italy", "korea"} => EnteredKept'
    BY EnteredRest
  <2>11. connector = "netherlands" => NetherlandsKept'
    BY NetherlandsRest
  <2>12. connector = "estonia" => EstoniaKept'
    BY EstoniaRest
  <2>13. connector = "poland" => PolandKept'
    BY PolandRest
  <2>14. connector = "germany" => GermanyKept'
    BY GermanyRest
  <2>15. connector = "uruguay" => UruguayKept'
    BY UruguayRest
  <2> QED
    BY <1>1, <2>1, <2>2, <2>3, <2>4, <2>5, <2>6, <2>7, <2>8, <2>9, <2>10, <2>11, <2>12,
       <2>13, <2>14, <2>15
<1> QED
  BY <1>1, <1>2, <1>3, <1>4, <1>5 DEF Inv, Answers, Reliable

(* Nothing changes in a call that raises, nor in a step that is none.        *)
Still == UNCHANGED <<connector, today, notices, cursor, first, listed, shown>>

(* Where nothing of the register and the cursor changes, neither does what  *)
(* is said of them.                                                         *)
LEMMA StillMeans ==
  ASSUME Still
  PROVE  /\ \A l : Mine(l)' = Mine(l)
         /\ \A ns : Tenders(ns)' = Tenders(ns)
         /\ \A ns : Newest(ns)' = Newest(ns)
         /\ \A ns : Dated(ns)' = Dated(ns)
         /\ \A ns : DeadlineOf(ns)' = DeadlineOf(ns)
         /\ \A l, day : Of(l, day)' = Of(l, day)
         /\ \A ns : OpenBy(ns)' <=> OpenBy(ns)
         /\ \A d : Future(d, today)' <=> Future(d, today)
BY DEF Still, Mine, Tenders, Newest, Dated, DeadlineOf, Of, OpenBy, Future

(* Nor what a cursor knows.                                                 *)
LEMMA StillKept ==
  ASSUME Still, Kept
  PROVE  Kept'
<1>0. \A l : Mine(l)' = Mine(l) /\ Morning(l)' = Morning(l)
  BY DEF Still, Mine, Morning, Of
<1> USE DEF Still, Kept
<1>1. connector = "lithuania" => LithuaniaKept'
  BY DEF LithuaniaKept
<1>2. connector = "canada" => CanadaKept'
  <2>1. \A l \in Lot : NewView(l)' = NewView(l)
    BY <1>0 DEF NewView, Tenders
  <2>2. \A l \in Lot : /\ OpenBy(Morning(l))' <=> OpenBy(Morning(l))
                       /\ OpenBy(NewView(l))' <=> OpenBy(NewView(l))
    BY <1>0, <2>1 DEF OpenBy
  <2>3. ASSUME CanadaKept PROVE CanadaKept'
    <3>1. UNCHANGED <<today, cursor, listed>>
      OBVIOUS
    <3> HIDE DEF Still, Kept
    <3>2. CASE cursor # None
      BY <2>2, <2>3, <3>1, <3>2 DEF CanadaKept
    <3>3. CASE cursor = None
      BY <3>1, <3>3 DEF CanadaKept
    <3> QED
      BY <3>2, <3>3
  <2> QED
    BY <2>3
<1>3. connector = "switzerland" => SwitzerlandKept'
  BY DEF SwitzerlandKept, Mine, Newest, Elapsed
<1>4. connector = "ecuador" => EcuadorKept'
  <2>1. \A l : OpenBy(Mine(l))' <=> OpenBy(Mine(l))
    BY <1>0 DEF OpenBy
  <2> QED
    BY <2>1, <1>0 DEF EcuadorKept
<1>5. connector = "uk" => UKKept'
  BY DEF UKKept, OpenBy, Mine, Newest, Dated, DeadlineOf, Future
<1>6. connector = "us" => USKept'
  BY DEF USKept, OpenBy, Of, Mine, Newest, Dated, DeadlineOf, Future
<1>7. connector = "paraguay" => ParaguayKept'
  BY DEF ParaguayKept, Mine, Newest, OCDS!RowDeadline, OCDS!DeadlineOf, OCDS!Dated, OCDS!Newest
<1>8. connector \in {"southafrica", "latvia"} => TendersKept'
  BY DEF TendersKept, Mine, Future
<1>9. connector = "colombia" => ColombiaKept'
  BY DEF ColombiaKept, Mine, Newest, Colombia!RowDeadline, Colombia!DeadlineOf, Colombia!Dated,
         Colombia!Newest
<1>10. connector \in {"italy", "korea"} => EnteredKept'
  BY DEF EnteredKept, Agrees, Resumed, Mine, Newest, Elapsed, Visible
<1>11. connector = "netherlands" => NetherlandsKept'
  BY DEF NetherlandsKept, Settled, Mine, Newest, Elapsed, Visible
<1>12. connector = "estonia" => EstoniaKept'
  BY DEF EstoniaKept, Recorded, NextMonth, Mine, Newest, Future, Visible, Closed
<1>13. connector = "poland" => PolandKept'
  <2>1. \A l, start : PolandLot(l, start)' <=> PolandLot(l, start)
    <3>1. \A l : OpenBy(Mine(l))' <=> OpenBy(Mine(l))
      BY <1>0 DEF OpenBy
    <3> QED
      BY <1>0, <3>1 DEF PolandLot, Visible
  <2> QED
    BY <2>1 DEF PolandKept
<1>14. connector = "germany" => GermanyKept'
  BY DEF GermanyKept, Booked, Remembers, Earlier, UpTo, Germany!Current, Mine, Tenders, Newest,
         Dated, DeadlineOf, Elapsed, Visible, Pending
<1>15. connector = "uruguay" => UruguayKept'
  BY DEF UruguayKept, Reached, Mine, Newest, Dated, DeadlineOf, Future, Uruguay!Beyond
<1> QED
  BY <1>1, <1>2, <1>3, <1>4, <1>5, <1>6, <1>7, <1>8, <1>9, <1>10, <1>11, <1>12, <1>13, <1>14,
     <1>15

(* A call that raises keeps Inv.                                            *)
LEMMA RaisingKeeps ==
  ASSUME Inv, FailedPoll
  PROVE  Inv'
<1>1. Still /\ polled' = None
  BY DEF FailedPoll, Still
<1>2. Register' /\ today' >= today
  BY RegisterRest DEF Inv
<1>3. Orderly' /\ ClosedLast'
  BY <1>1, OrderlyRest, ClosedLastRest DEF Inv, Still
<1>4. TypeOK' /\ Screen' /\ Complete' /\ Sound'
  BY <1>1, <1>2, QuietType, QuietAnswers DEF Inv, Still
<1>5. Stated'
  BY <1>1 DEF Inv, Stated, Still, Mine
<1> QED
  BY <1>1, <1>2, <1>3, <1>4, <1>5, StillKept DEF Inv, Answers, Reliable, Still

(* So does no step at all.                                                  *)
LEMMA StutterKeeps ==
  ASSUME Inv, UNCHANGED vars
  PROVE  Inv'
<1>1. Still /\ polled' = polled
  BY DEF vars, Still
<1>2. Register' /\ today' >= today
  BY RegisterRest DEF Inv
<1>3. Orderly' /\ ClosedLast'
  BY <1>1, OrderlyRest, ClosedLastRest DEF Inv, Still
<1>4. TypeOK'
  BY <1>1, SameCursor DEF Inv, TypeOK, Still
<1>5. Screen' /\ Stated'
  BY <1>1 DEF Inv, Screen, Shown, Stated, Still, Mine
<1>6. Complete => Complete'
  <2>1. /\ \A l : Views(l)' = Views(l)
        /\ \A l : Superseded(l)' <=> Superseded(l)
        /\ \A l : Shown(l)' <=> Shown(l)
    BY <1>1, StillMeans DEF Views, Superseded, Shown, Still
  <2>2. \A l : Forgotten(l)' <=> Forgotten(l)
    BY <1>1, StillMeans DEF Forgotten, Still
  <2>3. Caught' <=> Caught
    BY <1>1 DEF Caught
  <2>4. \A ns : OpenBy(ns)' <=> OpenBy(ns)
    BY <1>1, StillMeans
  <2> HIDE DEF Still
  <2>5. SUFFICES ASSUME Complete, Caught, NEW l \in Lot, ~Superseded(l), ~Forgotten(l),
                        \A ns \in Views(l) :
                          (OpenBy(ns) /\ Newest({n \in ns : n.kind = "tender"}).day >= first)'
                 PROVE  Shown(l)
    BY <2>1, <2>2, <2>3 DEF Complete
  <2>6. first' = first
    BY <1>1 DEF Still
  <2> QED
    BY <2>4, <2>5, <2>6 DEF Complete
<1>7. Sound'
  <2>1. \A l : Views(l)' = Views(l)
    BY <1>1, StillMeans DEF Views, Still
  <2>2. \A l : Remains(l)' <=> Remains(l)
    BY <1>1, <2>1, StillMeans DEF Remains, Elapsed, Still
  <2> QED
    BY <1>1, <2>2 DEF Inv, Sound, Caught, Shown, Still
<1> QED
  BY <1>1, <1>2, <1>3, <1>4, <1>5, <1>6, <1>7, StillKept DEF Inv, Answers, Reliable, Still

(* Inv holds at first,                                                      *)
LEMMA InitInv ==
  ASSUME Init
  PROVE  Inv
<1>1. Register /\ Orderly /\ ClosedLast
  BY RegisterInit, OrderlyRest, ClosedLastRest
<1>2. TypeOK
  BY <1>1 DEF Init, TypeOK, Register
<1>3. Screen /\ Stated
  BY DEF Init, Screen, Stated, Shown
<1>4. Complete /\ Sound
  BY DEF Init, Complete, Sound, Caught
<1>5. Kept
  BY DEF Init, Kept, LithuaniaKept, CanadaKept, SwitzerlandKept, EcuadorKept, UKKept, USKept,
         ParaguayKept, TendersKept, ColombiaKept, EnteredKept, NetherlandsKept, EstoniaKept,
         PolandKept, GermanyKept, UruguayKept
<1> QED
  BY <1>1, <1>2, <1>3, <1>4, <1>5 DEF Inv, Answers

(* and is kept by every step.                                               *)
LEMMA StepInv ==
  ASSUME Inv, [Next]_vars
  PROVE  Inv'
<1>1. ASSUME NEW l \in LotsOf[connector], Publish(l) PROVE Inv'
  BY <1>1, PublishKeeps
<1>2. CASE NextDay
  BY <1>2, NextDayKeeps
<1>3. CASE Poll
  BY <1>3, PollKeeps
<1>4. CASE FailedPoll
  BY <1>4, RaisingKeeps
<1>5. CASE UNCHANGED vars
  BY <1>5, StutterKeeps
<1> QED
  BY <1>1, <1>2, <1>3, <1>4, <1>5 DEF Next

(* The inductive invariant: in every reachable state the register is        *)
(* ordered, the cursor knows what Kept says and the answers of the last     *)
(* call were right. It is what the fetch_incremental of each connector      *)
(* relies on when it takes up the stored cursor                             *)
(* (incremental_runtime_plugin.py:55-110).                                  *)
THEOREM Invariance == Spec => []Inv
<1>1. Init => Inv
  BY InitInv
<1>2. Inv /\ [Next]_vars => Inv'
  BY StepInv
<1> QED
  BY <1>1, <1>2, PTL DEF Spec

(* Every cursor stored is one its connector decodes (the _decode_cursor of  *)
(* each), and every answer has its types.                                   *)
THEOREM TypeCorrect == Spec => []TypeOK
<1>1. Inv => TypeOK
  BY DEF Inv
<1> QED
  BY <1>1, Invariance, PTL

(* Nothing stays: after a call that reads up to the present every lot shown *)
(* is one that may remain, and no tombstone is about a lot never shown (the *)
(* was_visible flags of the connectors, italy_anac_pvl.py:585,              *)
(* poland_bzp.py:514-517).                                                  *)
THEOREM SoundHolds == Spec => []Sound
<1>1. Inv => Sound
  BY DEF Inv
<1> QED
  BY <1>1, Invariance, PTL

(* Nothing is missed: after such a call every lot the register has open is  *)
(* shown, whatever was published during an outage, between two calls or     *)
(* with an earlier date (fetch_incremental of each connector). Uruguay's    *)
(* feed counts as reaching back to the cursor when its oldest release is no *)
(* more than the tolerance later (horizon_probe, uruguay_arce.py:337-343):  *)
(* with a tolerance of more than one release, one that has left the feed is *)
(* lost. So Uruguay is excepted then (Reliable), and no other connector is, *)
(* whatever the constants.                                                  *)
THEOREM CompleteHolds == Spec => [](Reliable => Complete)
<1>1. Inv => (Reliable => Complete)
  BY DEF Inv, Answers
<1> QED
  BY <1>1, Invariance, PTL

(* However long the outage, polls reach the present: a call that does not   *)
(* leaves less to read than it found (the budgets of the calls, such as     *)
(* max_days_per_sync in germany_doe.py:811-859). Which connector is         *)
(* followed never changes, so that Reliable, if at all, holds from the      *)
(* start.                                                                   *)
THEOREM AdvancesHolds == Spec => (Reliable => Advances)
<1>1. ASSUME Inv, Reliable, [Next]_vars, polled' # None, ~polled'.done, cursor # None,
             vars' # vars
      PROVE  Progress
  <2>1. Poll
    BY <1>1 DEF Next, Publish, NextDay, FailedPoll, vars
  <2>2. PICK call : call = Call
    OBVIOUS
  <2>3. call.done # TRUE /\ cursor' = call.cursor /\ ~Raises
    <3>1. /\ polled' = [done |-> call.done, withdrawn |-> Withdrawn(call)]
          /\ cursor' = call.cursor /\ ~Raises
      BY <2>1, <2>2, PollParts
    <3>2. polled'.done = call.done
      BY <3>1
    <3> QED
      BY <1>1, <3>1, <3>2, Zenon
  <2>4. /\ connector \in AllConnectors /\ Reliable /\ Register /\ TypeOK /\ Kept
    BY <1>1, ConnectorsAssumption DEF Inv, Register, Answers
  <2>5. CASE connector = "estonia"
    BY <1>1, <2>2, <2>3, <2>4, <2>5, EstoniaAdvances DEF Progress
  <2>6. CASE connector = "uruguay"
    <3>1. notices # {} /\ UruguayKept /\ Tolerance <= 1
      BY <2>3, <2>4, <2>6, UruguayIs DEF Kept, Reliable
    <3> QED
      BY <1>1, <2>2, <2>3, <2>4, <2>6, <3>1, UruguayAdvances DEF Progress
  <2>7. CASE connector \notin {"estonia", "uruguay"}
    <3>1. Onward(call)
      BY <1>1, <2>2, <2>4, <2>7, AlwaysDone, ItalyAdvances, GermanyAdvances, KoreaAdvances,
         PolandAdvances, UKAdvances, OCDSAdvances, LatviaAdvances
         DEF AllConnectors, Plain, Onward
    <3> QED
      BY <2>3, <2>7, <3>1 DEF Progress, Onward
  <2> QED
    BY <2>5, <2>6, <2>7
<1>2. Inv /\ Reliable /\ [Next]_vars =>
        [polled' # None /\ ~polled'.done /\ cursor # None => Progress]_vars
  BY <1>1
<1>3. Reliable /\ [Next]_vars => Reliable'
  BY DEF Reliable, Next, Publish, NextDay, Poll, FailedPoll, vars
<1> QED
  BY <1>2, <1>3, Invariance, PTL DEF Advances, Spec
=============================================================================
