----------------------------- MODULE Connectors -----------------------------
(***************************************************************************)
(* A national connector polled against its register.  The register         *)
(* publishes; each poll hands fetch_incremental the stored cursor, stores  *)
(* the one it returns and shows or withdraws the lots it observed.  A poll *)
(* may come at any time and any number of units may pass without one: an   *)
(* outage.  A poll that raises changes nothing.                            *)
(*                                                                         *)
(* One behaviour follows one of the connectors, chosen at the start.  Nine *)
(* keep track of what they have shown, and the shared families behind the  *)
(* others do so in part or not at all (see Remains).                       *)
(***************************************************************************)
EXTENDS PublicRegister

CONSTANTS
  Retention, StateLimit, HydrationLimit,     \* limits of three connectors
  Width, Windows,                            \* of the UK's windows
  Live, Events, Tolerance,                   \* of Uruguay's feed
  Connector,      \* the connectors followed
  LotsOf,         \* bound: the lots each one's register publishes about
  Republishes,    \* those whose register may publish a tender again
  Deadlines,      \* bound: the deadlines tenders may have
  MaxNotices,     \* bound: notices published
  MaxDay          \* bound: the register's clock

(* The connectors whose rows carry no lifecycle.                            *)
Plain == {"paraguay", "southafrica", "latvia", "colombia", "uruguay"}

AllConnectors ==
  {"italy", "korea", "germany", "poland", "netherlands", "estonia", "lithuania",
   "canada", "switzerland", "uk", "ecuador", "us"} \cup Plain

(* Those whose registers publish a procedure again.                         *)
Republishing ==
  {"italy", "korea", "germany", "netherlands", "estonia", "lithuania", "switzerland"}

ASSUME ConnectorsAssumption ==
  /\ Connector \subseteq AllConnectors /\ Republishes \subseteq Republishing
  /\ {Retention, StateLimit, HydrationLimit, Width, Windows, Tolerance} \subseteq Nat
  /\ Live \in Nat \ {0} /\ Events \in Nat \ {0}
  /\ Width * Windows > Overlap             \* each call reads beyond the overlap
  /\ MaxNotices \in Nat /\ MaxDay \in 0 .. Undated - 1
  /\ None \notin Int /\ None \notin Lot
  /\ LotsOf \in [Connector -> SUBSET Lot]
  /\ Deadlines \in [Connector -> SUBSET (Int \cup {None})]
  /\ "canada" \in Connector => None \notin Deadlines["canada"]

VARIABLES
  connector,
  today,
  notices,
  cursor,         \* the stored watermark
  first,          \* the first unit read (None before the first poll)
  listed,         \* until when each lot is shown as open
  shown,          \* the lots ever shown
  polled          \* the poll that was the last thing to happen, or None

vars == <<connector, today, notices, cursor, first, listed, shown, polled>>

Italy == INSTANCE ItalyPVL
Korea == INSTANCE KoreaKONEPS
Germany == INSTANCE GermanyDOE
Poland == INSTANCE PolandBZP
Netherlands == INSTANCE TenderNed
Estonia == INSTANCE EstoniaRHR
Lithuania == INSTANCE LithuaniaVPT
Canada == INSTANCE CanadaBuys
Switzerland == INSTANCE SIMAP
UK == INSTANCE UKFindTender
Ecuador == INSTANCE EcuadorSERCOP
US == INSTANCE USSam
OCDS == INSTANCE OCDSDayWindows
Latvia == INSTANCE LatviaIUB
Colombia == INSTANCE ColombiaSECOP
Uruguay == INSTANCE UruguayARCE

(* None is no cursor, and no entry of one.                                  *)
ASSUME NoneAssumption ==
  /\ None \notin Italy!Cursor \cup Italy!LotState
  /\ None \notin Korea!Cursor \cup Korea!BidState
  /\ None \notin Germany!Cursor \cup Germany!LotState
  /\ None \notin Poland!Cursor \cup Poland!Procedure
  /\ None \notin Netherlands!Cursor \cup Netherlands!Procedure
  /\ None \notin Estonia!Cursor \cup Estonia!LotState
  /\ None \notin Lithuania!Cursor \cup Lithuania!Row
  /\ None \notin Canada!Cursor \cup Switzerland!Cursor \cup UK!Cursor
  /\ None \notin Ecuador!Cursor \cup US!Cursor \cup OCDS!Cursor
  /\ None \notin Latvia!Cursor \cup Colombia!Cursor \cup Uruguay!Cursor

Cursor ==
  CASE connector = "italy" -> Italy!Cursor
    [] connector = "korea" -> Korea!Cursor
    [] connector = "germany" -> Germany!Cursor
    [] connector = "poland" -> Poland!Cursor
    [] connector = "netherlands" -> Netherlands!Cursor
    [] connector = "estonia" -> Estonia!Cursor
    [] connector = "lithuania" -> Lithuania!Cursor
    [] connector = "canada" -> Canada!Cursor
    [] connector = "switzerland" -> Switzerland!Cursor
    [] connector = "uk" -> UK!Cursor
    [] connector = "ecuador" -> Ecuador!Cursor
    [] connector = "us" -> US!Cursor
    [] connector = "paraguay" -> OCDS!Cursor
    [] connector = "southafrica" -> OCDS!Cursor
    [] connector = "latvia" -> Latvia!Cursor
    [] connector = "colombia" -> Colombia!Cursor
    [] connector = "uruguay" -> Uruguay!Cursor

Call ==
  CASE connector = "italy" -> Italy!Fetch(cursor, notices, today)
    [] connector = "korea" -> Korea!Fetch(cursor, notices, today)
    [] connector = "germany" -> Germany!Fetch(cursor, notices, today)
    [] connector = "poland" -> Poland!Fetch(cursor, notices, today)
    [] connector = "netherlands" -> Netherlands!Fetch(cursor, notices, today)
    [] connector = "estonia" -> Estonia!Fetch(cursor, notices, today)
    [] connector = "lithuania" -> Lithuania!Fetch(cursor, notices, today)
    [] connector = "canada" -> Canada!Fetch(cursor, notices, today)
    [] connector = "switzerland" -> Switzerland!Fetch(cursor, notices, today)
    [] connector = "uk" -> UK!Fetch(cursor, notices, today)
    [] connector = "ecuador" -> Ecuador!Fetch(cursor, notices, today)
    [] connector = "us" -> US!Fetch(cursor, notices, today)
    [] connector = "paraguay" -> OCDS!DNCPFetch(cursor, notices, today)
    [] connector = "southafrica" -> OCDS!ETendersFetch(cursor, notices, today)
    [] connector = "latvia" -> Latvia!Fetch(cursor, notices, today)
    [] connector = "colombia" -> Colombia!Fetch(cursor, notices, today)
    [] connector = "uruguay" -> Uruguay!Fetch(cursor, notices, today)

(* The kinds of notice each register publishes.                             *)
Kinds ==
  CASE connector = "italy" -> Italy!Kinds
    [] connector = "korea" -> Korea!Kinds
    [] connector = "germany" -> Germany!Kinds
    [] connector = "poland" -> Poland!Kinds
    [] connector = "netherlands" -> Netherlands!Kinds
    [] connector = "estonia" -> Estonia!Kinds
    [] connector = "lithuania" -> Lithuania!Kinds
    [] connector = "canada" -> Canada!Kinds
    [] connector = "switzerland" -> Switzerland!Kinds
    [] connector = "uk" -> UK!Kinds
    [] connector = "ecuador" -> Ecuador!Kinds
    [] connector = "us" -> US!Kinds
    [] connector = "paraguay" -> OCDS!Kinds
    [] connector = "southafrica" -> OCDS!Kinds
    [] connector = "latvia" -> Latvia!Kinds
    [] connector = "colombia" -> Colombia!Kinds
    [] connector = "uruguay" -> Uruguay!Kinds

-----------------------------------------------------------------------------
(* What the register says of a lot (external).                              *)

Of(l, day) == {n \in notices : n.lot = l /\ n.day <= day}

(* Open, by some of the notices of a lot; in Switzerland only once it may   *)
(* be communicated.                                                         *)
OpenBy(ns) ==
  /\ ns # {}
  /\ Newest(ns).kind \in {"tender", "correct", "reopen"}
  /\ Dated(ns) # {} /\ Future(DeadlineOf(ns), today)
  /\ connector = "switzerland" => Newest(ns).day < today

(* The notices a poll may go by: Germany and Latvia close a day before it   *)
(* is read, the United States make a snapshot when the day begins; Canada   *)
(* does too, and its New file adds what is tendered, never what is closed.  *)
Views(l) ==
  CASE connector \in {"germany", "latvia", "us"} -> {Of(l, today - 1)}
    [] connector = "canada" ->
         {Of(l, today - 1), Of(l, today),
          Of(l, today - 1) \cup {n \in Of(l, today) : n.kind = "tender"}}
    [] OTHER -> {Of(l, today)}

(* A notice may still be dated the unit before the present, where the       *)
(* connector reads an overlap to find it.  Nothing is dated before a        *)
(* correction it follows.                                                   *)
Datable ==
  IF connector \in {"germany", "korea", "poland", "netherlands", "switzerland", "uk"}
  THEN {d \in {today - 1, today} : d >= 0} ELSE {today}

Publishable(l, kind, deadline, day) ==
  LET tendered == {n.day : n \in {t \in Of(l, today) : t.kind = "tender"}}
  IN CASE kind = "tender" ->
            /\ connector \notin Republishes => tendered = {}
            /\ deadline \in Deadlines[connector]
       [] kind = "correct" -> deadline # None /\ OpenBy(Of(l, today))
       [] OTHER -> deadline = None /\ \E d \in tendered : d <= day

-----------------------------------------------------------------------------
Init ==
  /\ connector \in Connector
  /\ today = 0 /\ notices = {}
  /\ cursor = None /\ first = None
  /\ listed = [l \in Lot |-> 0] /\ shown = {}
  /\ polled = None

Publish(l) ==
  /\ Cardinality(notices) < MaxNotices
  /\ \E kind \in Kinds, deadline \in Deadlines[connector] \cup {None}, day \in Datable :
       /\ Publishable(l, kind, deadline, day)
       /\ \A n \in notices : n.kind = "correct" => n.day <= day
       /\ notices' = notices \cup
            {[lot |-> l, kind |-> kind, deadline |-> deadline, day |-> day,
              at |-> day * (MaxNotices + 1) + Cardinality(notices)]}
  /\ polled' = None
  /\ UNCHANGED <<connector, today, cursor, first, listed, shown>>

NextDay ==
  /\ today < MaxDay
  /\ today' = today + 1
  /\ polled' = None
  /\ UNCHANGED <<connector, notices, cursor, first, listed, shown>>

(* Until when a lot is shown once a call's observations are applied: an     *)
(* explicit observation holds until the next one, a row without a lifecycle *)
(* until its deadline (actionable_predicate).                               *)
Listed(call, l) ==
  IF connector \in Plain
  THEN IF call.until[l] = None THEN listed[l] ELSE call.until[l]
  ELSE CASE call.seen[l] = "open" -> Undated
         [] call.seen[l] = "closed" -> 0
         [] OTHER -> listed[l]

(* The lots a call withdraws.                                               *)
Withdrawn(call) ==
  IF connector \in Plain THEN {} ELSE {l \in Lot : call.seen[l] = "closed"}

(* Ecuador's bulk files of some months were never read.                     *)
Gap == connector = "ecuador" /\ Ecuador!Gap(cursor, today)

(* The calls that raise, as far as the connectors' own limits make them.    *)
Raises ==
  CASE connector = "korea" -> Korea!Raises(cursor, notices, today)
    [] connector = "switzerland" -> Switzerland!Raises(cursor, notices, today)
    [] connector = "us" -> US!Raises(cursor, notices, today)
    [] connector = "uruguay" -> Uruguay!Raises(notices)
    [] OTHER -> FALSE

Poll ==
  LET call == Call IN
  /\ ~Raises
  /\ cursor' = call.cursor
  /\ first' = IF cursor = None \/ Gap THEN call.first ELSE first
  /\ listed' = [l \in Lot |-> Listed(call, l)]
  /\ shown' = shown \cup {l \in Lot : listed'[l] > today}
  /\ polled' = [done |-> call.done, withdrawn |-> Withdrawn(call)]
  /\ UNCHANGED <<connector, today, notices>>

(* A call that raises changes nothing.                                      *)
FailedPoll ==
  /\ Raises
  /\ polled' = None
  /\ UNCHANGED <<connector, today, notices, cursor, first, listed, shown>>

Next == (\E l \in LotsOf[connector] : Publish(l)) \/ NextDay \/ Poll \/ FailedPoll

Spec == Init /\ [][Next]_vars

-----------------------------------------------------------------------------
(* The cursor a connector stores is one it can decode.                      *)
TypeOK ==
  /\ connector \in Connector
  /\ today \in 0 .. MaxDay
  /\ notices \subseteq Notice
  /\ cursor = None \/ cursor \in Cursor
  /\ first \in Int \cup {None}
  /\ listed \in [Lot -> Int] /\ shown \subseteq Lot
  /\ polled # None => polled \in [done : BOOLEAN, withdrawn : SUBSET Lot]

Caught == polled # None /\ polled.done

Shown(l) == listed[l] > today

(* South Africa and Latvia lose a correction that is read in the same call  *)
(* as the tender: the first row of a call wins.                             *)
Superseded(l) ==
  /\ connector \in {"southafrica", "latvia"}
  /\ \E n \in notices : n.lot = l /\ n.kind = "correct"

(* Germany forgets a lot closed for longer than closed_retention_days, the  *)
(* days being counted to the newest archive even by a call that has not yet *)
(* read as far: it is not known when it is reopened.                        *)
Forgotten(l) ==
  /\ connector = "germany" /\ cursor.tracked[l] = None
  /\ \E c, n \in Of(l, today - 1) :
       /\ c.kind = "close" /\ c.day < today - 1 - Retention
       /\ n.kind = "reopen" /\ n.at > c.at
       /\ \A t \in Of(l, today - 1) : t.kind = "tender" => t.at < c.at

(* Nothing is missed: after a call that reads up to the present, every lot  *)
(* the register has open is shown, whatever was published during an outage, *)
(* between two calls or with an earlier date - provided its tender is not   *)
(* older than the first unit ever read.                                     *)
Complete ==
  Caught =>
    \A l \in Lot :
      /\ \A ns \in Views(l) :
           /\ OpenBy(ns)
           /\ Newest({n \in ns : n.kind = "tender"}).day >= first
      /\ ~Superseded(l) /\ ~Forgotten(l)
      => Shown(l)

(* What each connector answers for about a lot that stays shown: that it is *)
(* open; the United Kingdom looks again only when something is published,   *)
(* so that it is not closed; Colombia and Paraguay only see tenders while   *)
(* they are open, so that it is no longer or its deadline, as last          *)
(* corrected, has not passed.  The others never take back a row before its  *)
(* deadline.                                                                *)
Remains(l) ==
  CASE connector = "uk" -> Newest(Of(l, today)).kind # "close"
    [] connector \in {"colombia", "paraguay"} ->
         \/ Newest(Of(l, today)).kind = "close"
         \/ ~Elapsed(DeadlineOf(Of(l, today)), today)
    [] connector \in {"us", "southafrica", "latvia", "uruguay"} -> Of(l, today) # {}
    [] OTHER -> \E ns \in Views(l) : OpenBy(ns)

(* Nothing stays: after such a call every lot shown is one that may remain. *)
(* A tombstone that is not emitted is never emitted later, since the cursor *)
(* no longer has the lot ("Do not publish intermediate truth",              *)
(* italy_anac_pvl.py:585, and the was_visible flags of every connector).    *)
(* And a tombstone only concerns what users were shown ("rather than turning*)
(* into fake tombstones", poland_bzp.py:514-517); left out are those that   *)
(* report every lot they look at, open or not.                              *)
Sound ==
  /\ Caught => \A l \in Lot : Shown(l) => Remains(l)
  /\ connector \notin {"switzerland", "uk", "ecuador", "us"} /\ polled # None =>
       polled.withdrawn \subseteq shown

(* However long the outage, polls reach the present: a call that does not   *)
(* leaves less to read than it found ("max_days_per_sync", germany_doe.py,  *)
(* with an overlap that is read again each time).                           *)
Progress ==
  CASE connector = "estonia" -> cursor'.next > Estonia!StartPeriod(cursor, today)
    [] connector = "uruguay" -> Uruguay!Later(cursor', cursor)
    [] OTHER -> cursor'.through > cursor.through

Advances == [][polled' # None /\ ~polled'.done /\ cursor # None => Progress]_vars
=============================================================================
