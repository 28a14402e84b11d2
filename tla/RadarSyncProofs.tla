-------------------------- MODULE RadarSyncProofs --------------------------
(***************************************************************************)
(* The ingestion pipeline, for any sources, tenders, callers and faults.   *)
(*                                                                         *)
(* CursorAfterRows: what a sync commits was fetched long before, while     *)
(* publishers went on and other syncs moved the watermark.  Inv says of    *)
(* each staged watermark that the open tenders behind it are written or    *)
(* still among the rows of that sync; a sync commits only when it has none *)
(* left, and no sync deletes what another one wrote.                       *)
(*                                                                         *)
(* LifecycleAtWatermark: Reading says which part of its source a staged    *)
(* result is, that it joins on to the watermark unless a sync overlaps     *)
(* another, and that then the table is still as new as the watermark.      *)
(*                                                                         *)
(* EveryMatchIsAlerted: Chronicle follows a tender from the notice that is *)
(* read again until it is written, over the run that is finished with it,  *)
(* its decision and the alerts, to the run that takes it out of the        *)
(* window.                                                                 *)
(***************************************************************************)
EXTENDS RadarSync, SequenceTheorems, WellFoundedInduction, TLAPS

(* The part of TypeOK the argument needs.                                   *)
SyncType ==
  [pc : {"idle", "start", "write", "commit", "decide", "events"},
   rows : SUBSET Tender, staged : [Source -> Staged \cup {None}],
   seen : Nat, run : Nat, left : SUBSET Account]

FaultType ==
  [interrupts : Nat, late : Nat, health : Nat, outages : Nat, overlaps : Nat,
   deferred : SUBSET (Account \X Tender)]

Types ==
  /\ notices \in [Source -> Seq(Notice)]
  /\ cursor \in [Source -> Nat]
  /\ tenders \in [Tender -> [first : Nat, last : Nat] \cup {None}]
  /\ sync \in [Sync -> SyncType]
  /\ clock \in Nat /\ runs \in Seq(Nat)
  /\ faults \in FaultType

(* Sources publish about their own tenders.                                 *)
Own ==
  \A s \in Source : \A i \in 1 .. Len(notices[s]) : SourceOf[notices[s][i].tender] = s

(* The first n notices of a source: the open tenders are in the table or    *)
(* among these rows.                                                        *)
Covered(s, n, rows) ==
  \A i \in 1 .. n : notices[s][i].open =>
    tenders[notices[s][i].tender] # None \/ notices[s][i].tender \in rows

(* No watermark is ahead of its source, nor of the tenders behind it.       *)
Committed ==
  \A s \in Source : /\ cursor[s] <= Len(notices[s])
                    /\ faults.health = 0 => Covered(s, cursor[s], {})

StagedOK(p) ==
  \A s \in Source : sync[p].staged[s] # None =>
    /\ sync[p].staged[s].cursor <= Len(notices[s])
    /\ faults.health = 0 => Covered(s, sync[p].staged[s].cursor, sync[p].rows)

Pending ==
  \A p \in Sync : /\ StagedOK(p)
                  /\ sync[p].pc = "commit" => sync[p].rows = {}

Inv == Types /\ Own /\ Committed /\ Pending

-----------------------------------------------------------------------------
LEMMA IdleTyped ==
  Idle \in SyncType
BY DEF Idle, SyncType

LEMMA InvInit == Init => Inv
<1> SUFFICES ASSUME Init PROVE Inv
  OBVIOUS
<1>1. Types
  BY DEF Init, Types, SyncType, FaultType, Idle, Tender
<1>2. Own
  BY DEF Init, Own
<1>3. Committed
  BY DEF Init, Committed, Covered
<1>4. Pending
  BY DEF Init, Pending, StagedOK, Idle
<1> QED
  BY <1>1, <1>2, <1>3, <1>4 DEF Inv

LEMMA SourceTyped ==
  ASSUME Types, NEW s \in Source
  PROVE  /\ notices[s] \in Seq(Notice) /\ Len(notices[s]) \in Nat /\ cursor[s] \in Nat
         /\ \A i \in 1 .. Len(notices[s]) : notices[s][i] \in Notice
<1>1. notices[s] \in Seq(Notice) /\ cursor[s] \in Nat
  BY DEF Types
<1> QED
  BY <1>1, LenProperties, ElementOfSeq

(* The window begins at the latest behind the watermark.                    *)
LEMMA WindowShape ==
  ASSUME Types, NEW s \in Source
  PROVE  /\ Window(s) \in Seq(Notice)
         /\ \A i \in 1 .. Len(notices[s]) :
              cursor[s] < i => notices[s][i] \in ToSet(Window(s))
<1> DEFINE from == IF s = TED /\ cursor[s] > 0 THEN cursor[s] ELSE cursor[s] + 1
           len  == Len(notices[s])
<1>1. /\ from \in Nat \ {0} /\ len \in Nat /\ from <= cursor[s] + 1
      /\ \A i \in from .. len : notices[s][i] \in Notice
  <2>1. /\ Len(notices[s]) \in Nat /\ cursor[s] \in Nat
        /\ \A i \in 1 .. Len(notices[s]) : notices[s][i] \in Notice
    BY SourceTyped
  <2> QED
    BY <2>1
<1>2. Window(s) = SubSeq(notices[s], from, len)
  BY DEF Window
<1> HIDE DEF from, len
<1>3. /\ Window(s) \in Seq(Notice)
      /\ Len(Window(s)) = IF from <= len THEN len - from + 1 ELSE 0
      /\ \A j \in 1 .. len - from + 1 : Window(s)[j] = notices[s][from + j - 1]
  BY <1>1, <1>2, SubSeqProperties
<1>4. ASSUME NEW i \in 1 .. len, cursor[s] < i
      PROVE  notices[s][i] \in ToSet(Window(s))
  <2>1. cursor[s] \in Nat
    BY SourceTyped
  <2>2. i - from + 1 \in 1 .. len - from + 1 /\ from + (i - from + 1) - 1 = i /\ from <= len
    BY <1>1, <1>4, <2>1
  <2>3. Window(s)[i - from + 1] = notices[s][i] /\ i - from + 1 \in 1 .. Len(Window(s))
    BY <1>1, <1>3, <2>2
  <2> QED
    BY <1>3, <2>3, LenProperties DEF ToSet
<1> QED
  BY <1>3, <1>4 DEF len

(* Everything behind the watermark is written, everything after it is read. *)
LEMMA WindowCovers ==
  ASSUME Inv, NEW s \in Source, NEW S, s \in S, faults.health = 0
  PROVE  Covered(s, Len(notices[s]), TenderRows(S))
<1>1. SUFFICES ASSUME NEW i \in 1 .. Len(notices[s]), notices[s][i].open
               PROVE  tenders[notices[s][i].tender] # None
                        \/ notices[s][i].tender \in TenderRows(S)
  BY DEF Covered
<1>2. notices[s][i] \in Notice /\ cursor[s] \in Nat /\ Len(notices[s]) \in Nat
  BY SourceTyped DEF Inv
<1>3. CASE i <= cursor[s]
  <2>1. Covered(s, cursor[s], {})
    BY DEF Inv, Committed
  <2> QED
    BY <1>1, <1>2, <1>3, <2>1 DEF Covered
<1>4. CASE cursor[s] < i
  <2>1. notices[s][i] \in ToSet(Window(s))
    BY <1>4, WindowShape DEF Inv
  <2>2. notices[s][i].tender \in Tender /\ notices[s][i].open = TRUE
    BY <1>1, <1>2 DEF Notice
  <2>3. notices[s][i] = [tender |-> notices[s][i].tender, open |-> TRUE]
    BY <1>2, <2>2 DEF Notice
  <2>4. SourceOf[notices[s][i].tender] = s
    BY DEF Inv, Own
  <2> QED
    BY <2>1, <2>2, <2>3, <2>4 DEF TenderRows
<1> QED
  BY <1>2, <1>3, <1>4

LEMMA StageTyped ==
  ASSUME Types, NEW s \in Source
  PROVE  Stage(s) \in Staged /\ Stage(s).cursor = Len(notices[s])
<1>1. Window(s) \in Seq(Notice) /\ Len(notices[s]) \in Nat /\ <<>> \in Seq(Notice)
  BY WindowShape, SourceTyped
<1> QED
  BY <1>1 DEF Stage, Staged

-----------------------------------------------------------------------------
(* The steps.  Those that touch neither notices, tenders nor watermarks     *)
(* need only look at the sync they move.                                    *)

LEMMA PublishStep ==
  ASSUME Inv, NEW n \in Notice, Publish(n)
  PROVE  Inv'
<1> DEFINE s0 == SourceOf[n.tender]
<1>1. /\ s0 \in Source
      /\ notices' = [notices EXCEPT ![s0] = Append(@, n)]
      /\ UNCHANGED <<stored, sync, clock, faults>>
  BY RadarAssumption DEF Publish, Notice
<1>2. Types'
  <2>1. notices' \in [Source -> Seq(Notice)]
    BY <1>1, SourceTyped, AppendProperties DEF Inv, Types, SyncType, FaultType
  <2> QED
    BY <1>1, <2>1 DEF Inv, Types, SyncType, FaultType, stored
<1>3. \A s \in Source :
        /\ Len(notices'[s]) \in Nat /\ Len(notices[s]) <= Len(notices'[s])
        /\ \A i \in 1 .. Len(notices[s]) : notices'[s][i] = notices[s][i]
        /\ \A i \in 1 .. Len(notices'[s]) : i \notin 1 .. Len(notices[s]) =>
             s = s0 /\ notices'[s][i] = n
  <2> TAKE s \in Source
  <2>1. notices[s] \in Seq(Notice) /\ Len(notices[s]) \in Nat
    BY SourceTyped DEF Inv
  <2>2. CASE s = s0
    <3>1. notices'[s] = Append(notices[s], n)
      BY <1>1, <2>2 DEF Inv, Types, SyncType, FaultType
    <3>2. /\ Len(notices'[s]) = Len(notices[s]) + 1
          /\ \A i \in 1 .. Len(notices[s]) : notices'[s][i] = notices[s][i]
          /\ notices'[s][Len(notices[s]) + 1] = n
      BY <2>1, <3>1, AppendProperties
    <3>3. \A i \in 1 .. Len(notices'[s]) :
            i \notin 1 .. Len(notices[s]) => i = Len(notices[s]) + 1
      BY <2>1, <3>2
    <3> QED
      BY <2>1, <2>2, <3>2, <3>3
  <2>3. CASE s # s0
    <3>1. notices'[s] = notices[s]
      BY <1>1, <2>3 DEF Inv, Types, SyncType, FaultType
    <3> QED
      BY <2>1, <3>1
  <2> QED
    BY <2>2, <2>3
<1>4. Own'
  <2> SUFFICES ASSUME NEW s \in Source, NEW i \in 1 .. Len(notices'[s])
               PROVE  SourceOf[notices'[s][i].tender] = s
    BY DEF Own
  <2>1. CASE i \in 1 .. Len(notices[s])
    BY <1>3, <2>1 DEF Inv, Own
  <2>2. CASE i \notin 1 .. Len(notices[s])
    BY <1>3, <2>2
  <2> QED
    BY <2>1, <2>2
<1>5. ASSUME NEW s \in Source, NEW c \in Nat, NEW rows, c <= Len(notices[s]),
             Covered(s, c, rows)
      PROVE  c <= Len(notices'[s]) /\ Covered(s, c, rows)'
  <2>1. Len(notices[s]) \in Nat
    BY SourceTyped DEF Inv
  <2>2. \A i \in 1 .. c : notices'[s][i] = notices[s][i]
    BY <1>3, <1>5, <2>1
  <2>3. tenders' = tenders
    BY <1>1 DEF stored
  <2> QED
    BY <1>3, <1>5, <2>1, <2>2, <2>3 DEF Covered
<1>6. Committed'
  BY <1>1, <1>3, <1>5, SourceTyped DEF Inv, Committed, stored
<1>7. Pending'
  <2> SUFFICES ASSUME NEW p \in Sync, NEW s \in Source, sync[p].staged[s] # None
               PROVE  /\ sync[p].staged[s].cursor <= Len(notices'[s])
                      /\ faults.health = 0 =>
                           Covered(s, sync[p].staged[s].cursor, sync[p].rows)'
    BY <1>1 DEF Inv, Pending, StagedOK
  <2>1. sync[p].staged[s] \in Staged
    BY DEF Inv, Types, SyncType, FaultType
  <2>2. PICK c \in Nat : c = sync[p].staged[s].cursor
    BY <2>1 DEF Staged
  <2>3. c <= Len(notices[s]) /\ (faults.health = 0 => Covered(s, c, sync[p].rows))
    BY <2>2 DEF Inv, Pending, StagedOK
  <2>4. PICK rows : rows = sync[p].rows
    OBVIOUS
  <2>5. c <= Len(notices'[s]) /\ (faults.health = 0 => Covered(s, c, rows)')
    BY <1>3, <1>5, <2>3, <2>4
  <2> QED
    BY <1>1, <2>2, <2>4, <2>5 DEF Covered
<1> QED
  BY <1>2, <1>4, <1>6, <1>7 DEF Inv

(* Whatever a step does to the rest, the invariant lasts when notices and   *)
(* watermarks stay, tenders are only added, and what syncs hold is covered. *)
LEMMA Quiet ==
  ASSUME Inv, Types', UNCHANGED notices,
         faults'.health = 0 => faults.health = 0,
         \A t \in Tender : tenders[t] # None => tenders'[t] # None,
         UNCHANGED cursor,
         Pending'
  PROVE  Inv'
<1>1. Own'
  BY DEF Inv, Own
<1>2. Committed'
  <2> SUFFICES ASSUME NEW s \in Source
               PROVE  /\ cursor[s] <= Len(notices[s])
                      /\ faults'.health = 0 => Covered(s, cursor[s], {})'
    BY DEF Committed, Covered
  <2>1. cursor[s] \in Nat /\ Len(notices[s]) \in Nat /\ cursor[s] <= Len(notices[s])
        /\ \A i \in 1 .. Len(notices[s]) : notices[s][i] \in Notice
    BY SourceTyped DEF Inv, Committed
  <2>2. \A i \in 1 .. cursor[s] : notices[s][i].tender \in Tender
    BY <2>1 DEF Notice
  <2>3. faults'.health = 0 => Covered(s, cursor[s], {})
    BY DEF Inv, Committed
  <2> QED
    BY <2>1, <2>2, <2>3 DEF Covered
<1> QED
  BY <1>1, <1>2 DEF Inv

(* What a sync holds stays covered while tenders are only added.            *)
LEMMA HeldLasts ==
  ASSUME Inv, UNCHANGED notices, NEW p \in Sync,
         faults'.health = 0 => faults.health = 0,
         \A t \in Tender : tenders[t] # None => tenders'[t] # None,
         sync'[p].staged = sync[p].staged,
         \A t \in sync[p].rows : t \notin sync'[p].rows => tenders'[t] # None
  PROVE  StagedOK(p)'
<1> SUFFICES ASSUME NEW s \in Source, sync[p].staged[s] # None
             PROVE  /\ sync[p].staged[s].cursor <= Len(notices[s])
                    /\ faults'.health = 0 =>
                         \A i \in 1 .. sync[p].staged[s].cursor : notices[s][i].open =>
                           tenders'[notices[s][i].tender] # None
                             \/ notices[s][i].tender \in sync'[p].rows
  BY DEF StagedOK, Covered
<1>1. sync[p].staged[s] \in Staged
  BY DEF Inv, Types, SyncType, FaultType
<1>2. PICK c \in Nat : c = sync[p].staged[s].cursor
  BY <1>1 DEF Staged
<1>3. c <= Len(notices[s]) /\ (faults.health = 0 => Covered(s, c, sync[p].rows))
  BY <1>2 DEF Inv, Pending, StagedOK
<1>4. \A i \in 1 .. c : notices[s][i].tender \in Tender
  <2>1. Len(notices[s]) \in Nat /\ \A i \in 1 .. Len(notices[s]) : notices[s][i] \in Notice
    BY SourceTyped DEF Inv
  <2> QED
    BY <1>3, <2>1 DEF Notice
<1> QED
  BY <1>2, <1>3, <1>4 DEF Covered

(* A sync that has nothing staged, or has dropped what it had.              *)
LEMMA NothingHeld ==
  ASSUME NEW p \in Sync, \A s \in Source : sync'[p].staged[s] = None
  PROVE  StagedOK(p)'
BY DEF StagedOK

LEMMA AbandonStep ==
  ASSUME Inv, NEW p \in Sync, Abandon(p), Types', UNCHANGED faults.health
  PROVE  Inv'
<1>1. /\ UNCHANGED <<notices, cursor, tenders>>
      /\ sync'[p] = Idle
      /\ \A q \in Sync : q # p => sync'[q] = sync[q]
  BY DEF Abandon, stored, Inv, Types
<1>2. StagedOK(p)' /\ sync'[p].pc # "commit"
  BY <1>1, NothingHeld DEF Idle
<1>3. \A q \in Sync : q # p => StagedOK(q)'
  BY <1>1, HeldLasts
<1>4. Pending'
  BY <1>1, <1>2, <1>3 DEF Inv, Pending
<1> QED
  BY <1>1, <1>4, Quiet

LEMMA FetchStep ==
  ASSUME Inv, NEW p \in Sync, NEW ok \in SUBSET (Source \ {TED}), NEW h \in BOOLEAN,
         Fetch(p, ok, h)
  PROVE  Inv'
<1> DEFINE given == ok \cup {TED}
           rows == TenderRows(IF h THEN {TED} ELSE given)
           staged == [s \in Source |-> IF s \in given THEN Stage(s) ELSE None]
           new == [pc |-> "start", seen |-> clock', run |-> 0, left |-> {},
                   rows |-> rows, staged |-> staged]
<1>1. /\ UNCHANGED <<notices, cursor, tenders, runs>>
      /\ clock' = clock + 1
      /\ sync' = [sync EXCEPT ![p] = new]
      /\ faults' = [faults EXCEPT !.health = IF h THEN @ + 1 ELSE @,
                                  !.outages = IF given # Source THEN @ + 1 ELSE @,
                                  !.overlaps = IF Busy # {} THEN @ + 1 ELSE @]
  BY DEF Fetch, stored
<1>2. rows \in SUBSET Tender
  BY DEF TenderRows
<1>3. staged \in [Source -> Staged \cup {None}]
  BY StageTyped DEF Inv
<1>4. clock' \in Nat
  BY <1>1 DEF Inv, Types, SyncType, FaultType
<1> HIDE DEF rows, staged
<1>5. faults' \in FaultType
      /\ (faults'.health = 0 => ~h /\ faults.health = 0)
  <2>1. faults \in FaultType
    BY DEF Inv, Types, SyncType, FaultType
  <2>2. faults'.health = IF h THEN faults.health + 1 ELSE faults.health
    BY <1>1, <2>1 DEF FaultType
  <2>3. faults' = [interrupts |-> faults.interrupts, late |-> faults.late,
                   health |-> IF h THEN faults.health + 1 ELSE faults.health,
                   outages |-> IF given # Source THEN faults.outages + 1 ELSE faults.outages,
                   overlaps |-> IF Busy # {} THEN faults.overlaps + 1 ELSE faults.overlaps,
                   deferred |-> faults.deferred]
    BY <1>1, <2>1 DEF FaultType
  <2> QED
    BY <2>1, <2>2, <2>3 DEF FaultType
<1>6. Types'
  <2>1. sync' \in [Sync -> SyncType]
    BY <1>2, <1>1, <1>3, <1>4 DEF Inv, Types, SyncType, FaultType
  <2> QED
    BY <1>1, <1>4, <1>5, <2>1 DEF Inv, Types, SyncType, FaultType
<1>7. sync'[p] = new /\ \A q \in Sync : q # p => sync'[q] = sync[q]
  BY <1>1 DEF Inv, Types, SyncType, FaultType
<1>8. StagedOK(p)'
  <2> SUFFICES ASSUME NEW s \in Source, staged[s] # None
               PROVE  /\ staged[s].cursor <= Len(notices[s])
                      /\ faults'.health = 0 =>
                           \A i \in 1 .. staged[s].cursor : notices[s][i].open =>
                             tenders[notices[s][i].tender] # None
                               \/ notices[s][i].tender \in rows
    <3>1. sync'[p].staged = staged /\ sync'[p].rows = rows
      BY <1>7
    <3> QED
      BY <1>1, <3>1 DEF StagedOK, Covered
  <2>1. s \in given /\ staged[s] = Stage(s)
    BY DEF staged
  <2>2. staged[s].cursor = Len(notices[s]) /\ Len(notices[s]) \in Nat
    BY <2>1, StageTyped, SourceTyped DEF Inv
  <2>3. ASSUME faults'.health = 0
        PROVE  Covered(s, Len(notices[s]), rows)
    <3>1. rows = TenderRows(given) /\ faults.health = 0
      BY <1>5, <2>3 DEF rows
    <3> HIDE DEF given
    <3> QED
      BY <2>1, <3>1, WindowCovers
  <2> QED
    BY <2>2, <2>3 DEF Covered
<1>9. \A q \in Sync : q # p => StagedOK(q)'
  BY <1>1, <1>5, <1>7, HeldLasts
<1>10. Pending'
  BY <1>7, <1>8, <1>9 DEF Inv, Pending
<1> QED
  BY <1>1, <1>5, <1>6, <1>10, Quiet

(* Steps of a sync that only move it on, within the same types.             *)
LEMMA MoveOn ==
  ASSUME Inv, Types', NEW p \in Sync,
         UNCHANGED <<notices, cursor, tenders>>, UNCHANGED faults.health,
         \A q \in Sync : q # p => sync'[q] = sync[q],
         sync'[p].staged = sync[p].staged, sync'[p].rows = sync[p].rows,
         sync'[p].pc = "commit" => sync[p].rows = {}
  PROVE  Inv'
<1>1. \A q \in Sync : StagedOK(q)'
  <2> TAKE q \in Sync
  <2>1. sync'[q].staged = sync[q].staged /\ sync'[q].rows = sync[q].rows
    OBVIOUS
  <2> QED
    BY <2>1, HeldLasts
<1>2. Pending'
  BY <1>1 DEF Inv, Pending
<1> QED
  BY <1>2, Quiet

(* Only one sync changes, and the rest keeps its type.                      *)
LEMMA TypesKept ==
  ASSUME Types, NEW p \in Sync, NEW new \in SyncType, sync' = [sync EXCEPT ![p] = new],
         UNCHANGED <<notices, tenders, clock>>, cursor' \in [Source -> Nat],
         runs' \in Seq(Nat), faults' \in FaultType
  PROVE  Types'
<1>1. sync' \in [Sync -> SyncType]
  BY DEF Types
<1> QED
  BY <1>1 DEF Types

LEMMA StartRunStep ==
  ASSUME Inv, NEW p \in Sync, StartRun(p)
  PROVE  Inv'
<1>1. sync' = [sync EXCEPT ![p] = [sync[p] EXCEPT !.pc = "write", !.run = Len(runs')]]
  BY DEF StartRun, Inv, Types
<1>2. UNCHANGED <<notices, cursor, tenders, clock, faults>>
  BY DEF StartRun
<1>3. runs' \in Seq(Nat) /\ Len(runs') \in Nat
  BY AppendProperties, LenProperties DEF StartRun, Inv, Types
<1>4. Types'
  <2>1. [sync[p] EXCEPT !.pc = "write", !.run = Len(runs')] \in SyncType
    BY <1>3 DEF Inv, Types, SyncType
  <2>2. cursor' \in [Source -> Nat] /\ faults' \in FaultType
    BY <1>2 DEF Inv, Types
  <2> QED
    BY <1>1, <1>2, <1>3, <2>1, <2>2, TypesKept DEF Inv
<1> QED
  BY <1>1, <1>2, <1>4, MoveOn DEF Inv, Types, SyncType, FaultType

LEMMA FinishStep ==
  ASSUME Inv, NEW p \in Sync, Finish(p)
  PROVE  Inv'
<1>1. /\ sync' = [sync EXCEPT ![p].pc = "commit"] /\ sync[p].rows = {}
      /\ UNCHANGED <<notices, cursor, tenders, clock, faults>>
  BY DEF Finish
<1>2. runs' \in Seq(Nat)
  <2>1. PICK seen \in Nat, run \in Nat : seen = sync[p].seen /\ run = sync[p].run
    BY DEF Inv, Types, SyncType, FaultType
  <2>2. runs' = [runs EXCEPT ![run] = seen] /\ runs \in Seq(Nat)
    BY <2>1 DEF Finish, Inv, Types
  <2>3. CASE run \in 1 .. Len(runs)
    BY <2>2, <2>3, ExceptSeq
  <2>4. CASE run \notin 1 .. Len(runs)
    <3>1. runs \in [1 .. Len(runs) -> Nat] /\ run \notin DOMAIN runs
      BY <2>2, <2>4, LenProperties
    <3>2. runs' = runs
      BY <2>2, <3>1
    <3> QED
      BY <2>2, <3>2
  <2> QED
    BY <2>3, <2>4
<1>3. Types'
  <2>1. sync[p] \in SyncType /\ DOMAIN sync = Sync
    BY DEF Inv, Types
  <2>2. sync' = [sync EXCEPT ![p] = [sync[p] EXCEPT !.pc = "commit"]]
    BY <1>1, <2>1
  <2>3. [sync[p] EXCEPT !.pc = "commit"] \in SyncType
    BY <2>1 DEF SyncType
  <2>4. cursor' \in [Source -> Nat] /\ faults' \in FaultType
    BY <1>1 DEF Inv, Types
  <2> QED
    BY <1>1, <1>2, <2>2, <2>3, <2>4, TypesKept DEF Inv
<1> QED
  BY <1>1, <1>3, MoveOn DEF Inv, Types, SyncType, FaultType

(* What the cap of a refresh leaves undecided is all that changes.          *)
LEMMA DecideDefers ==
  ASSUME Types, NEW p \in Sync, Decide(p)
  PROVE  /\ faults' \in FaultType
         /\ UNCHANGED <<faults.late, faults.health, faults.outages, faults.overlaps>>
         /\ faults'.deferred =
              faults.deferred \cup UNION {{a} \X (Stale(a) \ Rescored(a)) : a \in Account}
<1> DEFINE more == UNION {{a} \X (Stale(a) \ Rescored(a)) : a \in Account}
<1>1. faults \in FaultType
  BY DEF Types
<1>2. faults' = [faults EXCEPT !.deferred = faults.deferred \cup more]
  BY DEF Decide
<1>3. more \subseteq Account \X Tender
  <2>1. \A a \in Account : Stale(a) \ Rescored(a) \subseteq Tender
    BY DEF Stale, SeenAt
  <2> QED
    BY <2>1
<1> HIDE DEF more
<1>4. faults.deferred \cup more \in SUBSET (Account \X Tender)
  BY <1>1, <1>3 DEF FaultType
<1> QED
  BY <1>1, <1>2, <1>4 DEF FaultType, more

LEMMA DecideStep ==
  ASSUME Inv, NEW p \in Sync, Decide(p)
  PROVE  Inv'
<1>1. /\ sync' = [sync EXCEPT ![p] = [sync[p] EXCEPT !.pc = "events", !.left = Account]]
      /\ UNCHANGED <<notices, cursor, tenders, clock, runs>>
  BY DEF Decide, Inv, Types
<1>2. faults' \in FaultType /\ UNCHANGED faults.health
  BY DecideDefers DEF Inv
<1>3. Types'
  <2>1. [sync[p] EXCEPT !.pc = "events", !.left = Account] \in SyncType
    BY DEF Inv, Types, SyncType
  <2>2. cursor' \in [Source -> Nat] /\ runs' \in Seq(Nat)
    BY <1>1 DEF Inv, Types
  <2> QED
    BY <1>1, <1>2, <2>1, <2>2, TypesKept DEF Inv
<1> QED
  BY <1>1, <1>2, <1>3, MoveOn DEF Inv, Types, SyncType

LEMMA WriteChunkStep ==
  ASSUME Inv, NEW p \in Sync, WriteChunk(p)
  PROVE  Inv'
<1>1. PICK chunk \in SUBSET sync[p].rows :
        /\ tenders' = [t \in Tender |->
                         IF t \in chunk THEN Upsert(t, sync[p].seen) ELSE tenders[t]]
        /\ sync' = [sync EXCEPT ![p].rows = sync[p].rows \ chunk]
  BY DEF WriteChunk, kSubset
<1>2. UNCHANGED <<notices, cursor, clock, runs, faults>> /\ sync[p].pc = "write"
  BY DEF WriteChunk
<1>3. \A t \in Tender : Upsert(t, sync[p].seen) \in [first : Nat, last : Nat]
  <2> TAKE t \in Tender
  <2>1. PICK seen \in Nat : seen = sync[p].seen
    BY DEF Inv, Types, SyncType, FaultType
  <2>2. tenders[t] \in [first : Nat, last : Nat] \cup {None}
    BY DEF Inv, Types, SyncType, FaultType
  <2>3. CASE tenders[t] = None
    BY <2>1, <2>3 DEF Upsert
  <2>4. CASE tenders[t] # None
    BY <2>1, <2>2, <2>4 DEF Upsert
  <2> QED
    BY <2>3, <2>4
<1>4. tenders' \in [Tender -> [first : Nat, last : Nat] \cup {None}]
  BY <1>1, <1>3 DEF Inv, Types, SyncType, FaultType
<1>5. \A t \in Tender : tenders[t] # None \/ t \in chunk => tenders'[t] # None
  BY <1>1, <1>3, RadarAssumption
<1>6. Types'
  <2>1. PICK rest \in SUBSET Tender : rest = sync[p].rows \ chunk
    BY DEF Inv, Types, SyncType
  <2>2. sync' = [sync EXCEPT ![p] = [sync[p] EXCEPT !.rows = rest]]
    BY <1>1, <2>1
  <2>3. [sync[p] EXCEPT !.rows = rest] \in SyncType
    BY DEF Inv, Types, SyncType
  <2> QED
    BY <1>2, <1>4, <2>2, <2>3 DEF Inv, Types
<1>7. /\ \A q \in Sync : q # p => sync'[q] = sync[q]
      /\ sync'[p].staged = sync[p].staged /\ sync'[p].pc = "write"
      /\ sync'[p].rows = sync[p].rows \ chunk /\ sync[p].rows \subseteq Tender
  BY <1>1, <1>2 DEF Inv, Types, SyncType, FaultType
<1>8. \A q \in Sync : StagedOK(q)'
  <2> TAKE q \in Sync
  <2>1. /\ sync'[q].staged = sync[q].staged
        /\ \A t \in sync[q].rows : t \notin sync'[q].rows => tenders'[t] # None
    BY <1>5, <1>7
  <2> QED
    BY <1>2, <1>5, <2>1, HeldLasts
<1>9. Pending'
  BY <1>7, <1>8 DEF Inv, Pending
<1> QED
  BY <1>2, <1>5, <1>6, <1>9, Quiet

(* A sync commits when all its rows are written.                            *)
LEMMA CommitStagedStep ==
  ASSUME Inv, NEW p \in Sync, CommitStaged(p)
  PROVE  Inv'
<1>1. /\ sync[p].pc = "commit" /\ sync[p].rows = {}
      /\ cursor' = Cursors(sync[p].staged)
      /\ sync' = [sync EXCEPT ![p] = [sync[p] EXCEPT !.pc = "decide", !.staged = Idle.staged]]
      /\ UNCHANGED <<notices, tenders, runs, clock, faults>>
  BY DEF CommitStaged, Inv, Pending, Types, SyncType, FaultType
<1>2. \A s \in Source :
        /\ cursor'[s] \in Nat /\ cursor'[s] <= Len(notices[s])
        /\ faults.health = 0 => Covered(s, cursor'[s], {})
  <2> TAKE s \in Source
  <2>1. CASE sync[p].staged[s] = None
    <3>1. cursor'[s] = cursor[s]
      BY <1>1, <2>1 DEF Cursors
    <3> QED
      BY <3>1, SourceTyped DEF Inv, Committed
  <2>2. CASE sync[p].staged[s] # None
    <3>1. sync[p].staged[s] \in Staged
      BY <2>2 DEF Inv, Types, SyncType, FaultType
    <3>2. cursor'[s] = sync[p].staged[s].cursor
      BY <1>1, <2>2 DEF Cursors
    <3> QED
      BY <1>1, <2>2, <3>1, <3>2 DEF Inv, Pending, StagedOK, Staged
  <2> QED
    BY <2>1, <2>2
<1>3. cursor' \in [Source -> Nat]
  BY <1>1, <1>2 DEF Cursors
<1>4. Idle.staged \in [Source -> Staged \cup {None}] /\ \A s \in Source : Idle.staged[s] = None
  BY DEF Idle, SyncType
<1>5. Types'
  <2>1. [sync[p] EXCEPT !.pc = "decide", !.staged = Idle.staged] \in SyncType
    BY <1>4 DEF Inv, Types, SyncType
  <2>2. faults' \in FaultType /\ runs' \in Seq(Nat)
    BY <1>1 DEF Inv, Types
  <2> QED
    BY <1>1, <1>3, <2>1, <2>2, TypesKept DEF Inv
<1>6. Own'
  BY <1>1 DEF Inv, Own
<1>7. Committed'
  BY <1>1, <1>2 DEF Committed, Covered
<1>8. /\ sync'[p].staged = Idle.staged /\ sync'[p].pc = "decide"
      /\ \A q \in Sync : q # p => sync'[q] = sync[q]
  BY <1>1 DEF Inv, Types, SyncType, FaultType
<1>9. StagedOK(p)'
  BY <1>4, <1>8, NothingHeld
<1>10. \A q \in Sync : q # p => StagedOK(q)'
  BY <1>1, <1>8, HeldLasts
<1>11. Pending'
  BY <1>8, <1>9, <1>10 DEF Inv, Pending
<1> QED
  BY <1>5, <1>6, <1>7, <1>11 DEF Inv

LEMMA RecordAlertsStep ==
  ASSUME Inv, NEW p \in Sync, NEW a \in Account, RecordAlerts(p, a)
  PROVE  Inv'
<1>1. UNCHANGED <<notices, cursor, tenders, runs, clock, faults>> /\ sync[p].pc = "events"
  BY DEF RecordAlerts
<1>2. CASE sync[p].left \ {a} = {}
  <2>1. sync' = [sync EXCEPT ![p] = Idle]
    BY <1>2 DEF RecordAlerts
  <2>2. Types'
    <3>1. cursor' \in [Source -> Nat] /\ faults' \in FaultType /\ runs' \in Seq(Nat)
      BY <1>1 DEF Inv, Types
    <3> QED
      BY <1>1, <2>1, <3>1, IdleTyped, TypesKept DEF Inv
  <2>3. /\ sync'[p] = Idle
        /\ \A q \in Sync : q # p => sync'[q] = sync[q]
    BY <2>1 DEF Inv, Types, SyncType, FaultType
  <2>4. StagedOK(p)' /\ sync'[p].pc # "commit"
    BY <2>3, NothingHeld DEF Idle
  <2>5. \A q \in Sync : q # p => StagedOK(q)'
    BY <1>1, <2>3, HeldLasts
  <2>6. Pending'
    BY <2>3, <2>4, <2>5 DEF Inv, Pending
  <2> QED
    BY <1>1, <2>2, <2>6, Quiet
<1>3. CASE sync[p].left \ {a} # {}
  <2>1. PICK left \in SUBSET Account : left = sync[p].left \ {a}
    BY DEF Inv, Types, SyncType
  <2>2. sync' = [sync EXCEPT ![p] = [sync[p] EXCEPT !.left = left]]
    BY <1>3, <2>1 DEF RecordAlerts
  <2>3. [sync[p] EXCEPT !.left = left] \in SyncType
    BY DEF Inv, Types, SyncType
  <2>4. Types'
    BY <1>1, <2>2, <2>3 DEF Inv, Types
  <2> QED
    BY <1>1, <2>2, <2>4, MoveOn DEF Inv, Types, SyncType, FaultType
<1> QED
  BY <1>2, <1>3

LEMMA FailureStep ==
  ASSUME Inv, NEW p \in Sync, Interrupt(p) \/ LateInterrupt(p)
  PROVE  Inv'
<1>1. /\ Abandon(p) /\ UNCHANGED <<notices, cursor, tenders, runs, clock>>
      /\ sync' = [sync EXCEPT ![p] = Idle]
  BY DEF Interrupt, LateInterrupt, Abandon, stored
<1>2. /\ faults' \in FaultType
      /\ UNCHANGED faults.health
  <2>1. faults \in FaultType
    BY DEF Inv, Types
  <2>2. CASE Interrupt(p)
    <3>1. faults' = [faults EXCEPT !.interrupts = faults.interrupts + 1]
      BY <2>2 DEF Interrupt
    <3> QED
      BY <2>1, <3>1 DEF FaultType
  <2>3. CASE LateInterrupt(p)
    <3>1. faults' = [faults EXCEPT !.late = faults.late + 1]
      BY <2>3 DEF LateInterrupt
    <3> QED
      BY <2>1, <3>1 DEF FaultType
  <2> QED
    BY <2>2, <2>3
<1>3. Types'
  <2>1. cursor' \in [Source -> Nat] /\ runs' \in Seq(Nat)
    BY <1>1 DEF Inv, Types
  <2> QED
    BY <1>1, <1>2, <2>1, IdleTyped, TypesKept DEF Inv
<1> QED
  BY <1>1, <1>2, <1>3, AbandonStep

LEMMA InvStep == Inv /\ [Next]_vars => Inv'
<1> SUFFICES ASSUME Inv, [Next]_vars PROVE Inv'
  OBVIOUS
<1>1. ASSUME NEW n \in Notice, Publish(n) PROVE Inv'
  BY <1>1, PublishStep
<1>2. ASSUME NEW p \in Sync, NEW ok \in SUBSET (Source \ {TED}), NEW h \in BOOLEAN,
             Fetch(p, ok, h)
      PROVE  Inv'
  BY <1>2, FetchStep
<1>3. ASSUME NEW p \in Sync, SyncStep(p) PROVE Inv'
  BY <1>3, StartRunStep, WriteChunkStep, FinishStep, CommitStagedStep, DecideStep,
     RecordAlertsStep DEF SyncStep
<1>4. ASSUME NEW p \in Sync, Interrupt(p) \/ LateInterrupt(p) PROVE Inv'
  BY <1>4, FailureStep
<1>5. CASE UNCHANGED vars
  <2>1. UNCHANGED <<notices, cursor, tenders, runs, sync, clock, faults>>
    BY <1>5 DEF vars, stored
  <2>2. Types'
    BY <2>1 DEF Inv, Types
  <2>3. \A q \in Sync : StagedOK(q)'
    BY <2>1, HeldLasts
  <2>4. Pending'
    BY <2>1, <2>3 DEF Inv, Pending
  <2> QED
    BY <2>1, <2>2, <2>4, Quiet
<1> QED
  BY <1>1, <1>2, <1>3, <1>4, <1>5 DEF Next

(* The invariant holds in every reachable state.                            *)
THEOREM InvariantHolds == Spec => []Inv
<1>1. Init => Inv
  BY InvInit
<1>2. Inv /\ [Next]_vars => Inv'
  BY InvStep
<1> QED
  BY <1>1, <1>2, PTL DEF Spec

(* No watermark passes a tender that was not written, for any number of     *)
(* sources, tenders and callers, whatever syncs overlap, fail or are killed *)
(* (source_runtime.py:3-5): exactly what bounded_sync.py:52 can break is    *)
(* excluded.                                                                *)
THEOREM CursorAfterRowsHolds == Spec => []CursorAfterRows
<1>1. Inv => CursorAfterRows
  BY DEF Inv, Committed, Covered, CursorAfterRows
<1> QED
  BY <1>1, InvariantHolds, PTL

-----------------------------------------------------------------------------
(* What each step does to the sync that takes it, field by field.           *)
Others(p) == \A q \in Sync : q # p => sync'[q] = sync[q]

Fetched(p, ok, h) ==
  /\ UNCHANGED <<notices, stored>> /\ clock' = clock + 1 /\ Others(p)
  /\ sync[p].pc = "idle" /\ sync'[p].pc = "start"
  /\ sync'[p].seen = clock + 1 /\ sync'[p].run = 0 /\ sync'[p].left = {}
  /\ ~h => sync'[p].rows = TenderRows(ok \cup {TED})
  /\ \A s \in Source :
       sync'[p].staged[s] = IF s \in ok \cup {TED} THEN Stage(s) ELSE None
  /\ Busy = {} => UNCHANGED faults.overlaps
  /\ Busy # {} => faults'.overlaps = faults.overlaps + 1
  /\ faults'.health = 0 => ~h /\ faults.health = 0
  /\ faults'.outages = 0 => ok \cup {TED} = Source /\ faults.outages = 0
  /\ UNCHANGED <<faults.late, faults.deferred>>

LEMMA FetchMoves ==
  ASSUME Types, NEW p \in Sync, NEW ok \in SUBSET (Source \ {TED}), NEW h \in BOOLEAN,
         Fetch(p, ok, h)
  PROVE  Fetched(p, ok, h)
<1> DEFINE given == ok \cup {TED}
           new == [pc |-> "start", seen |-> clock', run |-> 0, left |-> {},
                   rows |-> TenderRows(IF h THEN {TED} ELSE given),
                   staged |-> [s \in Source |-> IF s \in given THEN Stage(s) ELSE None]]
<1>1. sync \in [Sync -> SyncType] /\ faults \in FaultType
  BY DEF Types
<1>2. /\ sync' = [sync EXCEPT ![p] = new] /\ clock' = clock + 1
      /\ UNCHANGED <<notices, stored>> /\ sync[p].pc = "idle"
      /\ faults' = [faults EXCEPT !.health = IF h THEN @ + 1 ELSE @,
                                  !.outages = IF given # Source THEN @ + 1 ELSE @,
                                  !.overlaps = IF Busy # {} THEN @ + 1 ELSE @]
  BY DEF Fetch
<1>3. /\ new.pc = "start" /\ new.seen = clock' /\ new.run = 0 /\ new.left = {}
      /\ ~h => new.rows = TenderRows(given)
      /\ \A s \in Source : new.staged[s] = IF s \in given THEN Stage(s) ELSE None
  OBVIOUS
<1> HIDE DEF new, given
<1>4. sync'[p] = new /\ Others(p)
  BY <1>1, <1>2 DEF Others
<1>5. /\ faults'.overlaps = IF Busy # {} THEN faults.overlaps + 1 ELSE faults.overlaps
      /\ faults'.health = IF h THEN faults.health + 1 ELSE faults.health
      /\ faults'.outages = IF given # Source THEN faults.outages + 1 ELSE faults.outages
      /\ UNCHANGED <<faults.late, faults.deferred>>
      /\ faults.overlaps \in Nat /\ faults.health \in Nat /\ faults.outages \in Nat
  BY <1>1, <1>2 DEF FaultType
<1>6. /\ faults'.health = 0 => ~h /\ faults.health = 0
      /\ faults'.outages = 0 => given = Source /\ faults.outages = 0
  BY <1>5
<1> QED
  BY <1>2, <1>3, <1>4, <1>5, <1>6 DEF given, Fetched

LEMMA StartRunMoves ==
  ASSUME Types, NEW p \in Sync, StartRun(p)
  PROVE  /\ UNCHANGED <<notices, tenders, lifecycle, cursor, decided, alerts, clock, faults>>
         /\ Others(p) /\ sync[p].pc = "start"
         /\ sync'[p] = [sync[p] EXCEPT !.pc = "write", !.run = Len(runs) + 1]
         /\ Len(runs') = Len(runs) + 1 /\ runs'[Len(runs) + 1] = 0
         /\ \A i \in 1 .. Len(runs) : runs'[i] = runs[i]
<1>1. sync \in [Sync -> SyncType] /\ runs \in Seq(Nat) /\ runs' = Append(runs, 0)
  BY DEF Types, StartRun
<1>2. /\ Len(runs') = Len(runs) + 1 /\ runs'[Len(runs) + 1] = 0
      /\ \A i \in 1 .. Len(runs) : runs'[i] = runs[i]
  BY <1>1, AppendProperties
<1>3. sync' = [sync EXCEPT ![p] = [sync[p] EXCEPT !.pc = "write", !.run = Len(runs) + 1]]
  BY <1>1, <1>2 DEF StartRun, SyncType
<1> QED
  BY <1>1, <1>2, <1>3 DEF StartRun, Others

LEMMA WriteChunkMoves ==
  ASSUME Types, NEW p \in Sync, WriteChunk(p)
  PROVE  /\ UNCHANGED <<notices, lifecycle, cursor, runs, decided, alerts, clock, faults>>
         /\ Others(p) /\ sync[p].pc = "write"
         /\ \E chunk \in SUBSET sync[p].rows :
              /\ sync'[p] = [sync[p] EXCEPT !.rows = sync[p].rows \ chunk]
              /\ \A t \in Tender :
                   /\ t \notin chunk => tenders'[t] = tenders[t]
                   /\ t \in chunk /\ tenders[t] = None =>
                        tenders'[t] = [first |-> sync[p].seen, last |-> sync[p].seen]
                   /\ t \in chunk /\ tenders[t] # None =>
                        tenders'[t] = [first |-> tenders[t].first, last |-> sync[p].seen]
<1>1. PICK chunk \in SUBSET sync[p].rows :
        /\ tenders' = [t \in Tender |->
                         IF t \in chunk THEN Upsert(t, sync[p].seen) ELSE tenders[t]]
        /\ sync' = [sync EXCEPT ![p].rows = sync[p].rows \ chunk]
  BY DEF WriteChunk, kSubset
<1>2. sync \in [Sync -> SyncType] /\ tenders \in [Tender -> [first : Nat, last : Nat] \cup {None}]
  BY DEF Types
<1>3. sync'[p] = [sync[p] EXCEPT !.rows = sync[p].rows \ chunk] /\ Others(p)
  BY <1>1, <1>2 DEF SyncType, Others
<1>4. ASSUME NEW t \in Tender
      PROVE  /\ t \notin chunk => tenders'[t] = tenders[t]
             /\ t \in chunk /\ tenders[t] = None =>
                  tenders'[t] = [first |-> sync[p].seen, last |-> sync[p].seen]
             /\ t \in chunk /\ tenders[t] # None =>
                  tenders'[t] = [first |-> tenders[t].first, last |-> sync[p].seen]
  <2>1. tenders[t] # None => tenders[t] \in [first : Nat, last : Nat]
    BY <1>2
  <2> QED
    BY <1>1, <2>1 DEF Upsert
<1> QED
  BY <1>3, <1>4 DEF WriteChunk

LEMMA FinishMoves ==
  ASSUME Types, NEW p \in Sync, Finish(p), sync[p].run \in 1 .. Len(runs)
  PROVE  /\ UNCHANGED <<notices, tenders, lifecycle, cursor, decided, alerts, clock, faults>>
         /\ Others(p) /\ sync[p].pc = "write" /\ sync[p].rows = {}
         /\ sync'[p] = [sync[p] EXCEPT !.pc = "commit"]
         /\ Len(runs') = Len(runs)
         /\ \A i \in 1 .. Len(runs) :
              runs'[i] = IF i = sync[p].run THEN sync[p].seen ELSE runs[i]
<1>1. sync \in [Sync -> SyncType] /\ runs \in Seq(Nat)
      /\ runs' = [runs EXCEPT ![sync[p].run] = sync[p].seen]
  BY DEF Types, Finish
<1>2. sync[p].seen \in Nat
  BY <1>1 DEF SyncType
<1>3. /\ Len(runs') = Len(runs)
      /\ \A i \in 1 .. Len(runs) :
           runs'[i] = IF i = sync[p].run THEN sync[p].seen ELSE runs[i]
  BY <1>1, <1>2, ExceptSeq
<1>4. sync'[p] = [sync[p] EXCEPT !.pc = "commit"] /\ Others(p)
  BY <1>1 DEF Finish, SyncType, Others
<1> QED
  BY <1>3, <1>4 DEF Finish

LEMMA CommitMoves ==
  ASSUME Types, NEW p \in Sync, CommitStaged(p)
  PROVE  /\ UNCHANGED <<notices, tenders, runs, decided, alerts, clock, faults>>
         /\ Others(p) /\ sync[p].pc = "commit"
         /\ sync'[p] = [sync[p] EXCEPT !.pc = "decide", !.staged = [s \in Source |-> None]]
         /\ \A s \in Source :
              cursor'[s] = IF sync[p].staged[s] = None THEN cursor[s]
                           ELSE sync[p].staged[s].cursor
         /\ lifecycle' = [t \in Tender |->
              IF sync[p].staged[SourceOf[t]] = None THEN lifecycle[t]
              ELSE Observed(t, sync[p].staged[SourceOf[t]].records)]
<1>1. sync \in [Sync -> SyncType]
  BY DEF Types
<1>2. sync' = [sync EXCEPT ![p] = [sync[p] EXCEPT !.pc = "decide",
                                                  !.staged = [s \in Source |-> None]]]
  BY <1>1 DEF CommitStaged, SyncType, Idle
<1> QED
  BY <1>1, <1>2 DEF CommitStaged, Cursors, Others

LEMMA DecideMoves ==
  ASSUME Types, NEW p \in Sync, Decide(p)
  PROVE  /\ UNCHANGED <<notices, tenders, lifecycle, cursor, runs, alerts, clock>>
         /\ Others(p) /\ sync[p].pc = "decide"
         /\ sync'[p] = [sync[p] EXCEPT !.pc = "events", !.left = Account]
         /\ decided' = decided \cup UNION {{a} \X Rescored(a) : a \in Account}
         /\ UNCHANGED <<faults.late, faults.health, faults.outages, faults.overlaps>>
         /\ faults'.deferred =
              faults.deferred \cup UNION {{a} \X (Stale(a) \ Rescored(a)) : a \in Account}
<1>1. sync \in [Sync -> SyncType]
  BY DEF Types
<1>2. sync' = [sync EXCEPT ![p] = [sync[p] EXCEPT !.pc = "events", !.left = Account]]
  BY <1>1 DEF Decide, SyncType
<1> QED
  BY <1>1, <1>2, DecideDefers DEF Decide, Others

LEMMA RecordMoves ==
  ASSUME Types, NEW p \in Sync, NEW a \in Account, RecordAlerts(p, a)
  PROVE  /\ UNCHANGED <<notices, tenders, lifecycle, cursor, runs, decided, clock, faults>>
         /\ Others(p) /\ sync[p].pc = "events" /\ a \in sync[p].left
         /\ \/ sync[p].left = {a} /\ sync'[p] = Idle
            \/ sync'[p] = [sync[p] EXCEPT !.left = sync[p].left \ {a}]
         /\ alerts' = alerts \cup
              ({a} \X {t \in Fresh : <<a, t>> \in decided /\ t \in Fits[a] /\ Actionable(t)})
<1>1. sync \in [Sync -> SyncType]
  BY DEF Types
<1>2. CASE sync[p].left \ {a} = {}
  <2>1. sync' = [sync EXCEPT ![p] = Idle] /\ sync[p].left = {a}
    BY <1>2 DEF RecordAlerts
  <2> QED
    BY <1>1, <2>1 DEF RecordAlerts, Others
<1>3. CASE sync[p].left \ {a} # {}
  <2>1. sync' = [sync EXCEPT ![p] = [sync[p] EXCEPT !.left = sync[p].left \ {a}]]
    BY <1>3 DEF RecordAlerts
  <2> QED
    BY <1>1, <2>1 DEF RecordAlerts, Others
<1> QED
  BY <1>2, <1>3

LEMMA FailureMoves ==
  ASSUME Types, NEW p \in Sync, Interrupt(p) \/ LateInterrupt(p)
  PROVE  /\ UNCHANGED <<notices, stored, clock>> /\ Others(p) /\ sync'[p] = Idle
         /\ UNCHANGED <<faults.overlaps, faults.health, faults.outages, faults.deferred>>
         /\ \/ sync[p].pc \in {"start", "write"} /\ UNCHANGED faults.late
            \/ sync[p].pc \in {"commit", "decide", "events"} /\ faults'.late = faults.late + 1
<1>1. sync \in [Sync -> SyncType] /\ faults \in FaultType
  BY DEF Types
<1>2. UNCHANGED <<notices, stored, clock>> /\ Others(p) /\ sync'[p] = Idle
  BY <1>1 DEF Interrupt, LateInterrupt, Abandon, Others
<1>3. CASE Interrupt(p)
  <2>1. faults' = [faults EXCEPT !.interrupts = faults.interrupts + 1]
    BY <1>3 DEF Interrupt
  <2> QED
    BY <1>1, <1>2, <1>3, <2>1 DEF Interrupt, FaultType
<1>4. CASE LateInterrupt(p)
  <2>1. faults' = [faults EXCEPT !.late = faults.late + 1]
    BY <1>4 DEF LateInterrupt
  <2> QED
    BY <1>1, <1>2, <1>4, <2>1 DEF LateInterrupt, FaultType
<1> QED
  BY <1>3, <1>4

(* The largest of some of the first n numbers.                              *)
LEMMA MaxShape ==
  ASSUME NEW n \in Nat, NEW S \in SUBSET (1 .. n), S # {}
  PROVE  Max(S) \in S /\ \A i \in S : i <= Max(S)
<1> DEFINE T == {n - i : i \in S}
           R == OpToRel(<, Nat)
<1>1. T \in SUBSET Nat /\ T # {}
  <2>1. \A i \in S : n - i \in Nat
    OBVIOUS
  <2> QED
    BY <2>1
<1>2. IsWellFoundedOn(R, Nat)
  BY NatLessThanWellFounded
<1>3. \A x, y \in Nat : x < y => <<x, y>> \in R
  BY DEF OpToRel
<1> HIDE DEF R
<1>4. PICK x \in T : \A y \in T : ~(<<y, x>> \in R)
  BY <1>1, <1>2, WFMin
<1>5. \A y \in T : x <= y
  <2> HIDE DEF T
  <2>1. \A y \in T : ~(y < x) /\ y \in Nat /\ x \in Nat
    BY <1>1, <1>3, <1>4, Zenon
  <2> QED
    BY <2>1
<1>6. PICK i \in S : x = n - i
  BY <1>4
<1>7. \A j \in S : j <= i
  <2>1. \A j \in S : x <= n - j
    BY <1>5
  <2> QED
    BY <1>6, <2>1
<1>8. \E k \in S : \A y \in S : k >= y
  BY <1>7
<1> HIDE DEF T
<1>9. Max(S) \in S /\ \A y \in S : Max(S) >= y
  BY <1>8 DEF Max
<1> QED
  BY <1>9

(* The record about a tender that decides is the last one.                  *)
LEMMA ObservedShape ==
  ASSUME NEW t \in Tender, NEW records \in Seq(Notice)
  PROVE  \/ /\ \A i \in 1 .. Len(records) : records[i].tender # t
            /\ Observed(t, records) = lifecycle[t]
         \/ \E k \in 1 .. Len(records) :
              /\ records[k].tender = t /\ Observed(t, records) = records[k].open
              /\ \A i \in 1 .. Len(records) : records[i].tender = t => i <= k
<1> DEFINE about == {i \in 1 .. Len(records) : records[i].tender = t}
<1>1. DOMAIN records = 1 .. Len(records) /\ Len(records) \in Nat
  BY LenProperties
<1>2. Observed(t, records) = IF about = {} THEN lifecycle[t] ELSE records[Max(about)].open
  BY <1>1 DEF Observed
<1>3. CASE about = {}
  BY <1>2, <1>3
<1>4. CASE about # {}
  <2>1. about \in SUBSET (1 .. Len(records))
    OBVIOUS
  <2> HIDE DEF about
  <2>2. Max(about) \in about /\ \A i \in about : i <= Max(about)
    BY <1>1, <1>4, <2>1, MaxShape
  <2> QED
    BY <1>2, <1>4, <2>2 DEF about
<1> QED
  BY <1>3, <1>4

-----------------------------------------------------------------------------
(* Types and bounds of everything, what Types leaves out.                   *)
Stamps ==
  \A t \in Tender : tenders[t] # None =>
    tenders[t].first \in 1 .. clock /\ tenders[t].last \in 1 .. clock

(* A sync that has fetched has a stamp, one that has begun a run its id.    *)
Progress ==
  \A p \in Sync :
    /\ sync[p].seen <= clock /\ sync[p].run <= Len(runs)
    /\ sync[p].pc # "idle" => sync[p].seen >= 1
    /\ sync[p].pc \in {"write", "commit"} => sync[p].run >= 1

Bounds ==
  /\ \A s \in Source : Len(notices[s]) <= MaxNotices
  /\ Stamps /\ Progress
  /\ lifecycle \in [Tender -> BOOLEAN \cup {None}]
  /\ \A i \in 1 .. Len(runs) : runs[i] <= clock
  /\ decided \subseteq Account \X Tender /\ alerts \subseteq decided

(* Steps that write neither tenders nor runs.                               *)
LEMMA BoundsStay ==
  ASSUME Inv, Bounds, UNCHANGED <<tenders, runs>>,
         clock' \in Nat, clock <= clock',
         Progress', \A s \in Source : Len(notices'[s]) <= MaxNotices,
         lifecycle' \in [Tender -> BOOLEAN \cup {None}],
         decided' \subseteq Account \X Tender, alerts' \subseteq decided'
  PROVE  Bounds'
<1>1. clock \in Nat /\ runs \in Seq(Nat)
      /\ tenders \in [Tender -> [first : Nat, last : Nat] \cup {None}]
  BY DEF Inv, Types
<1>2. Stamps'
  <2> SUFFICES ASSUME NEW t \in Tender, tenders[t] # None
               PROVE  tenders[t].first \in 1 .. clock' /\ tenders[t].last \in 1 .. clock'
    BY DEF Stamps
  <2>1. tenders[t].first \in 1 .. clock /\ tenders[t].last \in 1 .. clock
    BY DEF Bounds, Stamps
  <2> QED
    BY <1>1, <2>1
<1>3. \A i \in 1 .. Len(runs') : runs'[i] <= clock'
  <2>1. \A i \in 1 .. Len(runs) : runs[i] <= clock /\ runs[i] \in Nat
    BY <1>1, ElementOfSeq DEF Bounds
  <2> QED
    BY <1>1, <2>1
<1> QED
  BY <1>2, <1>3 DEF Bounds

LEMMA ProgressOne ==
  ASSUME Inv, Bounds, NEW p \in Sync, Others(p), Len(runs') \in Nat, clock' \in Nat,
         Len(runs) <= Len(runs'), clock <= clock',
         sync'[p].seen <= clock', sync'[p].run <= Len(runs'),
         sync'[p].pc # "idle" => sync'[p].seen >= 1,
         sync'[p].pc \in {"write", "commit"} => sync'[p].run >= 1
  PROVE  Progress'
<1> SUFFICES ASSUME NEW q \in Sync, q # p
             PROVE  /\ sync'[q].seen <= clock' /\ sync'[q].run <= Len(runs')
                    /\ sync'[q].pc # "idle" => sync'[q].seen >= 1
                    /\ sync'[q].pc \in {"write", "commit"} => sync'[q].run >= 1
  BY DEF Progress
<1>1. sync'[q] = sync[q] /\ clock \in Nat /\ sync[q].seen \in Nat /\ sync[q].run \in Nat
      /\ Len(runs) \in Nat
  BY LenProperties DEF Others, Inv, Types, SyncType
<1>2. /\ sync[q].seen <= clock /\ sync[q].run <= Len(runs)
      /\ sync[q].pc # "idle" => sync[q].seen >= 1
      /\ sync[q].pc \in {"write", "commit"} => sync[q].run >= 1
  BY DEF Bounds, Progress
<1> QED
  BY <1>1, <1>2

(* The fields of a sync, and of what it has staged.                         *)
LEMMA SyncFields ==
  ASSUME Types, NEW p \in Sync
  PROVE  /\ sync[p] \in SyncType /\ sync[p].seen \in Nat /\ sync[p].run \in Nat
         /\ sync[p].rows \in SUBSET Tender /\ sync[p].left \in SUBSET Account
         /\ sync[p].pc \in {"idle", "start", "write", "commit", "decide", "events"}
         /\ clock \in Nat /\ runs \in Seq(Nat) /\ Len(runs) \in Nat
         /\ \A s \in Source : sync[p].staged[s] # None =>
              /\ sync[p].staged[s].records \in Seq(Notice)
              /\ Len(sync[p].staged[s].records) \in Nat
              /\ sync[p].staged[s].cursor \in Nat
<1>1. sync[p] \in SyncType /\ clock \in Nat /\ runs \in Seq(Nat)
  BY DEF Types
<1>2. ASSUME NEW s \in Source, sync[p].staged[s] # None
      PROVE  /\ sync[p].staged[s].records \in Seq(Notice)
             /\ Len(sync[p].staged[s].records) \in Nat
             /\ sync[p].staged[s].cursor \in Nat
  <2>1. sync[p].staged[s] \in Staged
    BY <1>1, <1>2 DEF SyncType
  <2>2. /\ sync[p].staged[s].records \in Seq(Notice)
        /\ sync[p].staged[s].cursor \in Nat
    BY <2>1 DEF Staged
  <2> QED
    BY <2>2, LenProperties
<1> QED
  BY <1>1, <1>2, LenProperties DEF SyncType

LEMMA BoundsInit == Init => Bounds
<1> SUFFICES ASSUME Init PROVE Bounds
  OBVIOUS
<1>1. /\ \A s \in Source : notices[s] = <<>>
      /\ \A t \in Tender : tenders[t] = None
      /\ lifecycle = [t \in Tender |-> None] /\ runs = <<>> /\ decided = {} /\ alerts = {}
      /\ clock = 0
      /\ \A p \in Sync : sync[p].seen = 0 /\ sync[p].run = 0 /\ sync[p].pc = "idle"
  BY DEF Init, Idle
<1>2. MaxNotices \in Nat
  BY RadarAssumption
<1> QED
  BY <1>1, <1>2 DEF Bounds, Stamps, Progress

LEMMA PublishShape ==
  ASSUME Types, NEW n \in Notice, Publish(n)
  PROVE  /\ SourceOf[n.tender] \in Source /\ UNCHANGED <<stored, sync, clock, faults>>
         /\ Len(notices[SourceOf[n.tender]]) < MaxNotices
         /\ \A s \in Source :
              /\ s # SourceOf[n.tender] => notices'[s] = notices[s]
              /\ s = SourceOf[n.tender] =>
                   /\ Len(notices'[s]) = Len(notices[s]) + 1
                   /\ notices'[s][Len(notices[s]) + 1] = n
                   /\ \A i \in 1 .. Len(notices[s]) : notices'[s][i] = notices[s][i]
<1> DEFINE s0 == SourceOf[n.tender]
<1>1. /\ s0 \in Source
      /\ notices' = [notices EXCEPT ![s0] = Append(notices[s0], n)]
      /\ UNCHANGED <<stored, sync, clock, faults>> /\ Len(notices[s0]) < MaxNotices
  BY RadarAssumption DEF Publish, Notice
<1>2. notices \in [Source -> Seq(Notice)]
  BY DEF Types
<1>3. /\ notices'[s0] = Append(notices[s0], n) /\ notices[s0] \in Seq(Notice)
      /\ \A s \in Source : s # s0 => notices'[s] = notices[s]
  BY <1>1, <1>2
<1>4. /\ Len(notices'[s0]) = Len(notices[s0]) + 1
      /\ notices'[s0][Len(notices[s0]) + 1] = n
      /\ \A i \in 1 .. Len(notices[s0]) : notices'[s0][i] = notices[s0][i]
  BY <1>3, AppendProperties
<1> QED
  BY <1>1, <1>3, <1>4

LEMMA PublishBounds ==
  ASSUME Inv, Bounds, NEW n \in Notice, Publish(n)
  PROVE  Bounds'
<1>1. UNCHANGED <<tenders, lifecycle, runs, decided, alerts, sync, clock>>
  BY PublishShape DEF Inv, stored
<1>2. \A s \in Source : Len(notices'[s]) <= MaxNotices
  <2> TAKE s \in Source
  <2>1. Len(notices[s]) \in Nat /\ Len(notices[s]) <= MaxNotices /\ MaxNotices \in Nat
    BY SourceTyped, RadarAssumption DEF Inv, Bounds
  <2>2. CASE s = SourceOf[n.tender]
    <3>1. Len(notices'[s]) = Len(notices[s]) + 1 /\ Len(notices[s]) < MaxNotices
      BY <2>2, PublishShape DEF Inv
    <3> QED
      BY <2>1, <3>1
  <2>3. CASE s # SourceOf[n.tender]
    BY <2>1, <2>3, PublishShape DEF Inv
  <2> QED
    BY <2>2, <2>3
<1> QED
  BY <1>1, <1>2 DEF Bounds, Stamps, Progress

LEMMA FetchBounds ==
  ASSUME Inv, Bounds, NEW p \in Sync, NEW ok \in SUBSET (Source \ {TED}), NEW h \in BOOLEAN,
         Fetch(p, ok, h)
  PROVE  Bounds'
<1>1. /\ UNCHANGED <<notices, tenders, runs, lifecycle, decided, alerts>>
      /\ clock' = clock + 1 /\ Others(p)
      /\ sync'[p].pc = "start" /\ sync'[p].seen = clock + 1 /\ sync'[p].run = 0
  <2>1. Fetched(p, ok, h)
    BY FetchMoves DEF Inv
  <2> QED
    BY <2>1 DEF Fetched, stored
<1>2. clock \in Nat /\ Len(runs) \in Nat
  BY SyncFields DEF Inv
<1>3. Progress'
  BY <1>1, <1>2, ProgressOne
<1> QED
  BY <1>1, <1>2, <1>3, BoundsStay DEF Bounds

LEMMA StartRunBounds ==
  ASSUME Inv, Bounds, NEW p \in Sync, StartRun(p)
  PROVE  Bounds'
<1>1. /\ UNCHANGED <<notices, tenders, lifecycle, decided, alerts, clock>>
      /\ Others(p) /\ sync[p].pc = "start"
      /\ sync'[p] = [sync[p] EXCEPT !.pc = "write", !.run = Len(runs) + 1]
      /\ Len(runs') = Len(runs) + 1 /\ runs'[Len(runs) + 1] = 0
      /\ \A i \in 1 .. Len(runs) : runs'[i] = runs[i]
  BY StartRunMoves DEF Inv
<1>2. /\ clock \in Nat /\ Len(runs) \in Nat /\ sync[p].seen \in Nat /\ sync[p] \in SyncType
      /\ sync[p].seen <= clock /\ sync[p].seen >= 1
  BY <1>1, SyncFields DEF Inv, Bounds, Progress
<1>3. sync'[p].seen = sync[p].seen /\ sync'[p].run = Len(runs) + 1
  BY <1>1, <1>2 DEF SyncType
<1>4. Progress'
  <2>1. /\ clock' = clock /\ Others(p) /\ Len(runs') \in Nat /\ Len(runs) <= Len(runs')
        /\ sync'[p].seen <= clock' /\ sync'[p].seen >= 1
        /\ sync'[p].run <= Len(runs') /\ sync'[p].run >= 1
    BY <1>1, <1>2, <1>3
  <2> QED
    BY <1>2, <2>1, ProgressOne
<1>5. \A i \in 1 .. Len(runs') : runs'[i] <= clock
  BY <1>1, <1>2 DEF Bounds
<1> QED
  BY <1>1, <1>4, <1>5 DEF Bounds, Stamps

LEMMA WriteChunkBounds ==
  ASSUME Inv, Bounds, NEW p \in Sync, WriteChunk(p)
  PROVE  Bounds'
<1>1. /\ UNCHANGED <<notices, lifecycle, runs, decided, alerts, clock>>
      /\ Others(p) /\ sync[p].pc = "write"
  BY WriteChunkMoves DEF Inv
<1>2. PICK chunk \in SUBSET sync[p].rows :
        /\ sync'[p] = [sync[p] EXCEPT !.rows = sync[p].rows \ chunk]
        /\ \A t \in Tender :
             /\ t \notin chunk => tenders'[t] = tenders[t]
             /\ t \in chunk /\ tenders[t] = None =>
                  tenders'[t] = [first |-> sync[p].seen, last |-> sync[p].seen]
             /\ t \in chunk /\ tenders[t] # None =>
                  tenders'[t] = [first |-> tenders[t].first, last |-> sync[p].seen]
  BY WriteChunkMoves DEF Inv
<1>3. /\ clock \in Nat /\ Len(runs) \in Nat /\ sync[p].seen \in Nat /\ sync[p] \in SyncType
      /\ sync[p].seen <= clock /\ sync[p].seen >= 1
      /\ sync[p].run <= Len(runs) /\ sync[p].run >= 1
  BY <1>1, SyncFields DEF Inv, Bounds, Progress
<1>4. Progress'
  <2>1. sync'[p].seen = sync[p].seen /\ sync'[p].run = sync[p].run
    BY <1>2, <1>3 DEF SyncType
  <2> QED
    BY <1>1, <1>3, <2>1, ProgressOne
<1>5. Stamps'
  <2> SUFFICES ASSUME NEW t \in Tender, tenders'[t] # None
               PROVE  tenders'[t].first \in 1 .. clock /\ tenders'[t].last \in 1 .. clock
    BY <1>1 DEF Stamps
  <2>1. tenders[t] # None =>
          tenders[t].first \in 1 .. clock /\ tenders[t].last \in 1 .. clock
    BY DEF Bounds, Stamps
  <2>2. sync[p].seen \in 1 .. clock
    BY <1>3
  <2>3. t \notin chunk => tenders'[t] = tenders[t]
    BY <1>2
  <2>4. ASSUME t \in chunk, tenders[t] = None
        PROVE  tenders'[t].first = sync[p].seen /\ tenders'[t].last = sync[p].seen
    <3>1. tenders'[t] = [first |-> sync[p].seen, last |-> sync[p].seen]
      BY <1>2, <2>4, Zenon
    <3> QED
      BY <3>1
  <2>5. ASSUME t \in chunk, tenders[t] # None
        PROVE  tenders'[t].first = tenders[t].first /\ tenders'[t].last = sync[p].seen
    <3>1. tenders'[t] = [first |-> tenders[t].first, last |-> sync[p].seen]
      BY <1>2, <2>5, Zenon
    <3> QED
      BY <3>1
  <2> QED
    BY <2>1, <2>2, <2>3, <2>4, <2>5
<1> QED
  BY <1>1, <1>4, <1>5 DEF Bounds

LEMMA FinishBounds ==
  ASSUME Inv, Bounds, NEW p \in Sync, Finish(p)
  PROVE  Bounds'
<1>1. sync[p].pc = "write"
  BY DEF Finish
<1>2. /\ clock \in Nat /\ Len(runs) \in Nat /\ sync[p].seen \in Nat /\ sync[p] \in SyncType
      /\ sync[p].seen <= clock /\ sync[p].seen >= 1
      /\ sync[p].run \in 1 .. Len(runs)
  BY <1>1, SyncFields DEF Inv, Bounds, Progress
<1>3. /\ UNCHANGED <<notices, tenders, lifecycle, decided, alerts, clock>>
      /\ Others(p) /\ sync'[p] = [sync[p] EXCEPT !.pc = "commit"]
      /\ Len(runs') = Len(runs)
      /\ \A i \in 1 .. Len(runs) :
           runs'[i] = IF i = sync[p].run THEN sync[p].seen ELSE runs[i]
  BY <1>2, FinishMoves DEF Inv
<1>4. Progress'
  <2>1. sync'[p].seen = sync[p].seen /\ sync'[p].run = sync[p].run
    BY <1>2, <1>3 DEF SyncType
  <2>2. /\ clock' = clock /\ Others(p) /\ Len(runs') \in Nat /\ Len(runs) <= Len(runs')
        /\ sync'[p].seen <= clock' /\ sync'[p].seen >= 1
        /\ sync'[p].run <= Len(runs') /\ sync'[p].run >= 1
    BY <1>2, <1>3, <2>1
  <2> QED
    BY <1>2, <2>2, ProgressOne
<1>5. \A i \in 1 .. Len(runs') : runs'[i] <= clock
  BY <1>2, <1>3 DEF Bounds
<1> QED
  BY <1>3, <1>4, <1>5 DEF Bounds, Stamps

LEMMA CommitBounds ==
  ASSUME Inv, Bounds, NEW p \in Sync, CommitStaged(p)
  PROVE  Bounds'
<1>1. /\ UNCHANGED <<notices, tenders, runs, decided, alerts, clock>>
      /\ Others(p) /\ sync[p].pc = "commit"
      /\ sync'[p] = [sync[p] EXCEPT !.pc = "decide", !.staged = [s \in Source |-> None]]
      /\ lifecycle' = [t \in Tender |->
           IF sync[p].staged[SourceOf[t]] = None THEN lifecycle[t]
           ELSE Observed(t, sync[p].staged[SourceOf[t]].records)]
  BY CommitMoves DEF Inv
<1>2. /\ clock \in Nat /\ Len(runs) \in Nat /\ sync[p].seen \in Nat /\ sync[p] \in SyncType
      /\ sync[p].seen <= clock /\ sync[p].seen >= 1 /\ sync[p].run <= Len(runs)
  BY <1>1, SyncFields DEF Inv, Bounds, Progress
<1>3. Progress'
  <2>1. sync'[p].seen = sync[p].seen /\ sync'[p].run = sync[p].run /\ sync'[p].pc = "decide"
    BY <1>1, <1>2 DEF SyncType
  <2>2. clock' = clock /\ Others(p) /\ Len(runs') = Len(runs)
    BY <1>1
  <2> QED
    BY <1>2, <2>1, <2>2, ProgressOne
<1>4. lifecycle' \in [Tender -> BOOLEAN \cup {None}]
  <2>1. ASSUME NEW t \in Tender PROVE lifecycle'[t] \in BOOLEAN \cup {None}
    <3>1. SourceOf[t] \in Source /\ lifecycle[t] \in BOOLEAN \cup {None}
      BY RadarAssumption DEF Bounds
    <3>2. CASE sync[p].staged[SourceOf[t]] = None
      BY <1>1, <3>1, <3>2
    <3>3. CASE sync[p].staged[SourceOf[t]] # None
      <4>1. PICK records \in Seq(Notice) : records = sync[p].staged[SourceOf[t]].records
        BY <3>1, <3>3, SyncFields DEF Inv
      <4>2. \A i \in 1 .. Len(records) : records[i].open \in BOOLEAN
        <5>1. \A i \in 1 .. Len(records) : records[i] \in Notice
          BY <4>1, ElementOfSeq
        <5> QED
          BY <5>1 DEF Notice
      <4>3. Observed(t, records) \in BOOLEAN \cup {None}
        BY <3>1, <4>2, ObservedShape
      <4> QED
        BY <1>1, <3>3, <4>1, <4>3
    <3> QED
      BY <3>2, <3>3
  <2> QED
    BY <1>1, <2>1
<1> QED
  BY <1>1, <1>2, <1>3, <1>4, BoundsStay DEF Bounds

LEMMA DecideBounds ==
  ASSUME Inv, Bounds, NEW p \in Sync, Decide(p)
  PROVE  Bounds'
<1>1. /\ UNCHANGED <<notices, tenders, runs, lifecycle, alerts, clock>>
      /\ Others(p) /\ sync[p].pc = "decide"
      /\ sync'[p] = [sync[p] EXCEPT !.pc = "events", !.left = Account]
      /\ decided' = decided \cup UNION {{a} \X Rescored(a) : a \in Account}
  BY DecideMoves DEF Inv
<1>2. /\ clock \in Nat /\ Len(runs) \in Nat /\ sync[p].seen \in Nat /\ sync[p] \in SyncType
      /\ sync[p].seen <= clock /\ sync[p].seen >= 1 /\ sync[p].run <= Len(runs)
  BY <1>1, SyncFields DEF Inv, Bounds, Progress
<1>3. Progress'
  <2>1. sync'[p].seen = sync[p].seen /\ sync'[p].run = sync[p].run /\ sync'[p].pc = "events"
    BY <1>1, <1>2 DEF SyncType
  <2>2. clock' = clock /\ Others(p) /\ Len(runs') = Len(runs)
    BY <1>1
  <2> QED
    BY <1>2, <2>1, <2>2, ProgressOne
<1>4. decided' \subseteq Account \X Tender /\ alerts' \subseteq decided'
  <2>1. \A a \in Account : Rescored(a) \subseteq Tender
    BY DEF Rescored, Stale, SeenAt
  <2> QED
    BY <1>1, <2>1 DEF Bounds
<1> QED
  BY <1>1, <1>2, <1>3, <1>4, BoundsStay DEF Bounds

LEMMA RecordBounds ==
  ASSUME Inv, Bounds, NEW p \in Sync, NEW a \in Account, RecordAlerts(p, a)
  PROVE  Bounds'
<1>1. /\ UNCHANGED <<notices, tenders, lifecycle, runs, decided, clock>>
      /\ Others(p) /\ sync[p].pc = "events"
      /\ \/ sync'[p] = Idle
         \/ sync'[p] = [sync[p] EXCEPT !.left = sync[p].left \ {a}]
      /\ alerts' = alerts \cup
           ({a} \X {t \in Fresh : <<a, t>> \in decided /\ t \in Fits[a] /\ Actionable(t)})
  BY RecordMoves DEF Inv
<1>2. /\ clock \in Nat /\ Len(runs) \in Nat /\ sync[p].seen \in Nat /\ sync[p] \in SyncType
      /\ sync[p].seen <= clock /\ sync[p].seen >= 1 /\ sync[p].run <= Len(runs)
  BY <1>1, SyncFields DEF Inv, Bounds, Progress
<1>3. Progress'
  <2>1. CASE sync'[p] = Idle
    <3>1. sync'[p].seen = 0 /\ sync'[p].run = 0 /\ sync'[p].pc = "idle"
      BY <2>1 DEF Idle
    <3> QED
      BY <1>1, <1>2, <3>1, ProgressOne
  <2>2. CASE sync'[p] = [sync[p] EXCEPT !.left = sync[p].left \ {a}]
    <3>1. sync'[p].seen = sync[p].seen /\ sync'[p].run = sync[p].run /\ sync'[p].pc = "events"
      BY <1>1, <1>2, <2>2 DEF SyncType
    <3> QED
      BY <1>1, <1>2, <3>1, ProgressOne
  <2> QED
    BY <1>1, <2>1, <2>2
<1>4. alerts' \subseteq decided'
  BY <1>1 DEF Bounds
<1> QED
  BY <1>1, <1>2, <1>3, <1>4, BoundsStay DEF Bounds

LEMMA FailureBounds ==
  ASSUME Inv, Bounds, NEW p \in Sync, Interrupt(p) \/ LateInterrupt(p)
  PROVE  Bounds'
<1>1. /\ UNCHANGED <<notices, tenders, lifecycle, runs, decided, alerts, clock>>
      /\ Others(p) /\ sync'[p] = Idle
  BY FailureMoves DEF Inv, stored
<1>2. clock \in Nat /\ Len(runs) \in Nat
  BY SyncFields DEF Inv
<1>3. sync'[p].seen = 0 /\ sync'[p].run = 0 /\ sync'[p].pc = "idle"
  BY <1>1 DEF Idle
<1>4. Progress'
  BY <1>1, <1>2, <1>3, ProgressOne
<1> QED
  BY <1>1, <1>2, <1>4, BoundsStay DEF Bounds

LEMMA BoundsStep == Inv /\ Bounds /\ [Next]_vars => Bounds'
<1> SUFFICES ASSUME Inv, Bounds, [Next]_vars PROVE Bounds'
  OBVIOUS
<1>1. ASSUME NEW n \in Notice, Publish(n) PROVE Bounds'
  BY <1>1, PublishBounds
<1>2. ASSUME NEW p \in Sync, NEW ok \in SUBSET (Source \ {TED}), NEW h \in BOOLEAN,
             Fetch(p, ok, h)
      PROVE  Bounds'
  BY <1>2, FetchBounds
<1>3. ASSUME NEW p \in Sync, SyncStep(p) PROVE Bounds'
  BY <1>3, StartRunBounds, WriteChunkBounds, FinishBounds, CommitBounds, DecideBounds,
     RecordBounds DEF SyncStep
<1>4. ASSUME NEW p \in Sync, Interrupt(p) \/ LateInterrupt(p) PROVE Bounds'
  BY <1>4, FailureBounds
<1>5. CASE UNCHANGED vars
  BY <1>5 DEF Bounds, Stamps, Progress, vars, stored
<1> QED
  BY <1>1, <1>2, <1>3, <1>4, <1>5 DEF Next

(* Type correctness: no cursor runs past what its source published, no row  *)
(* is stamped later than a fetch, every sync writes under a run of its own, *)
(* and nothing is alerted that was not decided.                             *)
THEOREM TypeCorrect == Spec => []TypeOK
<1>1. Init => Inv /\ Bounds
  BY InvInit, BoundsInit
<1>2. Inv /\ Bounds /\ [Next]_vars => (Inv /\ Bounds)'
  BY InvStep, BoundsStep
<1>3. Inv /\ Bounds => TypeOK
  <2> SUFFICES ASSUME Inv, Bounds PROVE TypeOK
    OBVIOUS
  <2>1. cursor \in [Source -> 0 .. MaxNotices]
    <3>1. \A s \in Source : cursor[s] \in 0 .. MaxNotices
      <4> TAKE s \in Source
      <4>1. cursor[s] \in Nat /\ Len(notices[s]) \in Nat /\ MaxNotices \in Nat
            /\ cursor[s] <= Len(notices[s]) /\ Len(notices[s]) <= MaxNotices
        BY SourceTyped, RadarAssumption DEF Inv, Committed, Bounds
      <4> QED
        BY <4>1
    <3> QED
      BY <3>1 DEF Inv, Types
  <2>2. tenders \in [Tender -> [first : 1 .. clock, last : 1 .. clock] \cup {None}]
    <3>1. \A t \in Tender : tenders[t] \in [first : 1 .. clock, last : 1 .. clock] \cup {None}
      <4> TAKE t \in Tender
      <4>1. tenders[t] \in [first : Nat, last : Nat] \cup {None}
        BY DEF Inv, Types
      <4> QED
        BY <4>1 DEF Bounds, Stamps
    <3> QED
      BY <3>1 DEF Inv, Types
  <2>3. runs \in Seq(0 .. clock)
    <3>1. runs \in Seq(Nat) /\ clock \in Nat
      BY DEF Inv, Types
    <3>2. \A i \in 1 .. Len(runs) : runs[i] \in 0 .. clock
      BY <3>1, ElementOfSeq DEF Bounds
    <3> QED
      BY <3>1, <3>2, LenProperties
  <2>4. sync \in [Sync -> [pc : {"idle", "start", "write", "commit", "decide", "events"},
                           rows : SUBSET Tender, staged : [Source -> Staged \cup {None}],
                           seen : 0 .. clock, run : 0 .. Len(runs), left : SUBSET Account]]
    <3>1. \A p \in Sync : sync[p] \in SyncType /\ sync[p].seen \in 0 .. clock
                          /\ sync[p].run \in 0 .. Len(runs)
      BY SyncFields DEF Inv, Bounds, Progress
    <3> QED
      BY <3>1 DEF Inv, Types, SyncType
  <2> QED
    BY <2>1, <2>2, <2>3, <2>4 DEF TypeOK, Inv, Types, Bounds, FaultType
<1> QED
  BY <1>1, <1>2, <1>3, PTL DEF Spec

-----------------------------------------------------------------------------
(* The lifecycle table.  An excerpt is read after one watermark and taken   *)
(* to another; what it says of a tender may only be written over something  *)
(* that was read up to where it begins.                                     *)
Since(st) == st.cursor - Len(st.records)

About(t, i) == notices[SourceOf[t]][i].tender = t

(* x is the state of t at some notice not older than the first n of its     *)
(* source.                                                                  *)
Reflects(t, n, x) ==
  (\E j \in 1 .. n : About(t, j)) =>
     \E i \in 1 .. Len(notices[SourceOf[t]]) :
       /\ About(t, i) /\ x = notices[SourceOf[t]][i].open
       /\ \A j \in 1 .. n : About(t, j) => j <= i

(* What is staged for a national source was published by it, in order.      *)
Excerpt(s, st) ==
  /\ Len(st.records) <= st.cursor
  /\ \A i \in 1 .. Len(st.records) : st.records[i] = notices[s][Since(st) + i]

Excerpts ==
  \A p \in Sync : \A s \in Source :
    /\ sync[p].pc \notin {"start", "write", "commit"} => sync[p].staged[s] = None
    /\ sync[p].staged[s] # None => IF s = TED THEN sync[p].staged[s].records = <<>>
                                   ELSE Excerpt(s, sync[p].staged[s])

(* While at most one sync was begun during another, no excerpt begins after *)
(* the watermark, nor after one that is still to be written.                *)
Joined ==
  faults.overlaps < 2 =>
    \A p \in Sync : \A s \in Source \ {TED} : sync[p].staged[s] # None =>
      /\ Since(sync[p].staged[s]) <= cursor[s]
      /\ \A q \in Sync : sync[q].staged[s] # None =>
           Since(sync[p].staged[s]) <= sync[q].staged[s].cursor

(* As long as none was, there is one at a time, ahead of the watermark.     *)
OneAtATime ==
  faults.overlaps = 0 =>
    /\ \A p, q \in Sync : sync[p].pc # "idle" /\ sync[q].pc # "idle" => p = q
    /\ \A p \in Sync : \A s \in Source \ {TED} : sync[p].staged[s] # None =>
         cursor[s] <= sync[p].staged[s].cursor

UpToDate ==
  faults.overlaps < 2 => \A t \in Tender :
    SourceOf[t] # TED => Reflects(t, cursor[SourceOf[t]], lifecycle[t])

Reading == Excerpts /\ Joined /\ OneAtATime /\ UpToDate

LEMMA ReflectsWatermark == Inv /\ UpToDate => LifecycleAtWatermark
<1> SUFFICES ASSUME Inv, UpToDate, faults.overlaps < 2, NEW t \in Tender,
                    SourceOf[t] # TED,
                    {i \in 1 .. cursor[SourceOf[t]] : notices[SourceOf[t]][i].tender = t} # {}
             PROVE  \E i \in Max({j \in 1 .. cursor[SourceOf[t]] :
                                    notices[SourceOf[t]][j].tender = t})
                             .. Len(notices[SourceOf[t]]) :
                      notices[SourceOf[t]][i].tender = t
                        /\ lifecycle[t] = notices[SourceOf[t]][i].open
  BY DEF LifecycleAtWatermark
<1> DEFINE s == SourceOf[t]
           read == {i \in 1 .. cursor[s] : notices[s][i].tender = t}
<1>1. s \in Source /\ cursor[s] \in Nat /\ Len(notices[s]) \in Nat
  BY RadarAssumption, SourceTyped DEF Inv
<1>2. read \in SUBSET (1 .. cursor[s]) /\ read # {}
  OBVIOUS
<1>3. PICK i \in 1 .. Len(notices[s]) :
        /\ notices[s][i].tender = t /\ lifecycle[t] = notices[s][i].open
        /\ \A j \in read : j <= i
  <2>1. Reflects(t, cursor[s], lifecycle[t])
    BY DEF UpToDate
  <2>2. \E j \in 1 .. cursor[s] : About(t, j)
    BY DEF About
  <2> QED
    BY <2>1, <2>2 DEF Reflects, About
<1> HIDE DEF read
<1>4. Max(read) \in read
  BY <1>1, <1>2, MaxShape
<1>5. Max(read) \in 1 .. cursor[s] /\ Max(read) <= i
  BY <1>2, <1>3, <1>4, Zenon
<1>6. i \in Max(read) .. Len(notices[s])
  BY <1>1, <1>5
<1> QED
  BY <1>3, <1>6 DEF read

(* Writing an excerpt that joins what was read brings it up to its end.     *)
LEMMA CommitReflects ==
  ASSUME Inv, NEW t \in Tender, SourceOf[t] # TED, NEW c \in Nat,
         NEW st \in Staged, Excerpt(SourceOf[t], st),
         st.cursor <= Len(notices[SourceOf[t]]), Since(st) <= c,
         Reflects(t, c, lifecycle[t])
  PROVE  Reflects(t, st.cursor, Observed(t, st.records))
<1> DEFINE s == SourceOf[t]
<1>1. PICK records \in Seq(Notice), n \in Nat : records = st.records /\ n = st.cursor
  BY DEF Staged
<1>2. PICK from \in Int : from = n - Len(records) /\ from = Since(st)
  BY <1>1, LenProperties DEF Since
<1>3. /\ Len(records) \in Nat /\ from >= 0 /\ n = from + Len(records) /\ from <= c
      /\ n <= Len(notices[s]) /\ Len(notices[s]) \in Nat
      /\ \A i \in 1 .. Len(records) : records[i] = notices[s][from + i]
  <2>1. Len(records) \in Nat /\ s \in Source /\ Len(notices[s]) \in Nat
    BY LenProperties, RadarAssumption, SourceTyped DEF Inv
  <2> QED
    BY <1>1, <1>2, <2>1 DEF Excerpt
<1>4. CASE \E k \in 1 .. Len(records) :
             /\ records[k].tender = t /\ Observed(t, records) = records[k].open
             /\ \A i \in 1 .. Len(records) : records[i].tender = t => i <= k
  <2>1. PICK k \in 1 .. Len(records) :
          /\ records[k].tender = t /\ Observed(t, records) = records[k].open
          /\ \A i \in 1 .. Len(records) : records[i].tender = t => i <= k
    BY <1>4
  <2>2. /\ from + k \in 1 .. Len(notices[s]) /\ About(t, from + k)
        /\ Observed(t, records) = notices[s][from + k].open
    BY <1>3, <2>1 DEF About
  <2>3. ASSUME NEW j \in 1 .. n, About(t, j) PROVE j <= from + k
    <3>1. CASE j <= from
      BY <1>3, <3>1
    <3>2. CASE j > from
      <4>1. j - from \in 1 .. Len(records) /\ from + (j - from) = j
        BY <1>3, <3>2
      <4>2. records[j - from].tender = t
        BY <1>3, <2>3, <4>1 DEF About
      <4>3. j - from <= k
        BY <2>1, <4>1, <4>2
      <4> QED
        BY <1>3, <4>3
    <3> QED
      BY <1>3, <3>1, <3>2
  <2> QED
    BY <1>1, <2>2, <2>3 DEF Reflects
<1>5. CASE /\ \A i \in 1 .. Len(records) : records[i].tender # t
           /\ Observed(t, records) = lifecycle[t]
  <2>1. \A j \in 1 .. n : About(t, j) => j \in 1 .. c
    <3> SUFFICES ASSUME NEW j \in 1 .. n, About(t, j), j > from PROVE FALSE
      BY <1>3
    <3>1. j - from \in 1 .. Len(records) /\ from + (j - from) = j
      BY <1>3
    <3> QED
      BY <1>3, <1>5, <3>1 DEF About
  <2> QED
    BY <1>1, <1>5, <2>1 DEF Reflects
<1> QED
  BY <1>1, <1>4, <1>5, ObservedShape

LEMMA ReadingInit == Init => Reading
<1> SUFFICES ASSUME Init PROVE Reading
  OBVIOUS
<1>1. /\ \A p \in Sync : sync[p].pc = "idle" /\ \A s \in Source : sync[p].staged[s] = None
      /\ \A s \in Source : cursor[s] = 0
  BY DEF Init, Idle
<1>2. \A t \in Tender : Reflects(t, cursor[SourceOf[t]], lifecycle[t])
  BY <1>1, RadarAssumption DEF Reflects
<1> QED
  BY <1>1, <1>2 DEF Reading, Excerpts, Joined, OneAtATime, UpToDate

(* Steps that leave watermark and lifecycle alone, and at most drop what a  *)
(* sync has staged.                                                         *)
LEMMA ReadingStays ==
  ASSUME Reading, UNCHANGED <<notices, cursor, lifecycle>>, UNCHANGED faults.overlaps,
         \A q \in Sync : sync'[q].pc # "idle" => sync[q].pc # "idle",
         \A q \in Sync : \A s \in Source :
           /\ sync'[q].staged[s] \in {None, sync[q].staged[s]}
           /\ sync'[q].pc \notin {"start", "write", "commit"} => sync'[q].staged[s] = None
  PROVE  Reading'
<1>1. \A q \in Sync : \A s \in Source : sync'[q].staged[s] # None =>
        sync[q].staged[s] # None /\ sync'[q].staged[s] = sync[q].staged[s]
  OBVIOUS
<1>2. Excerpts'
  <2> SUFFICES ASSUME NEW q \in Sync, NEW s \in Source, sync'[q].staged[s] # None
               PROVE  IF s = TED THEN sync'[q].staged[s].records = <<>>
                      ELSE Excerpt(s, sync[q].staged[s])'
    BY <1>1 DEF Excerpts, Excerpt, Since
  <2>1. sync'[q].staged[s] = sync[q].staged[s] /\ sync[q].staged[s] # None
    BY <1>1
  <2>2. IF s = TED THEN sync[q].staged[s].records = <<>> ELSE Excerpt(s, sync[q].staged[s])
    BY <2>1 DEF Reading, Excerpts
  <2> QED
    BY <2>1, <2>2 DEF Excerpt, Since
<1>3. Joined'
  BY <1>1 DEF Reading, Joined, Since
<1>4. OneAtATime'
  BY <1>1 DEF Reading, OneAtATime
<1>5. UpToDate'
  BY DEF Reading, UpToDate, Reflects, About
<1> QED
  BY <1>2, <1>3, <1>4, <1>5 DEF Reading

LEMMA PublishReading ==
  ASSUME Inv, Reading, NEW n \in Notice, Publish(n)
  PROVE  Reading'
<1>1. /\ UNCHANGED <<cursor, lifecycle, sync, faults>>
      /\ \A s \in Source :
           /\ Len(notices[s]) \in Nat /\ Len(notices'[s]) \in Nat
           /\ Len(notices[s]) <= Len(notices'[s])
           /\ \A i \in 1 .. Len(notices[s]) : notices'[s][i] = notices[s][i]
  <2>1. UNCHANGED <<stored, sync, faults>>
    BY PublishShape DEF Inv
  <2>2. ASSUME NEW s \in Source
        PROVE  /\ Len(notices[s]) \in Nat /\ Len(notices'[s]) \in Nat
               /\ Len(notices[s]) <= Len(notices'[s])
               /\ \A i \in 1 .. Len(notices[s]) : notices'[s][i] = notices[s][i]
    <3>1. Len(notices[s]) \in Nat
      BY SourceTyped DEF Inv
    <3>2. CASE s # SourceOf[n.tender]
      BY <3>1, <3>2, PublishShape DEF Inv
    <3>3. CASE s = SourceOf[n.tender]
      <4>1. Len(notices'[s]) = Len(notices[s]) + 1
            /\ \A i \in 1 .. Len(notices[s]) : notices'[s][i] = notices[s][i]
        BY <3>3, PublishShape DEF Inv
      <4> QED
        BY <3>1, <4>1
    <3> QED
      BY <3>2, <3>3
  <2> QED
    BY <2>1, <2>2 DEF stored
<1>2. Excerpts'
  <2> SUFFICES ASSUME NEW p \in Sync, NEW s \in Source, sync[p].staged[s] # None, s # TED
               PROVE  \A i \in 1 .. Len(sync[p].staged[s].records) :
                        sync[p].staged[s].records[i]
                          = notices'[s][Since(sync[p].staged[s]) + i]
    BY <1>1 DEF Reading, Excerpts, Excerpt, Since
  <2>1. PICK st : st = sync[p].staged[s]
    OBVIOUS
  <2>2. /\ Len(st.records) \in Nat /\ st.cursor \in Nat /\ st.cursor <= Len(notices[s])
        /\ Len(st.records) <= st.cursor
        /\ \A i \in 1 .. Len(st.records) : st.records[i] = notices[s][Since(st) + i]
    BY <2>1, SyncFields DEF Inv, Pending, StagedOK, Reading, Excerpts, Excerpt
  <2>3. \A i \in 1 .. Len(st.records) : Since(st) + i \in 1 .. Len(notices[s])
    BY <1>1, <2>2 DEF Since
  <2> QED
    BY <1>1, <2>1, <2>2, <2>3
<1>3. UpToDate'
  <2> SUFFICES ASSUME NEW t \in Tender, Reflects(t, cursor[SourceOf[t]], lifecycle[t])
               PROVE  Reflects(t, cursor[SourceOf[t]], lifecycle[t])'
    BY <1>1 DEF Reading, UpToDate
  <2>1. PICK s \in Source : s = SourceOf[t]
    BY RadarAssumption
  <2>2. cursor[s] \in Nat /\ cursor[s] <= Len(notices[s])
    BY SourceTyped DEF Inv, Committed
  <2>3. \A i \in 1 .. cursor[s] : i \in 1 .. Len(notices[s])
    BY <1>1, <2>2
  <2>4. \A i \in 1 .. Len(notices[s]) : i \in 1 .. Len(notices'[s])
    BY <1>1
  <2> QED
    BY <1>1, <2>1, <2>3, <2>4 DEF Reflects, About
<1> QED
  BY <1>1, <1>2, <1>3 DEF Reading, Joined, OneAtATime, Since

(* What a national source gives begins at its watermark.                    *)
LEMMA StageExcerpt ==
  ASSUME Inv, NEW s \in Source, s # TED
  PROVE  /\ Excerpt(s, Stage(s)) /\ Since(Stage(s)) = cursor[s]
         /\ Stage(s).cursor = Len(notices[s])
<1>1. /\ cursor[s] \in Nat /\ Len(notices[s]) \in Nat /\ cursor[s] <= Len(notices[s])
      /\ \A i \in 1 .. Len(notices[s]) : notices[s][i] \in Notice
  BY SourceTyped DEF Inv, Committed
<1>2. PICK given : given = SubSeq(notices[s], cursor[s] + 1, Len(notices[s]))
  OBVIOUS
<1>3. Stage(s) = [records |-> given, cursor |-> Len(notices[s])]
  BY <1>2 DEF Stage, Window
<1>4. /\ Len(given) = Len(notices[s]) - cursor[s]
      /\ \A i \in 1 .. Len(notices[s]) - cursor[s] : given[i] = notices[s][cursor[s] + i]
  <2>1. /\ Len(given) = IF cursor[s] + 1 <= Len(notices[s])
                          THEN Len(notices[s]) - (cursor[s] + 1) + 1 ELSE 0
        /\ \A i \in 1 .. Len(notices[s]) - (cursor[s] + 1) + 1 :
             given[i] = notices[s][cursor[s] + 1 + i - 1]
    <3>1. \A i \in cursor[s] + 1 .. Len(notices[s]) : notices[s][i] \in Notice
      BY <1>1
    <3> QED
      BY <1>1, <1>2, <3>1, SubSeqProperties
  <2> QED
    BY <1>1, <2>1
<1>5. Stage(s).records = given /\ Stage(s).cursor = Len(notices[s])
  BY <1>3
<1>6. Since(Stage(s)) = cursor[s]
  <2>1. Since(Stage(s)) = Len(notices[s]) - Len(given)
    BY <1>5 DEF Since
  <2> QED
    BY <1>1, <1>4, <2>1
<1> QED
  BY <1>1, <1>4, <1>5, <1>6 DEF Excerpt

LEMMA FetchReading ==
  ASSUME Inv, Reading, NEW p \in Sync, NEW ok \in SUBSET (Source \ {TED}), NEW h \in BOOLEAN,
         Fetch(p, ok, h)
  PROVE  Reading'
<1>1. /\ UNCHANGED <<notices, cursor, lifecycle>> /\ Others(p) /\ sync[p].pc = "idle"
      /\ sync'[p].pc = "start"
      /\ \A s \in Source : sync'[p].staged[s] = IF s \in ok \cup {TED} THEN Stage(s) ELSE None
      /\ Busy = {} => UNCHANGED faults.overlaps
      /\ Busy # {} => faults'.overlaps = faults.overlaps + 1
  <2>1. Fetched(p, ok, h)
    BY FetchMoves DEF Inv
  <2> QED
    BY <2>1 DEF Fetched, stored
<1>2. faults.overlaps \in Nat
  BY DEF Inv, Types, FaultType
<1>3. \A s \in Source :
        cursor[s] \in Nat /\ Len(notices[s]) \in Nat /\ cursor[s] <= Len(notices[s])
  BY SourceTyped DEF Inv, Committed
<1>4. \A q \in Sync \ {p} : sync'[q] = sync[q]
  BY <1>1 DEF Others
(* The excerpt of p, and those of the others.                               *)
<1>5. ASSUME NEW s \in Source \ {TED}, sync'[p].staged[s] # None
      PROVE  /\ Excerpt(s, sync[p].staged[s])' /\ Since(sync'[p].staged[s]) = cursor[s]
             /\ sync'[p].staged[s].cursor = Len(notices[s])
  <2>1. sync'[p].staged[s] = Stage(s)
    BY <1>1, <1>5
  <2>2. Excerpt(s, Stage(s)) /\ Since(Stage(s)) = cursor[s] /\ Stage(s).cursor = Len(notices[s])
    BY StageExcerpt
  <2> QED
    BY <1>1, <2>1, <2>2 DEF Excerpt, Since
<1>6. ASSUME NEW q \in Sync \ {p}, NEW s \in Source, sync[q].staged[s] # None
      PROVE  /\ sync[q].staged[s].cursor \in Nat /\ sync[q].staged[s].cursor <= Len(notices[s])
             /\ Since(sync[q].staged[s]) \in Int
             /\ s # TED => Since(sync[q].staged[s]) <= sync[q].staged[s].cursor
             /\ q \in Busy
  <2>1. /\ sync[q].staged[s].cursor \in Nat /\ sync[q].staged[s].cursor <= Len(notices[s])
        /\ Len(sync[q].staged[s].records) \in Nat
    BY <1>6, SyncFields DEF Inv, Pending, StagedOK
  <2>2. sync[q].pc \in {"start", "write", "commit"}
    BY <1>6 DEF Reading, Excerpts
  <2>3. q \in Busy
    BY <2>2 DEF Busy
  <2>4. PICK c \in Nat, n \in Nat : /\ c = sync[q].staged[s].cursor
                                  /\ n = Len(sync[q].staged[s].records)
    BY <2>1
  <2>5. Since(sync[q].staged[s]) = c - n
    BY <2>4 DEF Since
  <2> QED
    BY <2>1, <2>3, <2>4, <2>5
<1>7. Excerpts'
  <2> SUFFICES ASSUME NEW q \in Sync, NEW s \in Source
               PROVE  /\ sync'[q].pc \notin {"start", "write", "commit"} =>
                           sync'[q].staged[s] = None
                      /\ sync'[q].staged[s] # None =>
                           IF s = TED THEN sync'[q].staged[s].records = <<>>
                           ELSE Excerpt(s, sync[q].staged[s])'
    BY DEF Excerpts
  <2>1. CASE q = p
    <3>1. Stage(TED).records = <<>>
      BY DEF Stage
    <3>2. TED \in Source
      BY RadarAssumption
    <3> QED
      BY <1>1, <1>5, <2>1, <3>1, <3>2
  <2>2. CASE q # p
    <3>1. sync'[q] = sync[q]
      BY <1>4, <2>2
    <3> QED
      BY <1>1, <3>1 DEF Reading, Excerpts, Excerpt, Since
  <2> QED
    BY <2>1, <2>2
<1>8. Joined'
  <2> SUFFICES ASSUME faults'.overlaps < 2, NEW q \in Sync, NEW s \in Source \ {TED},
                      sync'[q].staged[s] # None
               PROVE  /\ Since(sync'[q].staged[s]) <= cursor[s]
                      /\ \A r \in Sync : sync'[r].staged[s] # None =>
                           Since(sync'[q].staged[s]) <= sync'[r].staged[s].cursor
    BY <1>1 DEF Joined, Since
  <2>1. CASE q = p
    <3>1. Since(sync'[q].staged[s]) = cursor[s]
      BY <1>5, <2>1
    <3>2. ASSUME NEW r \in Sync \ {p}, sync[r].staged[s] # None
          PROVE  cursor[s] <= sync[r].staged[s].cursor
      <4>1. r \in Busy
        BY <1>6, <3>2
      <4>2. faults.overlaps = 0
        BY <1>1, <1>2, <4>1
      <4> QED
        BY <3>2, <4>2 DEF Reading, OneAtATime
    <3> QED
      BY <1>3, <1>4, <1>5, <2>1, <3>1, <3>2
  <2>2. CASE q # p
    <3>1. sync'[q] = sync[q] /\ sync[q].staged[s] # None
      BY <1>4, <2>2
    <3>2. faults.overlaps < 2
      BY <1>1, <1>2
    <3>3. /\ Since(sync[q].staged[s]) <= cursor[s]
          /\ \A r \in Sync : sync[r].staged[s] # None =>
               Since(sync[q].staged[s]) <= sync[r].staged[s].cursor
      BY <3>1, <3>2 DEF Reading, Joined
    <3>4. Since(sync[q].staged[s]) <= Len(notices[s])
      <4>1. Since(sync[q].staged[s]) \in Int
        BY <1>6, <2>2, <3>1
      <4> QED
        BY <1>3, <3>3, <4>1
    <3> QED
      BY <1>4, <1>5, <3>1, <3>3, <3>4
  <2> QED
    BY <2>1, <2>2
<1>9. OneAtATime'
  <2> SUFFICES ASSUME faults'.overlaps = 0
               PROVE  /\ \A q, r \in Sync : sync'[q].pc # "idle" /\ sync'[r].pc # "idle" => q = r
                      /\ \A q \in Sync : \A s \in Source \ {TED} :
                           sync'[q].staged[s] # None => cursor[s] <= sync'[q].staged[s].cursor
    BY <1>1 DEF OneAtATime
  <2>1. Busy = {}
    BY <1>1, <1>2
  <2>2. \A q \in Sync \ {p} : sync'[q].pc = "idle" /\ \A s \in Source : sync'[q].staged[s] = None
    BY <1>4, <2>1 DEF Busy, Reading, Excerpts
  <2> QED
    BY <1>3, <1>5, <2>2
<1>10. UpToDate'
  <2>1. faults'.overlaps < 2 => faults.overlaps < 2
    BY <1>1, <1>2
  <2> QED
    BY <1>1, <2>1 DEF Reading, UpToDate, Reflects, About
<1> QED
  BY <1>7, <1>8, <1>9, <1>10 DEF Reading

LEMMA CommitReading ==
  ASSUME Inv, Reading, NEW p \in Sync, CommitStaged(p)
  PROVE  Reading'
<1>1. /\ UNCHANGED <<notices, faults>> /\ Others(p) /\ sync[p].pc = "commit"
      /\ sync'[p].pc = "decide" /\ \A s \in Source : sync'[p].staged[s] = None
      /\ \A s \in Source : cursor'[s] = IF sync[p].staged[s] = None THEN cursor[s]
                                        ELSE sync[p].staged[s].cursor
      /\ lifecycle' = [t \in Tender |->
           IF sync[p].staged[SourceOf[t]] = None THEN lifecycle[t]
           ELSE Observed(t, sync[p].staged[SourceOf[t]].records)]
  <2>1. /\ UNCHANGED <<notices, faults>> /\ Others(p) /\ sync[p].pc = "commit"
        /\ sync'[p] = [sync[p] EXCEPT !.pc = "decide", !.staged = [s \in Source |-> None]]
    BY CommitMoves DEF Inv
  <2>2. sync'[p].pc = "decide" /\ \A s \in Source : sync'[p].staged[s] = None
    BY <2>1, SyncFields DEF Inv, SyncType
  <2> QED
    BY <2>1, <2>2, CommitMoves DEF Inv
<1>2. \A q \in Sync : \A s \in Source : sync'[q].staged[s] # None =>
        q # p /\ sync'[q] = sync[q]
  BY <1>1 DEF Others
<1>3. Excerpts'
  <2> SUFFICES ASSUME NEW q \in Sync, NEW s \in Source
               PROVE  /\ sync'[q].pc \notin {"start", "write", "commit"} =>
                           sync'[q].staged[s] = None
                      /\ sync'[q].staged[s] # None =>
                           IF s = TED THEN sync'[q].staged[s].records = <<>>
                           ELSE Excerpt(s, sync[q].staged[s])'
    BY DEF Excerpts, Excerpt, Since
  <2>1. CASE sync'[q].staged[s] = None
    BY <2>1
  <2>2. CASE sync'[q].staged[s] # None
    <3>1. sync'[q] = sync[q]
      BY <1>2, <2>2
    <3> QED
      BY <1>1, <3>1 DEF Reading, Excerpts, Excerpt, Since
  <2> QED
    BY <2>1, <2>2
<1>4. Joined'
  <2> SUFFICES ASSUME faults.overlaps < 2, NEW q \in Sync, NEW s \in Source \ {TED},
                      sync'[q].staged[s] # None
               PROVE  /\ Since(sync'[q].staged[s]) <= cursor'[s]
                      /\ \A r \in Sync : sync'[r].staged[s] # None =>
                           Since(sync'[q].staged[s]) <= sync'[r].staged[s].cursor
    BY <1>1 DEF Joined, Since
  <2>1. sync'[q] = sync[q] /\ sync[q].staged[s] # None
    BY <1>2
  <2>2. /\ Since(sync[q].staged[s]) <= cursor[s]
        /\ \A r \in Sync : sync[r].staged[s] # None =>
             Since(sync[q].staged[s]) <= sync[r].staged[s].cursor
    BY <2>1 DEF Reading, Joined
  <2> QED
    BY <1>1, <1>2, <2>1, <2>2
<1>5. OneAtATime'
  <2> SUFFICES ASSUME faults.overlaps = 0
               PROVE  /\ \A q, r \in Sync : sync'[q].pc # "idle" /\ sync'[r].pc # "idle" => q = r
                      /\ \A q \in Sync : \A s \in Source \ {TED} : sync'[q].staged[s] = None
    BY <1>1 DEF OneAtATime
  <2>1. \A q \in Sync \ {p} : sync'[q] = sync[q] /\ sync[q].pc = "idle"
    BY <1>1 DEF Others, Reading, OneAtATime
  <2>2. \A q \in Sync \ {p} : \A s \in Source : sync[q].staged[s] = None
    BY <2>1 DEF Reading, Excerpts
  <2> QED
    BY <1>1, <2>1, <2>2
<1>6. UpToDate'
  <2> SUFFICES ASSUME faults.overlaps < 2, NEW t \in Tender, SourceOf[t] # TED
               PROVE  Reflects(t, cursor[SourceOf[t]], lifecycle[t])'
    BY <1>1 DEF UpToDate
  <2>1. PICK s \in Source : s = SourceOf[t]
    BY RadarAssumption
  <2>2. Reflects(t, cursor[s], lifecycle[t]) /\ cursor[s] \in Nat
    BY <2>1, SourceTyped DEF Reading, UpToDate, Inv
  <2>3. CASE sync[p].staged[s] = None
    <3>1. cursor'[s] = cursor[s] /\ lifecycle'[t] = lifecycle[t]
      BY <1>1, <2>1, <2>3
    <3> QED
      BY <1>1, <2>1, <2>2, <3>1 DEF Reflects, About
  <2>4. CASE sync[p].staged[s] # None
    <3>1. PICK st \in Staged : st = sync[p].staged[s]
      BY <2>4, SyncFields DEF Inv, SyncType
    <3>2. /\ Excerpt(s, st) /\ st.cursor <= Len(notices[s]) /\ Since(st) <= cursor[s]
      BY <2>1, <2>4, <3>1 DEF Reading, Excerpts, Joined, Inv, Pending, StagedOK
    <3>3. Reflects(t, st.cursor, Observed(t, st.records))
      BY <2>1, <2>2, <3>2, CommitReflects
    <3>4. cursor'[s] = st.cursor /\ lifecycle'[t] = Observed(t, st.records)
      BY <1>1, <2>1, <2>4, <3>1
    <3> QED
      BY <1>1, <2>1, <3>3, <3>4 DEF Reflects, About
  <2> QED
    BY <2>3, <2>4
<1> QED
  BY <1>3, <1>4, <1>5, <1>6 DEF Reading

LEMMA ReadingStep == Inv /\ Bounds /\ Reading /\ [Next]_vars => Reading'
<1> SUFFICES ASSUME Inv, Bounds, Reading, [Next]_vars PROVE Reading'
  OBVIOUS
<1>1. ASSUME NEW n \in Notice, Publish(n) PROVE Reading'
  BY <1>1, PublishReading
<1>2. ASSUME NEW p \in Sync, NEW ok \in SUBSET (Source \ {TED}), NEW h \in BOOLEAN,
             Fetch(p, ok, h)
      PROVE  Reading'
  BY <1>2, FetchReading
<1>3. ASSUME NEW p \in Sync, CommitStaged(p) PROVE Reading'
  BY <1>3, CommitReading
(* The other steps leave what is staged alone, or drop it.                  *)
<1>4. ASSUME NEW p \in Sync,
             UNCHANGED <<notices, cursor, lifecycle>>, UNCHANGED faults.overlaps, Others(p),
             \/ sync'[p] = Idle
             \/ /\ sync[p].pc # "idle" /\ sync'[p].staged = sync[p].staged
                /\ sync'[p].pc \in {"start", "write", "commit"} \/ sync[p].pc \in {"decide", "events"}
      PROVE  Reading'
  <2>1. ASSUME NEW q \in Sync
        PROVE  /\ sync'[q].pc # "idle" => sync[q].pc # "idle"
               /\ \A s \in Source :
                    /\ sync'[q].staged[s] \in {None, sync[q].staged[s]}
                    /\ sync'[q].pc \notin {"start", "write", "commit"} =>
                         sync'[q].staged[s] = None
    <3>1. \A s \in Source : sync[q].pc \notin {"start", "write", "commit"} =>
            sync[q].staged[s] = None
      BY DEF Reading, Excerpts
    <3>2. CASE q # p
      BY <1>4, <3>1, <3>2 DEF Others
    <3>3. CASE q = p /\ sync'[p] = Idle
      BY <3>3 DEF Idle
    <3>4. CASE q = p /\ sync'[p] # Idle
      BY <1>4, <3>1, <3>4
    <3> QED
      BY <3>2, <3>3, <3>4
  <2> QED
    BY <1>4, <2>1, ReadingStays
<1>5. ASSUME NEW p \in Sync, SyncStep(p), ~CommitStaged(p) PROVE Reading'
  <2>0. sync[p] \in SyncType /\ Types
    BY SyncFields DEF Inv
  <2>1. CASE StartRun(p)
    <3>1. sync'[p].pc = "write" /\ sync'[p].staged = sync[p].staged
      BY <2>0, <2>1, StartRunMoves DEF SyncType
    <3> QED
      BY <1>4, <2>0, <2>1, <3>1, StartRunMoves
  <2>2. CASE WriteChunk(p)
    <3>1. sync'[p].pc = "write" /\ sync'[p].staged = sync[p].staged /\ sync[p].pc = "write"
      BY <2>0, <2>2, WriteChunkMoves DEF SyncType
    <3> QED
      BY <1>4, <2>0, <2>2, <3>1, WriteChunkMoves
  <2>3. CASE Finish(p)
    <3>1. sync[p].run \in 1 .. Len(runs)
      BY <2>3, SyncFields DEF Finish, Inv, Bounds, Progress
    <3>2. /\ UNCHANGED <<notices, cursor, lifecycle>> /\ UNCHANGED faults.overlaps /\ Others(p)
          /\ sync[p].pc = "write" /\ sync'[p] = [sync[p] EXCEPT !.pc = "commit"]
      BY <2>0, <2>3, <3>1, FinishMoves
    <3>3. sync'[p].pc = "commit" /\ sync'[p].staged = sync[p].staged
      BY <2>0, <3>2 DEF SyncType
    <3> QED
      BY <1>4, <3>2, <3>3
  <2>4. CASE Decide(p)
    <3>1. /\ UNCHANGED <<notices, cursor, lifecycle>> /\ UNCHANGED faults.overlaps /\ Others(p)
          /\ sync[p].pc = "decide"
          /\ sync'[p] = [sync[p] EXCEPT !.pc = "events", !.left = Account]
      BY <2>0, <2>4, DecideMoves
    <3>2. sync'[p].staged = sync[p].staged
      BY <2>0, <3>1 DEF SyncType
    <3> QED
      BY <1>4, <3>1, <3>2
  <2>5. ASSUME NEW a \in Account, RecordAlerts(p, a) PROVE Reading'
    <3>1. /\ UNCHANGED <<notices, cursor, lifecycle>> /\ UNCHANGED faults.overlaps /\ Others(p)
          /\ sync[p].pc = "events"
          /\ sync'[p] = Idle \/ sync'[p] = [sync[p] EXCEPT !.left = sync[p].left \ {a}]
      BY <2>0, <2>5, RecordMoves
    <3>2. sync'[p] = Idle \/ sync'[p].staged = sync[p].staged
      BY <2>0, <3>1 DEF SyncType
    <3>3. CASE sync'[p] = Idle
      BY <1>4, <3>1, <3>3
    <3>4. CASE sync'[p].staged = sync[p].staged
      <4>1. sync[p].pc # "idle" /\ sync[p].pc \in {"decide", "events"}
        BY <3>1
      <4> QED
        BY <1>4, <3>1, <3>4, <4>1
    <3> QED
      BY <3>2, <3>3, <3>4
  <2> QED
    BY <1>5, <2>1, <2>2, <2>3, <2>4, <2>5 DEF SyncStep
<1>6. ASSUME NEW p \in Sync, Interrupt(p) \/ LateInterrupt(p) PROVE Reading'
  <2>1. UNCHANGED <<notices, cursor, lifecycle>> /\ UNCHANGED faults.overlaps
        /\ Others(p) /\ sync'[p] = Idle
    BY <1>6, FailureMoves DEF Inv, stored
  <2> QED
    BY <1>4, <2>1
<1>7. CASE UNCHANGED vars
  <2>1. UNCHANGED <<notices, cursor, lifecycle, sync, faults>>
    BY <1>7 DEF vars, stored
  <2> QED
    BY <2>1, ReadingStays DEF Reading, Excerpts
<1> QED
  BY <1>1, <1>2, <1>3, <1>5, <1>6, <1>7 DEF Next, SyncStep

(* What the lifecycle table says of a tender is never older than the        *)
(* watermark of its source, whatever two overlapping syncs, failures and    *)
(* kills do (source_runtime.py:72-91, opportunity_lifecycle.py:49-90).  The *)
(* condition is as wide as it can be: with a second overlap it fails.       *)
THEOREM LifecycleAtWatermarkHolds == Spec => []LifecycleAtWatermark
<1>1. Init => Inv /\ Bounds /\ Reading
  BY InvInit, BoundsInit, ReadingInit
<1>2. Inv /\ Bounds /\ Reading /\ [Next]_vars => (Inv /\ Bounds /\ Reading)'
  BY InvStep, BoundsStep, ReadingStep
<1>3. Inv /\ Bounds /\ Reading => LifecycleAtWatermark
  BY ReflectsWatermark DEF Reading
<1> QED
  BY <1>1, <1>2, <1>3, PTL DEF Spec

-----------------------------------------------------------------------------
(* The alerts.  Without an overlap, a lost fetch or a failure after the run *)
(* is finished, a tender that no finished run has seen is read again, and   *)
(* stays new until the sync that finishes a run has told every account.     *)
Smooth ==
  faults.late = 0 /\ faults.overlaps = 0 /\ faults.health = 0 /\ faults.outages = 0

(* First seen after every finished run, or from one finished run to another.*)
Recent(t) == tenders[t] # None /\ \A i \in Finished : runs[i] < tenders[t].first

Reported(t) ==
  tenders[t] # None /\ \E i, j \in Finished : tenders[t].first \in runs[i] .. runs[j]

(* First seen after every finished run but the latest.                      *)
InWindow(t) == tenders[t] # None /\ \A i \in Earlier : runs[i] < tenders[t].first

Told(a, t) ==
  t \in Fits[a] /\ AlwaysOpen(t) /\ <<a, t>> \notin faults.deferred => <<a, t>> \in alerts

Settled(t) == \A a \in Account : Told(a, t)

(* The lifecycle table closes no tender that its source has not closed.     *)
Truthful == \A t \in Tender : lifecycle[t] = FALSE => ~AlwaysOpen(t)

InOrder == \A i, j \in Finished : i < j => runs[i] < runs[j]

(* While no run is finished that is not yet reported.                       *)
Waiting ==
  (\A p \in Sync : sync[p].pc \in {"idle", "start", "write"}) =>
    \A t \in Tender : /\ Recent(t) => t \in TenderRows(Source)
                      /\ Reported(t) => Settled(t)

(* A sync before its run is finished, and after that.                       *)
Underway(p) ==
  sync[p].pc \in {"start", "write"} =>
    /\ sync[p].seen = clock /\ \A i \in Finished : runs[i] < clock
    /\ sync[p].rows \subseteq TenderRows(Source)
    /\ \A t \in Tender : Recent(t) => t \in sync[p].rows \/ tenders[t].last = clock
    /\ sync[p].pc = "write" => sync[p].run = Len(runs) /\ runs[Len(runs)] = 0

Reporting(p) ==
  sync[p].pc \in {"commit", "decide", "events"} =>
    /\ sync[p].seen = clock /\ sync[p].run = Len(runs)
    /\ Len(runs) \in Finished /\ runs[Len(runs)] = clock
    /\ \A t \in Tender : /\ InWindow(t) => tenders[t].last = clock
                         /\ t \in Past => Settled(t)
    /\ sync[p].pc = "events" =>
         \A a \in Account : \A t \in Tender : InWindow(t) /\ AlwaysOpen(t) =>
           /\ <<a, t>> \in decided \cup faults.deferred
           /\ a \notin sync[p].left /\ (Earlier # {} \/ tenders[t].first = clock) => Told(a, t)

Chronicle ==
  Smooth => /\ InOrder /\ Waiting
            /\ \A p \in Sync : Underway(p) /\ Reporting(p)

LEMMA ChronicleAlerts == Inv /\ Chronicle => EveryMatchIsAlerted
<1> SUFFICES ASSUME Inv, Chronicle, Smooth, Busy = {},
                    NEW a \in Account, NEW t \in Fits[a] \cap Past, AlwaysOpen(t),
                    <<a, t>> \notin faults.deferred
             PROVE  <<a, t>> \in alerts
  BY DEF EveryMatchIsAlerted, Smooth
<1>1. \A p \in Sync : sync[p].pc = "idle"
  BY DEF Busy
<1>2. t \in Tender /\ Reported(t)
  BY DEF Past, Earlier, Reported
<1>3. Settled(t)
  BY <1>1, <1>2 DEF Chronicle, Waiting
<1> QED
  BY <1>3 DEF Settled, Told

LEMMA SubSeqElements ==
  ASSUME NEW S, NEW seq \in Seq(S), NEW m \in Nat \ {0}, NEW x
  PROVE  x \in ToSet(SubSeq(seq, m, Len(seq))) <=> \E i \in m .. Len(seq) : x = seq[i]
<1> DEFINE n == Len(seq)
<1>1. n \in Nat /\ \A i \in m .. n : seq[i] \in S
  BY LenProperties, ElementOfSeq
<1>2. PICK sub : sub = SubSeq(seq, m, n)
  OBVIOUS
<1> HIDE DEF n
<1>3. /\ sub \in Seq(S) /\ Len(sub) = IF m <= n THEN n - m + 1 ELSE 0
      /\ \A i \in 1 .. n - m + 1 : sub[i] = seq[m + i - 1]
  BY <1>1, <1>2, SubSeqProperties
<1>4. DOMAIN sub = 1 .. Len(sub)
  BY <1>3, LenProperties
<1>5. ASSUME NEW i \in 1 .. Len(sub) PROVE m + i - 1 \in m .. n /\ sub[i] = seq[m + i - 1]
  BY <1>1, <1>3
<1>6. ASSUME NEW i \in m .. n
      PROVE  i - m + 1 \in 1 .. Len(sub) /\ sub[i - m + 1] = seq[i]
  <2>1. i - m + 1 \in 1 .. n - m + 1 /\ m + (i - m + 1) - 1 = i /\ m <= n
    BY <1>1
  <2> QED
    BY <1>3, <2>1
<1>7. x \in ToSet(sub) <=> \E i \in 1 .. Len(sub) : x = sub[i]
  BY <1>4 DEF ToSet
<1> QED
  BY <1>2, <1>5, <1>6, <1>7 DEF n

(* What a publisher adds is read besides what would have been.              *)
LEMMA RowsGrow ==
  ASSUME Inv, NEW n \in Notice, Publish(n), Types'
  PROVE  TenderRows(Source) \subseteq TenderRows(Source)'
<1> SUFFICES ASSUME NEW t \in Tender, [tender |-> t, open |-> TRUE] \in ToSet(Window(SourceOf[t]))
             PROVE  [tender |-> t, open |-> TRUE] \in ToSet(Window(SourceOf[t]))'
  BY DEF TenderRows
<1> DEFINE s == SourceOf[t]
           from == IF s = TED /\ cursor[s] > 0 THEN cursor[s] ELSE cursor[s] + 1
           row == [tender |-> t, open |-> TRUE]
<1>1. /\ s \in Source /\ cursor[s] \in Nat /\ UNCHANGED cursor
      /\ notices[s] \in Seq(Notice) /\ notices'[s] \in Seq(Notice)
  BY RadarAssumption, PublishShape, SourceTyped DEF Inv, Types, stored
<1>2. /\ Len(notices[s]) \in Nat /\ Len(notices'[s]) \in Nat /\ Len(notices[s]) <= Len(notices'[s])
      /\ \A i \in 1 .. Len(notices[s]) : notices'[s][i] = notices[s][i]
  <2>1. Len(notices[s]) \in Nat
    BY <1>1, LenProperties
  <2>2. CASE s = SourceOf[n.tender]
    <3>1. /\ Len(notices'[s]) = Len(notices[s]) + 1
          /\ \A i \in 1 .. Len(notices[s]) : notices'[s][i] = notices[s][i]
      BY <1>1, <2>2, PublishShape DEF Inv
    <3> QED
      BY <2>1, <3>1
  <2>3. CASE s # SourceOf[n.tender]
    BY <1>1, <2>1, <2>3, PublishShape DEF Inv
  <2> QED
    BY <2>2, <2>3
<1>3. from \in Nat \ {0}
  BY <1>1
<1>4. /\ Window(s) = SubSeq(notices[s], from, Len(notices[s]))
      /\ Window(s)' = SubSeq(notices'[s], from, Len(notices'[s]))
  BY <1>1 DEF Window
<1> HIDE DEF from, s
<1>5. row \in ToSet(SubSeq(notices[s], from, Len(notices[s])))
  BY <1>4 DEF s
<1> HIDE DEF row
<1>6. PICK i \in from .. Len(notices[s]) : row = notices[s][i]
  BY <1>1, <1>3, <1>5, SubSeqElements
<1>7. i \in from .. Len(notices'[s]) /\ row = notices'[s][i]
  BY <1>2, <1>3, <1>6
<1>8. row \in ToSet(SubSeq(notices'[s], from, Len(notices'[s])))
  BY <1>1, <1>3, <1>7, SubSeqElements
<1> QED
  BY <1>4, <1>8 DEF row, s, ToSet

LEMMA TruthfulInit == Init => Truthful
<1> SUFFICES ASSUME Init PROVE Truthful
  OBVIOUS
<1>1. \A t \in Tender : lifecycle[t] = None
  BY DEF Init
<1> QED
  BY <1>1, RadarAssumption DEF Truthful

(* A notice that closes a tender is among those of its source.              *)
LEMMA ClosedIsKnown ==
  ASSUME Types, NEW t \in Tender, NEW i \in 1 .. Len(notices[SourceOf[t]]),
         notices[SourceOf[t]][i].tender = t, notices[SourceOf[t]][i].open = FALSE
  PROVE  ~AlwaysOpen(t)
<1>1. SourceOf[t] \in Source
  BY RadarAssumption
<1>2. DOMAIN notices[SourceOf[t]] = 1 .. Len(notices[SourceOf[t]])
  BY <1>1, LenProperties DEF Types
<1> QED
  BY <1>2 DEF AlwaysOpen, ToSet

LEMMA OpenBefore ==
  ASSUME Inv, NEW n \in Notice, Publish(n), Types', NEW t \in Tender, AlwaysOpen(t)'
  PROVE  AlwaysOpen(t)
<1> SUFFICES ASSUME NEW m \in ToSet(notices[SourceOf[t]]), m.tender = t PROVE m.open
  BY DEF AlwaysOpen
<1>1. PICK s \in Source : s = SourceOf[t]
  BY RadarAssumption
<1>2. /\ DOMAIN notices[s] = 1 .. Len(notices[s]) /\ DOMAIN notices'[s] = 1 .. Len(notices'[s])
      /\ Len(notices[s]) \in Nat
  BY LenProperties DEF Inv, Types
<1>3. /\ Len(notices[s]) <= Len(notices'[s]) /\ Len(notices'[s]) \in Nat
      /\ \A i \in 1 .. Len(notices[s]) : notices'[s][i] = notices[s][i]
  <2>1. CASE s = SourceOf[n.tender]
    <3>1. /\ Len(notices'[s]) = Len(notices[s]) + 1
          /\ \A i \in 1 .. Len(notices[s]) : notices'[s][i] = notices[s][i]
      BY <2>1, PublishShape DEF Inv
    <3> QED
      BY <1>2, <3>1
  <2>2. CASE s # SourceOf[n.tender]
    BY <1>2, <2>2, PublishShape DEF Inv
  <2> QED
    BY <2>1, <2>2
<1>4. PICK i \in 1 .. Len(notices[s]) : m = notices[s][i]
  BY <1>1, <1>2 DEF ToSet
<1>5. i \in 1 .. Len(notices'[s]) /\ m = notices'[s][i]
  BY <1>2, <1>3, <1>4
<1>6. m \in ToSet(notices'[s])
  BY <1>2, <1>5 DEF ToSet
<1> QED
  BY <1>1, <1>6 DEF AlwaysOpen

LEMMA CommitTruthful ==
  ASSUME Inv, Reading, Truthful, NEW p \in Sync, CommitStaged(p)
  PROVE  Truthful'
<1>1. /\ UNCHANGED notices
      /\ lifecycle' = [t \in Tender |->
           IF sync[p].staged[SourceOf[t]] = None THEN lifecycle[t]
           ELSE Observed(t, sync[p].staged[SourceOf[t]].records)]
  BY CommitMoves DEF Inv
<1> SUFFICES ASSUME NEW t \in Tender, lifecycle'[t] = FALSE
             PROVE  ~AlwaysOpen(t)
  BY <1>1 DEF Truthful, AlwaysOpen
<1>2. PICK s \in Source : s = SourceOf[t]
  BY RadarAssumption
<1>3. CASE lifecycle'[t] = lifecycle[t]
  BY <1>3 DEF Truthful
<1>4. CASE lifecycle'[t] # lifecycle[t]
  <2>1. sync[p].staged[s] # None
    BY <1>1, <1>2, <1>4
  <2>2. PICK st : st = sync[p].staged[s]
    OBVIOUS
  <2>3. /\ st.records \in Seq(Notice) /\ Len(st.records) \in Nat
        /\ st.cursor \in Nat /\ st.cursor <= Len(notices[s])
        /\ IF s = TED THEN st.records = <<>> ELSE Excerpt(s, st)
    BY <2>1, <2>2, SyncFields DEF Inv, Pending, StagedOK, Reading, Excerpts
  <2>4. Observed(t, st.records) = FALSE /\ Observed(t, st.records) # lifecycle[t]
    BY <1>1, <1>2, <1>4, <2>1, <2>2
  <2>5. PICK k \in 1 .. Len(st.records) :
          st.records[k].tender = t /\ st.records[k].open = FALSE
    <3>1. PICK given \in Seq(Notice) : given = st.records
      BY <2>3
    <3> QED
      BY <2>4, <3>1, ObservedShape
  <2>6. Excerpt(s, st)
    BY <2>3, <2>5
  <2>7. st.records[k] = notices[s][Since(st) + k] /\ Since(st) + k \in 1 .. Len(notices[s])
    <3>1. Len(notices[s]) \in Nat
      BY SourceTyped DEF Inv
    <3>2. PICK c \in Nat, m \in Nat : c = st.cursor /\ m = Len(st.records)
      BY <2>3
    <3>3. Since(st) = c - m /\ m <= c /\ c <= Len(notices[s])
      BY <2>3, <2>6, <3>2 DEF Excerpt, Since
    <3>4. Since(st) + k \in 1 .. Len(notices[s])
      BY <3>1, <3>2, <3>3
    <3> QED
      BY <2>6, <3>4 DEF Excerpt
  <2> QED
    BY <1>2, <2>5, <2>7, ClosedIsKnown DEF Inv
<1> QED
  BY <1>3, <1>4

-----------------------------------------------------------------------------
(* The steps of the chronicle.  While nothing overlaps, the other syncs are *)
(* idle when one moves.                                                     *)
LEMMA Alone ==
  ASSUME Reading, Smooth, NEW p \in Sync, sync[p].pc # "idle"
  PROVE  \A q \in Sync : q # p => sync[q].pc = "idle"
BY DEF Reading, OneAtATime, Smooth

LEMMA ChronicleOne ==
  ASSUME NEW p \in Sync, \A q \in Sync : q # p => sync'[q].pc = "idle",
         Smooth' => InOrder' /\ Waiting' /\ Underway(p)' /\ Reporting(p)'
  PROVE  Chronicle'
<1>1. \A q \in Sync : q # p => Underway(q)' /\ Reporting(q)'
  BY DEF Underway, Reporting
<1> QED
  BY <1>1 DEF Chronicle

LEMMA ChronicleInit == Init => Chronicle
<1> SUFFICES ASSUME Init PROVE Chronicle
  OBVIOUS
<1>1. runs = <<>> /\ \A t \in Tender : tenders[t] = None
  BY DEF Init
<1>2. \A p \in Sync : sync[p].pc = "idle"
  BY DEF Init, Idle
<1>3. Finished = {}
  BY <1>1 DEF Finished
<1> QED
  BY <1>1, <1>2, <1>3
     DEF Chronicle, InOrder, Waiting, Underway, Reporting, Recent, Reported

LEMMA PublishChronicle ==
  ASSUME Inv, Chronicle, NEW n \in Notice, Publish(n), Types'
  PROVE  Chronicle'
<1>1. UNCHANGED <<tenders, runs, decided, alerts, sync, clock, faults>>
  BY PublishShape DEF Inv, stored
<1>2. TenderRows(Source) \subseteq TenderRows(Source)'
  BY RowsGrow
<1>3. \A t \in Tender : AlwaysOpen(t)' => AlwaysOpen(t)
  BY OpenBefore
<1>4. UNCHANGED <<Finished, Earlier, Past>>
  BY <1>1 DEF Finished, Earlier, Past
<1>5. \A t \in Tender : /\ Recent(t)' <=> Recent(t)
                        /\ Reported(t)' <=> Reported(t)
                        /\ InWindow(t)' <=> InWindow(t)
                        /\ Settled(t) => Settled(t)'
                        /\ \A a \in Account : Told(a, t) => Told(a, t)'
  BY <1>1, <1>3, <1>4 DEF Recent, Reported, InWindow, Settled, Told
<1> SUFFICES ASSUME Smooth' PROVE InOrder' /\ Waiting' /\ \A p \in Sync : Underway(p)' /\ Reporting(p)'
  BY DEF Chronicle
<1>6. InOrder /\ Waiting /\ \A p \in Sync : Underway(p) /\ Reporting(p)
  BY <1>1 DEF Chronicle, Smooth
<1>7. InOrder'
  BY <1>1, <1>4, <1>6 DEF InOrder
<1>8. Waiting'
  BY <1>1, <1>2, <1>5, <1>6 DEF Waiting
<1>9. \A p \in Sync : Underway(p)'
  BY <1>1, <1>2, <1>4, <1>5, <1>6 DEF Underway
<1>10. \A p \in Sync : Reporting(p)'
  BY <1>1, <1>3, <1>4, <1>5, <1>6 DEF Reporting
<1> QED
  BY <1>7, <1>8, <1>9, <1>10

LEMMA FetchChronicle ==
  ASSUME Inv, Bounds, Reading, Chronicle,
         NEW p \in Sync, NEW ok \in SUBSET (Source \ {TED}), NEW h \in BOOLEAN,
         Fetch(p, ok, h)
  PROVE  Chronicle'
<1>1. Fetched(p, ok, h)
  BY FetchMoves DEF Inv
<1> SUFFICES ASSUME Smooth' PROVE Chronicle'
  BY DEF Chronicle
<1>2. /\ ~h /\ ok \cup {TED} = Source /\ Smooth /\ Busy = {}
  <2>1. faults.overlaps \in Nat /\ faults'.overlaps = 0
    BY DEF Inv, Types, FaultType, Smooth
  <2>2. Busy = {} /\ faults.overlaps = 0
    BY <1>1, <2>1 DEF Fetched
  <2> QED
    BY <1>1, <2>2 DEF Fetched, Smooth
<1>3. /\ UNCHANGED <<notices, cursor, tenders, runs, alerts>> /\ Others(p)
      /\ sync'[p].pc = "start" /\ sync'[p].seen = clock' /\ clock' = clock + 1
      /\ sync'[p].rows = TenderRows(Source)
  BY <1>1, <1>2 DEF Fetched, stored
<1>4. \A q \in Sync : sync[q].pc = "idle"
  BY <1>2 DEF Busy
<1>5. InOrder /\ \A t \in Tender : /\ Recent(t) => t \in TenderRows(Source)
                                   /\ Reported(t) => Settled(t)
  BY <1>2, <1>4 DEF Chronicle, Waiting
<1>6. /\ UNCHANGED <<Finished, TenderRows(Source)>>
      /\ \A t \in Tender : /\ Recent(t)' <=> Recent(t)
                           /\ Reported(t)' <=> Reported(t)
                           /\ Settled(t)' <=> Settled(t)
  BY <1>1, <1>3 DEF Fetched, Finished, TenderRows, Window, Recent, Reported, Settled, Told,
     AlwaysOpen
<1>7. InOrder'
  BY <1>3, <1>5, <1>6 DEF InOrder
<1>8. Waiting'
  BY <1>5, <1>6 DEF Waiting
<1>9. Underway(p)'
  <2>1. \A i \in Finished : runs[i] < clock'
    <3>1. clock \in Nat /\ runs \in Seq(Nat) /\ DOMAIN runs = 1 .. Len(runs)
      BY LenProperties DEF Inv, Types
    <3>2. \A i \in Finished : runs[i] \in Nat /\ runs[i] <= clock
      BY <3>1, ElementOfSeq DEF Finished, Bounds
    <3> QED
      BY <1>3, <3>1, <3>2
  <2> QED
    BY <1>3, <1>5, <1>6, <2>1 DEF Underway
<1>10. Reporting(p)'
  BY <1>3 DEF Reporting
<1>11. \A q \in Sync : q # p => sync'[q].pc = "idle"
  BY <1>3, <1>4 DEF Others
<1> QED
  BY <1>7, <1>8, <1>9, <1>10, <1>11, ChronicleOne

LEMMA StartRunChronicle ==
  ASSUME Inv, Reading, Chronicle, NEW p \in Sync, StartRun(p)
  PROVE  Chronicle'
<1>1. /\ UNCHANGED <<notices, tenders, cursor, alerts, clock, faults>>
      /\ Others(p) /\ sync[p].pc = "start"
      /\ sync'[p] = [sync[p] EXCEPT !.pc = "write", !.run = Len(runs) + 1]
      /\ Len(runs') = Len(runs) + 1 /\ runs'[Len(runs) + 1] = 0
      /\ \A i \in 1 .. Len(runs) : runs'[i] = runs[i]
  BY StartRunMoves DEF Inv
<1> SUFFICES ASSUME Smooth' PROVE Chronicle'
  BY DEF Chronicle
<1>2. Smooth /\ InOrder /\ Waiting /\ Underway(p)
  BY <1>1 DEF Smooth, Chronicle
<1>3. \A q \in Sync : q # p => sync[q].pc = "idle"
  BY <1>1, <1>2, Alone
<1>4. /\ sync'[p].pc = "write" /\ sync'[p].run = Len(runs')
      /\ sync'[p].seen = sync[p].seen /\ sync'[p].rows = sync[p].rows
  <2>1. sync[p] \in SyncType
    BY SyncFields DEF Inv
  <2> QED
    BY <1>1, <2>1 DEF SyncType
<1>5. /\ Finished' = Finished /\ \A i \in Finished : runs'[i] = runs[i]
  <2>1. /\ DOMAIN runs = 1 .. Len(runs) /\ DOMAIN runs' = 1 .. Len(runs') /\ Len(runs) \in Nat
    BY AppendProperties, LenProperties DEF Inv, Types, StartRun
  <2>2. 1 .. Len(runs') = (1 .. Len(runs)) \cup {Len(runs) + 1}
    BY <1>1, <2>1
  <2>3. \A i \in 1 .. Len(runs') : i \in Finished' <=> i \in Finished
    BY <1>1, <2>1, <2>2 DEF Finished
  <2> QED
    BY <1>1, <2>1, <2>2, <2>3 DEF Finished
<1>6. /\ UNCHANGED TenderRows(Source)
      /\ \A t \in Tender : /\ Recent(t)' <=> Recent(t)
                           /\ Reported(t)' <=> Reported(t)
                           /\ Settled(t)' <=> Settled(t)
  BY <1>1, <1>5 DEF TenderRows, Window, Recent, Reported, Settled, Told, AlwaysOpen
<1>7. InOrder'
  BY <1>2, <1>5 DEF InOrder
<1>8. \A t \in Tender : /\ Recent(t) => t \in TenderRows(Source)
                        /\ Reported(t) => Settled(t)
  BY <1>1, <1>2, <1>3 DEF Waiting
<1>9. Waiting'
  BY <1>6, <1>8 DEF Waiting
<1>10. Underway(p)'
  <2>1. /\ sync[p].seen = clock /\ \A i \in Finished : runs[i] < clock
        /\ sync[p].rows \subseteq TenderRows(Source)
        /\ \A t \in Tender : Recent(t) => t \in sync[p].rows \/ tenders[t].last = clock
    BY <1>1, <1>2 DEF Underway
  <2> QED
    BY <1>1, <1>4, <1>5, <1>6, <2>1 DEF Underway
<1>11. Reporting(p)'
  BY <1>4 DEF Reporting
<1>12. \A q \in Sync : q # p => sync'[q].pc = "idle"
  BY <1>1, <1>3 DEF Others
<1> QED
  BY <1>7, <1>9, <1>10, <1>11, <1>12, ChronicleOne

LEMMA WriteChunkChronicle ==
  ASSUME Inv, Bounds, Reading, Chronicle, NEW p \in Sync, WriteChunk(p)
  PROVE  Chronicle'
<1>1. /\ UNCHANGED <<notices, runs, cursor, alerts, clock, faults>>
      /\ Others(p) /\ sync[p].pc = "write"
  BY WriteChunkMoves DEF Inv
<1>2. PICK chunk \in SUBSET sync[p].rows :
        /\ sync'[p] = [sync[p] EXCEPT !.rows = sync[p].rows \ chunk]
        /\ \A t \in Tender :
             /\ t \notin chunk => tenders'[t] = tenders[t]
             /\ t \in chunk /\ tenders[t] = None =>
                  tenders'[t] = [first |-> sync[p].seen, last |-> sync[p].seen]
             /\ t \in chunk /\ tenders[t] # None =>
                  tenders'[t] = [first |-> tenders[t].first, last |-> sync[p].seen]
  BY WriteChunkMoves DEF Inv
<1> SUFFICES ASSUME Smooth' PROVE Chronicle'
  BY DEF Chronicle
<1>3. Smooth /\ InOrder /\ Waiting /\ Underway(p)
  BY <1>1 DEF Smooth, Chronicle
<1>4. \A q \in Sync : q # p => sync[q].pc = "idle"
  BY <1>1, <1>3, Alone
<1>5. /\ sync'[p].pc = "write" /\ sync'[p].run = sync[p].run
      /\ sync'[p].seen = sync[p].seen /\ sync'[p].rows = sync[p].rows \ chunk
  <2>1. sync[p] \in SyncType
    BY SyncFields DEF Inv
  <2> QED
    BY <1>1, <1>2, <2>1 DEF SyncType
<1>6. /\ sync[p].seen = clock /\ \A i \in Finished : runs[i] < clock
      /\ sync[p].rows \subseteq TenderRows(Source)
      /\ \A t \in Tender : Recent(t) => t \in sync[p].rows \/ tenders[t].last = clock
      /\ sync[p].run = Len(runs) /\ runs[Len(runs)] = 0
  BY <1>1, <1>3 DEF Underway
<1>7. \A t \in Tender : /\ Recent(t) => t \in TenderRows(Source)
                        /\ Reported(t) => Settled(t)
  BY <1>1, <1>3, <1>4 DEF Waiting
<1>8. UNCHANGED <<Finished, TenderRows(Source)>>
      /\ \A t \in Tender : Settled(t)' <=> Settled(t)
  BY <1>1 DEF Finished, TenderRows, Window, Settled, Told, AlwaysOpen
(* What the chunk does to a tender: a new one is recent, and among the rows.*)
<1>9. ASSUME NEW t \in Tender
      PROVE  /\ Recent(t)' => t \in TenderRows(Source)
             /\ Recent(t)' => t \in sync'[p].rows \/ tenders'[t].last = clock
             /\ Reported(t)' => Settled(t)
  <2>1. CASE t \notin chunk
    <3>1. tenders'[t] = tenders[t]
      BY <1>2, <2>1
    <3>2. (Recent(t)' <=> Recent(t)) /\ (Reported(t)' <=> Reported(t))
      BY <1>1, <1>8, <3>1 DEF Recent, Reported
    <3> QED
      BY <1>5, <1>6, <1>7, <2>1, <3>1, <3>2
  <2>2. CASE t \in chunk /\ tenders[t] = None
    <3>1. tenders'[t] = [first |-> clock, last |-> clock]
      BY <1>2, <1>6, <2>2
    <3>2. tenders'[t].first = clock /\ tenders'[t].last = clock
      BY <3>1
    <3>3. ~Reported(t)'
      <4>1. \A j \in Finished : runs[j] \in Nat /\ runs[j] < clock
        BY <1>6, LenProperties, ElementOfSeq DEF Finished, Inv, Types
      <4>2. \A i, j \in Finished : clock \notin runs[i] .. runs[j]
        BY <4>1
      <4> QED
        BY <1>1, <1>8, <3>2, <4>2 DEF Reported
    <3> QED
      BY <1>6, <2>2, <3>2, <3>3
  <2>3. CASE t \in chunk /\ tenders[t] # None
    <3>1. tenders'[t] = [first |-> tenders[t].first, last |-> clock]
      BY <1>2, <1>6, <2>3
    <3>2. tenders'[t].first = tenders[t].first /\ tenders'[t].last = clock
      BY <3>1
    <3>3. (Recent(t)' => Recent(t)) /\ (Reported(t)' => Reported(t))
      BY <1>1, <1>8, <2>3, <3>2 DEF Recent, Reported
    <3> QED
      BY <1>6, <1>7, <2>3, <3>2, <3>3
  <2> QED
    BY <2>1, <2>2, <2>3
<1>10. InOrder'
  BY <1>1, <1>3, <1>8 DEF InOrder
<1>11. Waiting'
  BY <1>8, <1>9 DEF Waiting
<1>12. Underway(p)'
  BY <1>1, <1>5, <1>6, <1>8, <1>9 DEF Underway
<1>13. Reporting(p)'
  BY <1>5 DEF Reporting
<1>14. \A q \in Sync : q # p => sync'[q].pc = "idle"
  BY <1>1, <1>4 DEF Others
<1> QED
  BY <1>10, <1>11, <1>12, <1>13, <1>14, ChronicleOne

LEMMA FinishChronicle ==
  ASSUME Inv, Bounds, Reading, Chronicle, NEW p \in Sync, Finish(p)
  PROVE  Chronicle'
<1> SUFFICES ASSUME Smooth' PROVE Chronicle'
  BY DEF Chronicle
<1>1. /\ sync[p].pc = "write" /\ Smooth /\ InOrder /\ Waiting /\ Underway(p)
  BY DEF Finish, Smooth, Chronicle
<1>2. /\ sync[p].seen = clock /\ \A i \in Finished : runs[i] < clock
      /\ \A t \in Tender : Recent(t) => t \in sync[p].rows \/ tenders[t].last = clock
      /\ sync[p].run = Len(runs) /\ runs[Len(runs)] = 0
  BY <1>1 DEF Underway
<1>3. /\ Len(runs) \in Nat /\ Len(runs) >= 1 /\ clock \in Nat /\ clock >= 1
      /\ DOMAIN runs = 1 .. Len(runs)
  BY <1>1, <1>2, SyncFields, LenProperties DEF Inv, Bounds, Progress
<1>4. /\ UNCHANGED <<notices, tenders, cursor, alerts, clock, faults>>
      /\ Others(p) /\ sync[p].rows = {}
      /\ sync'[p] = [sync[p] EXCEPT !.pc = "commit"]
      /\ Len(runs') = Len(runs)
      /\ \A i \in 1 .. Len(runs) : runs'[i] = IF i = Len(runs) THEN clock ELSE runs[i]
  BY <1>2, <1>3, FinishMoves DEF Inv
<1>5. \A q \in Sync : q # p => sync[q].pc = "idle"
  BY <1>1, Alone
<1>6. /\ sync'[p].pc = "commit" /\ sync'[p].run = Len(runs') /\ sync'[p].seen = clock
  <2>1. sync[p] \in SyncType
    BY SyncFields DEF Inv
  <2> QED
    BY <1>2, <1>4, <2>1 DEF SyncType
<1>7. DOMAIN runs' = 1 .. Len(runs)
  <2>1. Inv'
    BY FinishStep
  <2>2. runs' \in Seq(Nat)
    BY <2>1 DEF Inv, Types
  <2> QED
    BY <1>4, <2>2, LenProperties
(* The run just finished is the latest; the others are the earlier ones.    *)
<1>8. /\ \A i \in Finished : i \in Nat /\ i < Len(runs) /\ runs'[i] = runs[i]
      /\ \A i : i \in Finished' <=> (i \in Finished \/ i = Len(runs))
      /\ runs'[Len(runs)] = clock
  <2>1. PICK n \in Nat : n = Len(runs) /\ n >= 1
    BY <1>3
  <2>2. \A i : i \in Finished <=> i \in 1 .. n /\ runs[i] # 0
    BY <1>3, <2>1 DEF Finished
  <2>3. \A i : i \in Finished' <=> i \in 1 .. n /\ runs'[i] # 0
    BY <1>7, <2>1 DEF Finished
  <2>4. n \in 1 .. n /\ runs[n] = 0 /\ runs'[n] = clock
    BY <1>2, <1>4, <2>1
  <2>5. \A i \in 1 .. n : i # n => i < n /\ runs'[i] = runs[i]
    BY <1>4, <2>1
  <2>6. \A i : i \in Finished => i \in 1 .. n /\ i # n
    BY <2>2, <2>4
  <2>7. \A i \in Finished : i \in Nat /\ i < n /\ runs'[i] = runs[i]
    BY <2>1, <2>5, <2>6
  <2>8. ASSUME NEW i PROVE i \in Finished' <=> (i \in Finished \/ i = n)
    <3>1. CASE i = n
      BY <1>3, <2>3, <2>4, <3>1
    <3>2. CASE i # n
      BY <2>2, <2>3, <2>5, <3>2
    <3> QED
      BY <3>1, <3>2
  <2> QED
    BY <2>1, <2>4, <2>7, <2>8
<1>9. Earlier' = Finished
  <2>1. PICK F, G, n : F = Finished /\ G = Finished' /\ n = Len(runs)
    OBVIOUS
  <2>2. /\ \A i \in F : i \in Nat /\ i < n
        /\ \A i : i \in G <=> (i \in F \/ i = n)
        /\ n \in Nat
    BY <1>3, <1>8, <2>1
  <2>3. {i \in G : \E j \in G : i < j} = F
    BY <2>2
  <2> QED
    BY <2>1, <2>3 DEF Earlier
<1>10. \A t \in Tender : /\ InWindow(t)' <=> Recent(t)
                         /\ t \in Past' <=> Reported(t)
                         /\ Settled(t)' <=> Settled(t)
  BY <1>4, <1>8, <1>9 DEF InWindow, Recent, Past, Reported, Settled, Told, AlwaysOpen
<1>11. InOrder'
  <2> SUFFICES ASSUME NEW i \in Finished', NEW j \in Finished', i < j
               PROVE  runs'[i] < runs'[j]
    BY DEF InOrder
  <2>1. i \in Finished
    <3>1. /\ \A k \in Finished : k \in Nat /\ k < Len(runs)
          /\ \A k : k \in Finished' <=> (k \in Finished \/ k = Len(runs))
      BY <1>8
    <3>2. PICK n \in Nat : n = Len(runs)
      BY <1>3
    <3>3. i # n
      <4>1. j = n \/ j \in Finished
        BY <3>1, <3>2
      <4>2. j = n \/ (j \in Nat /\ j < n)
        BY <3>1, <3>2, <4>1
      <4> QED
        BY <3>2, <4>2
    <3> QED
      BY <3>1, <3>2, <3>3
  <2>2. CASE j \in Finished
    BY <1>1, <1>8, <2>1, <2>2 DEF InOrder
  <2>3. CASE j = Len(runs)
    BY <1>2, <1>8, <2>1, <2>3
  <2> QED
    BY <1>8, <2>2, <2>3
<1>12. Waiting'
  BY <1>6 DEF Waiting
<1>13. Underway(p)'
  BY <1>6 DEF Underway
<1>14. Reporting(p)'
  <2>1. \A t \in Tender : Reported(t) => Settled(t)
    BY <1>1, <1>5 DEF Waiting
  <2>2. \A t \in Tender : /\ InWindow(t)' => tenders'[t].last = clock'
                          /\ t \in Past' => Settled(t)'
    BY <1>2, <1>4, <1>10, <2>1
  <2> QED
    BY <1>4, <1>6, <1>8, <2>2 DEF Reporting
<1>15. \A q \in Sync : q # p => sync'[q].pc = "idle"
  BY <1>4, <1>5 DEF Others
<1> QED
  BY <1>11, <1>12, <1>13, <1>14, <1>15, ChronicleOne

(* What a sync that is reporting says of the books, field by field.         *)
LEMMA ReportingShape ==
  ASSUME Inv, Reading, Chronicle, Smooth, NEW p \in Sync,
         sync[p].pc \in {"commit", "decide", "events"}
  PROVE  /\ InOrder /\ Reporting(p)
         /\ sync[p].seen = clock /\ sync[p].run = Len(runs)
         /\ Len(runs) \in Finished /\ runs[Len(runs)] = clock
         /\ \A q \in Sync : q # p => sync[q].pc = "idle"
         /\ \A t \in Tender : /\ InWindow(t) => tenders[t].last = clock
                              /\ t \in Past => Settled(t)
BY Alone DEF Chronicle, Reporting

LEMMA CommitChronicle ==
  ASSUME Inv, Reading, Chronicle, NEW p \in Sync, CommitStaged(p)
  PROVE  Chronicle'
<1>1. /\ UNCHANGED <<notices, tenders, runs, decided, alerts, clock, faults>>
      /\ Others(p) /\ sync[p].pc = "commit"
      /\ sync'[p] = [sync[p] EXCEPT !.pc = "decide", !.staged = [s \in Source |-> None]]
  BY CommitMoves DEF Inv
<1> SUFFICES ASSUME Smooth' PROVE Chronicle'
  BY DEF Chronicle
<1>2. Smooth
  BY <1>1 DEF Smooth
<1>3. /\ InOrder /\ sync[p].seen = clock /\ sync[p].run = Len(runs)
      /\ Len(runs) \in Finished /\ runs[Len(runs)] = clock
      /\ \A q \in Sync : q # p => sync[q].pc = "idle"
      /\ \A t \in Tender : /\ InWindow(t) => tenders[t].last = clock
                           /\ t \in Past => Settled(t)
  BY <1>1, <1>2, ReportingShape
<1>4. sync'[p].pc = "decide" /\ sync'[p].run = sync[p].run /\ sync'[p].seen = sync[p].seen
  <2>1. sync[p] \in SyncType
    BY SyncFields DEF Inv
  <2> QED
    BY <1>1, <2>1 DEF SyncType
<1>5. /\ UNCHANGED <<Finished, Earlier, Past>>
      /\ \A t \in Tender : (InWindow(t)' <=> InWindow(t)) /\ (Settled(t)' <=> Settled(t))
  BY <1>1 DEF Finished, Earlier, Past, InWindow, Settled, Told, AlwaysOpen
<1>6. InOrder' /\ Waiting' /\ Underway(p)'
  BY <1>1, <1>3, <1>4, <1>5 DEF InOrder, Waiting, Underway
<1>7. Reporting(p)'
  BY <1>1, <1>3, <1>4, <1>5 DEF Reporting
<1>8. \A q \in Sync : q # p => sync'[q].pc = "idle"
  BY <1>1, <1>3 DEF Others
<1> QED
  BY <1>6, <1>7, <1>8, ChronicleOne

(* The refresh decides every tender in the window that is not closed, or    *)
(* the cap defers it.                                                       *)
LEMMA DecideChronicle ==
  ASSUME Inv, Bounds, Reading, Truthful, Chronicle, NEW p \in Sync, Decide(p)
  PROVE  Chronicle'
<1>1. /\ UNCHANGED <<notices, tenders, lifecycle, cursor, runs, alerts, clock>>
      /\ Others(p) /\ sync[p].pc = "decide"
      /\ sync'[p] = [sync[p] EXCEPT !.pc = "events", !.left = Account]
      /\ decided' = decided \cup UNION {{a} \X Rescored(a) : a \in Account}
      /\ UNCHANGED <<faults.late, faults.health, faults.outages, faults.overlaps>>
      /\ faults'.deferred =
           faults.deferred \cup UNION {{a} \X (Stale(a) \ Rescored(a)) : a \in Account}
  BY DecideMoves DEF Inv
<1> SUFFICES ASSUME Smooth' PROVE Chronicle'
  BY DEF Chronicle
<1>2. Smooth
  BY <1>1 DEF Smooth
<1>3. /\ InOrder /\ sync[p].seen = clock /\ sync[p].run = Len(runs)
      /\ Len(runs) \in Finished /\ runs[Len(runs)] = clock
      /\ \A q \in Sync : q # p => sync[q].pc = "idle"
      /\ \A t \in Tender : /\ InWindow(t) => tenders[t].last = clock
                           /\ t \in Past => Settled(t)
  BY <1>1, <1>2, ReportingShape
<1>4. /\ sync'[p].pc = "events" /\ sync'[p].run = sync[p].run
      /\ sync'[p].seen = sync[p].seen /\ sync'[p].left = Account
  <2>1. sync[p] \in SyncType
    BY SyncFields DEF Inv
  <2> QED
    BY <1>1, <2>1 DEF SyncType
<1>5. /\ UNCHANGED <<Finished, Earlier, Past>>
      /\ \A t \in Tender : /\ InWindow(t)' <=> InWindow(t)
                           /\ AlwaysOpen(t)' <=> AlwaysOpen(t)
  BY <1>1 DEF Finished, Earlier, Past, InWindow, AlwaysOpen
<1>6. \A t \in Tender : Settled(t) => Settled(t)'
  BY <1>1, <1>5 DEF Settled, Told
<1>7. InOrder' /\ Waiting' /\ Underway(p)'
  BY <1>1, <1>3, <1>4, <1>5 DEF InOrder, Waiting, Underway
<1>8. ASSUME NEW a \in Account, NEW t \in Tender, InWindow(t), AlwaysOpen(t)
      PROVE  <<a, t>> \in decided' \cup faults'.deferred
  <2>1. Last(runs) = clock /\ Last(runs) # 0
    BY <1>3 DEF Last, Finished
  <2>2. t \in SeenAt(Last(runs))
    BY <1>3, <1>8, <2>1 DEF SeenAt, InWindow
  <2>3. Actionable(t)
    BY <1>8 DEF Actionable, Truthful
  <2>4. <<a, t>> \in decided \/ t \in Stale(a)
    BY <2>1, <2>2, <2>3 DEF Stale
  <2>5. t \in Stale(a) => t \in Rescored(a) \/ t \in Stale(a) \ Rescored(a)
    OBVIOUS
  <2> QED
    BY <1>1, <2>4, <2>5
<1>9. Reporting(p)'
  BY <1>1, <1>3, <1>4, <1>5, <1>6, <1>8 DEF Reporting
<1>10. \A q \in Sync : q # p => sync'[q].pc = "idle"
  BY <1>1, <1>3 DEF Others
<1> QED
  BY <1>7, <1>9, <1>10, ChronicleOne

(* While it is recorded, what is new of the latest run is in the window.    *)
LEMMA FreshWindow ==
  ASSUME Inv, Bounds, Len(runs) \in Finished, runs[Len(runs)] = clock,
         NEW t \in Tender, InWindow(t), tenders[t].last = clock,
         Earlier # {} \/ tenders[t].first = clock
  PROVE  t \in Fresh
<1>1. PICK n : n = Len(runs)
  OBVIOUS
<1>2. n \in Nat /\ DOMAIN runs = 1 .. n
  BY <1>1, LenProperties DEF Inv, Types
<1>3. Finished \in SUBSET (1 .. n) /\ n \in Finished /\ \A i \in 1 .. n : i <= n
  BY <1>1, <1>2 DEF Finished
<1>4. Max(Finished) = n
  <2>1. PICK F : F = Finished
    OBVIOUS
  <2>2. F \in SUBSET (1 .. n) /\ n \in F /\ F # {}
    BY <1>3, <2>1
  <2>3. Max(F) \in F /\ n <= Max(F)
    BY <1>2, <2>2, MaxShape
  <2>4. Max(F) \in 1 .. n
    BY <2>2, <2>3
  <2> QED
    BY <1>2, <2>1, <2>3, <2>4
<1>5. Current = clock
  BY <1>1, <1>4 DEF Current
<1>6. t \in SeenAt(Current)
  BY <1>5 DEF SeenAt, InWindow
<1>7. CASE Earlier = {}
  BY <1>5, <1>6, <1>7 DEF Fresh
<1>8. CASE Earlier # {}
  <2>1. Earlier \in SUBSET (1 .. n)
    BY <1>3 DEF Earlier
  <2>2. Max(Earlier) \in Earlier
    BY <1>2, <1>8, <2>1, MaxShape
  <2>3. Previous < tenders[t].first
    BY <2>2 DEF Previous, InWindow
  <2>4. tenders[t].first <= clock
    <3>1. tenders[t].first \in 1 .. clock /\ clock \in Nat
      BY DEF Bounds, Stamps, Inv, Types, InWindow
    <3> QED
      BY <3>1
  <2> QED
    BY <1>5, <1>6, <1>8, <2>3, <2>4 DEF Fresh
<1> QED
  BY <1>7, <1>8

(* What a finished run has seen and the window has not passed is in it.     *)
LEMMA ReportedWindow ==
  ASSUME Inv, Bounds, InOrder, Len(runs) \in Finished, runs[Len(runs)] = clock,
         NEW t \in Tender, Reported(t), t \notin Past
  PROVE  InWindow(t) /\ (Earlier # {} \/ tenders[t].first = clock)
<1>1. PICK n : n = Len(runs)
  OBVIOUS
<1>2. /\ n \in Nat /\ DOMAIN runs = 1 .. n /\ clock \in Nat
      /\ \A i \in 1 .. n : runs[i] \in Nat /\ runs[i] <= clock
  BY <1>1, LenProperties, ElementOfSeq DEF Inv, Types, Bounds
<1>3. tenders[t] # None /\ tenders[t].first \in Nat /\ tenders[t].first <= clock
  <2>1. tenders[t] # None
    BY DEF Reported
  <2>2. tenders[t].first \in 1 .. clock
    BY <2>1 DEF Bounds, Stamps
  <2> QED
    BY <1>2, <2>1, <2>2
<1>4. PICK f \in Nat : f = tenders[t].first
  BY <1>3
<1>5. /\ \A i \in Finished : i \in 1 .. n
      /\ \A i \in Earlier : i \in Finished /\ \E j \in Finished : i < j
      /\ \A i, j \in Finished : i < j => i \in Earlier
      /\ n \in Finished /\ runs[n] = clock
  BY <1>1, <1>2 DEF Finished, Earlier
<1>6. PICK i \in Finished, j \in Finished : f \in runs[i] .. runs[j]
  BY <1>4 DEF Reported
<1>7. \A k, l \in Earlier : ~(f \in runs[k] .. runs[l])
  BY <1>3, <1>4 DEF Past
<1>8. CASE i \in Earlier
  <2>1. ASSUME NEW k \in Earlier PROVE runs[k] < f
    <3>1. ~(f \in runs[i] .. runs[k])
      BY <1>7, <1>8
    <3>2. PICK low \in Nat, high \in Nat, top \in Nat :
            low = runs[i] /\ high = runs[j] /\ top = runs[k]
      BY <1>2, <1>5
    <3>3. low <= f
      BY <1>4, <1>6, <3>2
    <3>4. ~(f \in low .. top)
      BY <3>1, <3>2
    <3> QED
      BY <1>4, <3>2, <3>3, <3>4
  <2> QED
    BY <1>3, <1>4, <1>8, <2>1 DEF InWindow
<1>9. CASE i \notin Earlier
  <2>1. i = n
    <3>1. ~(i < n) /\ i \in 1 .. n
      BY <1>5, <1>9
    <3> QED
      BY <1>2, <3>1
  <2>2. f = clock
    BY <1>2, <1>3, <1>4, <1>5, <1>6, <2>1
  <2>3. ASSUME NEW k \in Earlier PROVE runs[k] < f
    <3>1. PICK l \in Finished : k < l
      BY <1>5
    <3>2. runs[k] < runs[l]
      BY <1>5, <3>1 DEF InOrder
    <3>3. runs[k] \in Nat /\ runs[l] \in Nat /\ runs[l] <= clock
      BY <1>2, <1>5
    <3> QED
      BY <1>2, <2>2, <3>2, <3>3
  <2> QED
    BY <1>3, <1>4, <2>2, <2>3 DEF InWindow
<1> QED
  BY <1>8, <1>9

(* The account takes its alerts; when it is the last one, the run is told.  *)
LEMMA RecordChronicle ==
  ASSUME Inv, Bounds, Reading, Truthful, Chronicle,
         NEW p \in Sync, NEW a \in Account, RecordAlerts(p, a)
  PROVE  Chronicle'
<1>1. /\ UNCHANGED <<notices, tenders, lifecycle, cursor, runs, decided, clock, faults>>
      /\ Others(p) /\ sync[p].pc = "events" /\ a \in sync[p].left
      /\ \/ sync[p].left = {a} /\ sync'[p] = Idle
         \/ sync'[p] = [sync[p] EXCEPT !.left = sync[p].left \ {a}]
      /\ alerts' = alerts \cup
           ({a} \X {t \in Fresh : <<a, t>> \in decided /\ t \in Fits[a] /\ Actionable(t)})
  BY RecordMoves DEF Inv
<1> SUFFICES ASSUME Smooth' PROVE Chronicle'
  BY DEF Chronicle
<1>2. Smooth
  BY <1>1 DEF Smooth
<1>3. /\ InOrder /\ sync[p].seen = clock /\ sync[p].run = Len(runs)
      /\ Len(runs) \in Finished /\ runs[Len(runs)] = clock
      /\ \A q \in Sync : q # p => sync[q].pc = "idle"
      /\ \A t \in Tender : /\ InWindow(t) => tenders[t].last = clock
                           /\ t \in Past => Settled(t)
  BY <1>1, <1>2, ReportingShape
<1>4. \A b \in Account : \A t \in Tender : InWindow(t) /\ AlwaysOpen(t) =>
        /\ <<b, t>> \in decided \cup faults.deferred
        /\ b \notin sync[p].left /\ (Earlier # {} \/ tenders[t].first = clock) => Told(b, t)
  BY <1>1, <1>2 DEF Chronicle, Reporting
<1>5. /\ UNCHANGED <<Finished, Earlier, Past>>
      /\ \A t \in Tender : /\ Recent(t)' <=> Recent(t)
                           /\ Reported(t)' <=> Reported(t)
                           /\ InWindow(t)' <=> InWindow(t)
                           /\ AlwaysOpen(t)' <=> AlwaysOpen(t)
                           /\ Settled(t) => Settled(t)'
      /\ \A b \in Account : \A t \in Tender : Told(b, t) => Told(b, t)'
  BY <1>1 DEF Finished, Earlier, Past, Recent, Reported, InWindow, Settled, Told, AlwaysOpen
<1>6. ASSUME NEW t \in Tender, InWindow(t), Earlier # {} \/ tenders[t].first = clock
      PROVE  Told(a, t)'
  <2> SUFFICES ASSUME t \in Fits[a], AlwaysOpen(t), <<a, t>> \notin faults.deferred
               PROVE  <<a, t>> \in alerts'
    BY <1>1, <1>5 DEF Told
  <2>1. t \in Fresh
    BY <1>3, <1>6, FreshWindow
  <2>2. Actionable(t) /\ <<a, t>> \in decided
    BY <1>4, <1>6 DEF Actionable, Truthful
  <2> QED
    BY <1>1, <2>1, <2>2
<1>7. \A q \in Sync : q # p => sync'[q].pc = "idle"
  BY <1>1, <1>3 DEF Others
<1>8. InOrder'
  BY <1>1, <1>3, <1>5 DEF InOrder
<1>9. CASE sync'[p] = [sync[p] EXCEPT !.left = sync[p].left \ {a}]
  <2>1. /\ sync'[p].pc = "events" /\ sync'[p].run = sync[p].run
        /\ sync'[p].seen = sync[p].seen /\ sync'[p].left = sync[p].left \ {a}
    <3>1. sync[p] \in SyncType
      BY SyncFields DEF Inv
    <3> QED
      BY <1>1, <1>9, <3>1 DEF SyncType
  <2>2. Waiting' /\ Underway(p)'
    BY <2>1 DEF Waiting, Underway
  <2>3. ASSUME NEW b \in Account, NEW t \in Tender, InWindow(t), AlwaysOpen(t)
        PROVE  /\ <<b, t>> \in decided \cup faults.deferred
               /\ b \notin sync'[p].left /\ (Earlier # {} \/ tenders[t].first = clock)
                    => Told(b, t)'
    <3>1. b \notin sync'[p].left => b = a \/ b \notin sync[p].left
      BY <2>1
    <3> QED
      BY <1>4, <1>5, <1>6, <2>3, <3>1
  <2>4. Reporting(p)'
    BY <1>1, <1>3, <1>5, <2>1, <2>3 DEF Reporting
  <2> QED
    BY <1>7, <1>8, <2>2, <2>4, ChronicleOne
<1>10. CASE sync[p].left = {a} /\ sync'[p] = Idle
  <2>1. sync'[p].pc = "idle"
    BY <1>10 DEF Idle
  <2>2. Underway(p)' /\ Reporting(p)'
    BY <2>1 DEF Underway, Reporting
  <2>3. ASSUME NEW t \in Tender, Reported(t) PROVE Settled(t)'
    <3>1. CASE t \in Past
      BY <1>3, <1>5, <3>1
    <3>2. CASE t \notin Past
      <4>1. InWindow(t) /\ (Earlier # {} \/ tenders[t].first = clock)
        BY <1>3, <2>3, <3>2, ReportedWindow
      <4>2. Told(a, t)'
        BY <1>6, <4>1
      <4>3. ASSUME NEW b \in Account PROVE Told(b, t)'
        <5>1. CASE b = a
          BY <4>2, <5>1
        <5>2. CASE b # a
          <6>1. AlwaysOpen(t) => Told(b, t)
            BY <1>4, <1>10, <4>1, <5>2
          <6>2. ~AlwaysOpen(t) => Told(b, t)
            BY DEF Told
          <6> QED
            BY <1>5, <6>1, <6>2
        <5> QED
          BY <5>1, <5>2
      <4> QED
        BY <4>3 DEF Settled
    <3> QED
      BY <3>1, <3>2
  <2>4. ASSUME NEW t \in Tender PROVE ~Recent(t)
    <3> SUFFICES ASSUME Recent(t) PROVE FALSE
      OBVIOUS
    <3>1. tenders[t] # None /\ clock < tenders[t].first
      BY <1>3 DEF Recent
    <3>2. tenders[t].first \in 1 .. clock /\ clock \in Nat
      BY <3>1 DEF Bounds, Stamps, Inv, Types
    <3> QED
      BY <3>1, <3>2
  <2>5. Waiting'
    BY <1>5, <2>3, <2>4 DEF Waiting
  <2> QED
    BY <1>7, <1>8, <2>2, <2>5, ChronicleOne
<1> QED
  BY <1>1, <1>9, <1>10

(* A sync that fails before its run is finished leaves everything as it is; *)
(* one that fails later is not smooth.                                      *)
LEMMA FailureChronicle ==
  ASSUME Inv, Reading, Chronicle, NEW p \in Sync, Interrupt(p) \/ LateInterrupt(p)
  PROVE  Chronicle'
<1>1. /\ UNCHANGED <<notices, stored, clock>> /\ Others(p) /\ sync'[p] = Idle
      /\ UNCHANGED <<faults.overlaps, faults.health, faults.outages, faults.deferred>>
      /\ \/ sync[p].pc \in {"start", "write"} /\ UNCHANGED faults.late
         \/ sync[p].pc \in {"commit", "decide", "events"} /\ faults'.late = faults.late + 1
  BY FailureMoves DEF Inv
<1> SUFFICES ASSUME Smooth' PROVE Chronicle'
  BY DEF Chronicle
<1>2. faults.late \in Nat
  BY DEF Inv, Types, FaultType
<1>3. sync[p].pc \in {"start", "write"} /\ UNCHANGED faults.late
  BY <1>1, <1>2 DEF Smooth
<1>4. Smooth
  BY <1>1, <1>3 DEF Smooth
<1>5. InOrder /\ Waiting /\ \A q \in Sync : q # p => sync[q].pc = "idle"
  BY <1>3, <1>4, Alone DEF Chronicle
<1>6. \A t \in Tender : /\ Recent(t) => t \in TenderRows(Source)
                        /\ Reported(t) => Settled(t)
  BY <1>3, <1>5 DEF Waiting
<1>7. /\ UNCHANGED <<tenders, cursor, runs, alerts, notices>>
      /\ UNCHANGED <<Finished, TenderRows(Source)>>
  BY <1>1 DEF stored, Finished, TenderRows, Window
<1>8. \A t \in Tender : /\ Recent(t)' <=> Recent(t)
                        /\ Reported(t)' <=> Reported(t)
                        /\ Settled(t)' <=> Settled(t)
  BY <1>1, <1>7 DEF Recent, Reported, Settled, Told, AlwaysOpen
<1>9. InOrder' /\ Waiting'
  BY <1>5, <1>6, <1>7, <1>8 DEF InOrder, Waiting
<1>10. sync'[p].pc = "idle"
  BY <1>1 DEF Idle
<1>11. Underway(p)' /\ Reporting(p)'
  BY <1>10 DEF Underway, Reporting
<1>12. \A q \in Sync : q # p => sync'[q].pc = "idle"
  BY <1>1, <1>5 DEF Others
<1> QED
  BY <1>9, <1>11, <1>12, ChronicleOne

-----------------------------------------------------------------------------
LEMMA TruthfulStays ==
  ASSUME Truthful, UNCHANGED <<notices, lifecycle>>
  PROVE  Truthful'
BY DEF Truthful, AlwaysOpen

LEMMA TruthfulStep == Inv /\ Reading /\ Truthful /\ [Next]_vars => Truthful'
<1> SUFFICES ASSUME Inv, Reading, Truthful, [Next]_vars PROVE Truthful'
  OBVIOUS
<1>1. Inv'
  BY InvStep
<1>2. CASE UNCHANGED vars
  BY <1>2, TruthfulStays DEF vars, stored
<1>3. ASSUME NEW n \in Notice, Publish(n) PROVE Truthful'
  <2>1. UNCHANGED lifecycle /\ Types'
    BY <1>1, <1>3 DEF Publish, stored, Inv
  <2>2. \A t \in Tender : AlwaysOpen(t)' => AlwaysOpen(t)
    BY <1>3, <2>1, OpenBefore
  <2> QED
    BY <2>1, <2>2 DEF Truthful
<1>4. ASSUME NEW p \in Sync, NEW ok \in SUBSET (Source \ {TED}), NEW h \in BOOLEAN,
             Fetch(p, ok, h)
      PROVE  Truthful'
  BY <1>4, TruthfulStays DEF Fetch, stored
<1>5. ASSUME NEW p \in Sync, CommitStaged(p) PROVE Truthful'
  BY <1>5, CommitTruthful
<1>6. ASSUME NEW p \in Sync,
             StartRun(p) \/ WriteChunk(p) \/ Finish(p) \/ Decide(p)
               \/ \E a \in Account : RecordAlerts(p, a)
      PROVE  Truthful'
  BY <1>6, TruthfulStays DEF StartRun, WriteChunk, Finish, Decide, RecordAlerts
<1>7. ASSUME NEW p \in Sync, Interrupt(p) \/ LateInterrupt(p) PROVE Truthful'
  BY <1>7, TruthfulStays DEF Interrupt, LateInterrupt, Abandon, stored
<1> QED
  BY <1>2, <1>3, <1>4, <1>5, <1>6, <1>7 DEF Next, SyncStep

LEMMA ChronicleStep ==
  Inv /\ Bounds /\ Reading /\ Truthful /\ Chronicle /\ [Next]_vars => Chronicle'
<1> SUFFICES ASSUME Inv, Bounds, Reading, Truthful, Chronicle, [Next]_vars PROVE Chronicle'
  OBVIOUS
<1>1. Types'
  BY InvStep DEF Inv
<1>2. CASE UNCHANGED vars
  <2>1. /\ UNCHANGED <<notices, tenders, cursor, runs, decided, alerts, sync, clock, faults>>
        /\ UNCHANGED <<Finished, Earlier, Past, TenderRows(Source)>>
    BY <1>2 DEF vars, stored, Finished, Earlier, Past, TenderRows, Window
  <2>2. \A t \in Tender : /\ Recent(t)' <=> Recent(t)
                          /\ Reported(t)' <=> Reported(t)
                          /\ InWindow(t)' <=> InWindow(t)
                          /\ Settled(t)' <=> Settled(t)
                          /\ AlwaysOpen(t)' <=> AlwaysOpen(t)
                          /\ \A a \in Account : Told(a, t)' <=> Told(a, t)
    BY <2>1 DEF Recent, Reported, InWindow, Settled, Told, AlwaysOpen
  <2> SUFFICES ASSUME Smooth' PROVE InOrder' /\ Waiting' /\ \A p \in Sync : Underway(p)' /\ Reporting(p)'
    BY DEF Chronicle
  <2>3. InOrder /\ Waiting /\ \A p \in Sync : Underway(p) /\ Reporting(p)
    BY <2>1 DEF Chronicle, Smooth
  <2>4. InOrder' /\ Waiting'
    BY <2>1, <2>2, <2>3 DEF InOrder, Waiting
  <2>5. \A p \in Sync : Underway(p)'
    BY <2>1, <2>2, <2>3 DEF Underway
  <2>6. \A p \in Sync : Reporting(p)'
    BY <2>1, <2>2, <2>3 DEF Reporting
  <2> QED
    BY <2>4, <2>5, <2>6
<1>3. ASSUME NEW n \in Notice, Publish(n) PROVE Chronicle'
  BY <1>1, <1>3, PublishChronicle
<1>4. ASSUME NEW p \in Sync, NEW ok \in SUBSET (Source \ {TED}), NEW h \in BOOLEAN,
             Fetch(p, ok, h)
      PROVE  Chronicle'
  BY <1>4, FetchChronicle
<1>5. ASSUME NEW p \in Sync, StartRun(p) PROVE Chronicle'
  BY <1>5, StartRunChronicle
<1>6. ASSUME NEW p \in Sync, WriteChunk(p) PROVE Chronicle'
  BY <1>6, WriteChunkChronicle
<1>7. ASSUME NEW p \in Sync, Finish(p) PROVE Chronicle'
  BY <1>7, FinishChronicle
<1>8. ASSUME NEW p \in Sync, CommitStaged(p) PROVE Chronicle'
  BY <1>8, CommitChronicle
<1>9. ASSUME NEW p \in Sync, Decide(p) PROVE Chronicle'
  BY <1>9, DecideChronicle
<1>10. ASSUME NEW p \in Sync, NEW a \in Account, RecordAlerts(p, a) PROVE Chronicle'
  BY <1>10, RecordChronicle
<1>11. ASSUME NEW p \in Sync, Interrupt(p) \/ LateInterrupt(p) PROVE Chronicle'
  BY <1>11, FailureChronicle
<1> QED
  BY <1>2, <1>3, <1>4, <1>5, <1>6, <1>7, <1>8, <1>9, <1>10, <1>11 DEF Next, SyncStep

(* Every tender an account is qualified for is alerted before the window of *)
(* new tenders has passed it (notification_events.py:106-107), although     *)
(* syncs fail while they write: for any cap of the refresh, any sources and *)
(* any number of tenders.  What the formula excepts is what the code loses; *)
(* of the cap (decision_refresh.py:226-228) these are the very pairs it has *)
(* left undecided, and no other tender suffers from it.                     *)
THEOREM EveryMatchIsAlertedHolds == Spec => []EveryMatchIsAlerted
<1> DEFINE All == Inv /\ Bounds /\ Reading /\ Truthful /\ Chronicle
<1>1. Init => All
  BY InvInit, BoundsInit, ReadingInit, TruthfulInit, ChronicleInit
<1>2. All /\ [Next]_vars => All'
  BY InvStep, BoundsStep, ReadingStep, TruthfulStep, ChronicleStep
<1>3. All => EveryMatchIsAlerted
  BY ChronicleAlerts
<1> QED
  BY <1>1, <1>2, <1>3, PTL DEF Spec
=============================================================================
