----------------------------- MODULE RadarSync -----------------------------
(***************************************************************************)
(* The ingestion pipeline of ObraSignal: sync_once_with_events             *)
(* (preload.py) over the bounded writer (bounded_sync.py), the staged      *)
(* source state (source_runtime.py), the decision refresh                  *)
(* (decision_refresh.py) and the alerts (notification_events.py), as       *)
(* cors_app.py installs them.                                              *)
(*                                                                         *)
(* The background loop and a POST /sync run the same pipeline, and nothing *)
(* keeps them apart; each transaction is a step of its own.  Publishers    *)
(* are external: "TED" is read again from a day before its watermark, the  *)
(* national source gives every notice once.  A tender's content does not   *)
(* change and profiles are not edited, so that a fingerprint, once         *)
(* recorded, stays current.                                                *)
(***************************************************************************)
EXTENDS Naturals, Sequences, FiniteSets, FiniteSetsExt, SequencesExt

CONSTANTS
  Source, TED,           \* the sources, and the one that is not incremental
  NumTenders,
  SourceOf,              \* the source of each tender
  Account,
  Fits,                  \* the tenders each account is qualified for
  Sync,                  \* the callers of sync_once
  None,
  Chunk,                 \* DEFAULT_WRITE_CHUNK
  RefreshLimit,          \* MAX_REFRESH_PER_ACCOUNT
  MaxNotices,            \* bound: notices of a source
  MaxRuns,               \* bound: sync runs
  PublishUntil,          \* bound: runs started before publishing ends
  MaxInterrupts,         \* bound: syncs that fail while they write
  MaxLate,               \* bound: syncs that fail after their run is finished
  MaxHealth,             \* bound: health writes that fail
  MaxOutages,            \* bound: fetches in which a source fails
  MaxOverlaps,           \* bound: syncs begun while another one runs
  MaxFaults              \* bound: all of these together

Tender == 1 .. NumTenders      \* (source, external_id), in rowid order

ASSUME RadarAssumption ==
  /\ TED \in Source /\ NumTenders \in Nat /\ SourceOf \in [Tender -> Source]
  /\ Fits \in [Account -> SUBSET Tender]
  /\ None \notin [first : Nat, last : Nat] /\ None \notin BOOLEAN
  /\ Chunk \in Nat \ {0} /\ RefreshLimit \in Nat \ {0}
  /\ {MaxNotices, MaxRuns, PublishUntil, MaxInterrupts, MaxLate, MaxHealth, MaxOutages,
      MaxOverlaps, MaxFaults} \subseteq Nat

VARIABLES
  notices,      \* what each source has published, in order
  cursor,       \* source_cursor: how many of them are behind the watermark
  tenders,      \* the tenders table
  lifecycle,    \* the opportunity_lifecycle table
  runs,         \* sync_runs: finished_at of each run
  decided,      \* opportunity_decision_inputs with its decision
  alerts,       \* opportunity_events
  sync, clock,
  faults        \* history: what went wrong, and what the cap left undecided

stored == <<tenders, lifecycle, cursor, runs, decided, alerts>>
vars == <<notices, stored, sync, clock, faults>>

Notice == [tender : Tender, open : BOOLEAN]

Staged == [records : Seq(Notice), cursor : Nat]

Idle == [pc |-> "idle", rows |-> {}, staged |-> [s \in Source |-> None],
         seen |-> 0, run |-> 0, left |-> {}]

TypeOK ==
  /\ notices \in [Source -> Seq(Notice)]
  /\ cursor \in [Source -> 0 .. MaxNotices]
  /\ tenders \in [Tender -> [first : 1 .. clock, last : 1 .. clock] \cup {None}]
  /\ lifecycle \in [Tender -> BOOLEAN \cup {None}]
  /\ runs \in Seq(0 .. clock)
  /\ decided \subseteq Account \X Tender
  /\ alerts \subseteq decided
  /\ sync \in [Sync -> [pc : {"idle", "start", "write", "commit", "decide", "events"},
                        rows : SUBSET Tender, staged : [Source -> Staged \cup {None}],
                        seen : 0 .. clock, run : 0 .. Len(runs), left : SUBSET Account]]
  /\ clock \in Nat
  /\ faults \in [interrupts : Nat, late : Nat, health : Nat,
                 outages : Nat, overlaps : Nat,
                 deferred : SUBSET (Account \X Tender)]

Init ==
  /\ notices = [s \in Source |-> <<>>]
  /\ cursor = [s \in Source |-> 0]
  /\ tenders = [t \in Tender |-> None]
  /\ lifecycle = [t \in Tender |-> None]
  /\ runs = <<>> /\ decided = {} /\ alerts = {}
  /\ sync = [p \in Sync |-> Idle]
  /\ clock = 0
  /\ faults = [interrupts |-> 0, late |-> 0, health |-> 0,
               outages |-> 0, overlaps |-> 0, deferred |-> {}]

-----------------------------------------------------------------------------
(* The publishers (external).  TED notices only open a tender.              *)
Publish(n) ==
  LET s == SourceOf[n.tender] IN
  /\ Len(notices[s]) < MaxNotices
  /\ Len(runs) < PublishUntil
  /\ s = TED => n.open
  /\ LET before == SelectSeq(notices[s], LAMBDA m : m.tender = n.tender)
     IN n.open = IF before = <<>> THEN TRUE ELSE ~Last(before).open
  /\ notices' = [notices EXCEPT ![s] = Append(@, n)]
  /\ UNCHANGED <<stored, sync, clock, faults>>

-----------------------------------------------------------------------------
(* Fetching.                                                                *)

(* What a source gives after its watermark.                                 *)
Window(s) ==
  LET from == IF s = TED /\ cursor[s] > 0 THEN cursor[s] ELSE cursor[s] + 1
  IN SubSeq(notices[s], from, Len(notices[s]))

(* TED stages its watermark without records.                                *)
Stage(s) ==
  [records |-> IF s = TED THEN <<>> ELSE Window(s), cursor |-> Len(notices[s])]

(* The rows for the tenders table: the open notices.                        *)
TenderRows(S) ==
  {t \in Tender : SourceOf[t] \in S
                    /\ [tender |-> t, open |-> TRUE] \in ToSet(Window(SourceOf[t]))}

(* What goes wrong stays within the bounds.                                 *)
Affordable(f) ==
  /\ f.interrupts <= MaxInterrupts /\ f.late <= MaxLate /\ f.health <= MaxHealth
  /\ f.outages <= MaxOutages /\ f.overlaps <= MaxOverlaps
  /\ f.interrupts + f.late + f.health + f.outages + f.overlaps <= MaxFaults

Busy == {p \in Sync : sync[p].pc # "idle"}

(* TED and the sources ok are read; TED gives something, or the sync fails  *)
(* and leaves nothing.  When a health write fails, fetch_base raises: its   *)
(* rows are dropped, what it has staged is not.                             *)
Fetch(p, ok, healthFails) ==
  /\ sync[p].pc = "idle"
  /\ clock < MaxRuns
  /\ Window(TED) # <<>>
  /\ clock' = clock + 1
  /\ sync' = [sync EXCEPT ![p] =
       [pc |-> "start", seen |-> clock', run |-> 0, left |-> {},
        rows |-> TenderRows(IF healthFails THEN {TED} ELSE ok \cup {TED}),
        staged |-> [s \in Source |-> IF s \in ok \cup {TED} THEN Stage(s) ELSE None]]]
  /\ faults' = [faults EXCEPT !.health = IF healthFails THEN @ + 1 ELSE @,
                              !.outages = IF ok \cup {TED} # Source THEN @ + 1 ELSE @,
                              !.overlaps = IF Busy # {} THEN @ + 1 ELSE @]
  /\ Affordable(faults')
  /\ UNCHANGED <<notices, stored>>

-----------------------------------------------------------------------------
(* Writing.                                                                 *)

StartRun(p) ==
  /\ sync[p].pc = "start"
  /\ runs' = Append(runs, 0)
  /\ sync' = [sync EXCEPT ![p].pc = "write", ![p].run = Len(runs')]
  /\ UNCHANGED <<notices, tenders, lifecycle, cursor, decided, alerts, clock, faults>>

FaultyUpsert(t, seen) ==                   \* stamped when it is written
  IF tenders[t] = None THEN [first |-> seen + 1, last |-> seen + 1]
  ELSE [tenders[t] EXCEPT !.last = seen + 1]

Upsert(t, seen) ==
  IF tenders[t] = None THEN [first |-> seen, last |-> seen]
  ELSE [tenders[t] EXCEPT !.last = seen]

(* The rows are written in the order they came in, which is left open.      *)
WriteChunk(p) ==
  LET rows == sync[p].rows IN
  /\ sync[p].pc = "write" /\ rows # {}
  /\ \E chunk \in kSubset(Min({Chunk, Cardinality(rows)}), rows) :
       /\ tenders' = [t \in Tender |->
                        IF t \in chunk THEN Upsert(t, sync[p].seen) ELSE tenders[t]]
       /\ sync' = [sync EXCEPT ![p].rows = rows \ chunk]
  /\ UNCHANGED <<notices, lifecycle, cursor, runs, decided, alerts, clock, faults>>

Finish(p) ==
  /\ sync[p].pc = "write" /\ sync[p].rows = {}
  /\ runs' = [runs EXCEPT ![sync[p].run] = sync[p].seen]
  /\ sync' = [sync EXCEPT ![p].pc = "commit"]
  /\ UNCHANGED <<notices, tenders, lifecycle, cursor, decided, alerts, clock, faults>>

FaultyObserved(t, records) ==              \* a closed tender stays closed
  IF lifecycle[t] = FALSE \/ [tender |-> t, open |-> FALSE] \in ToSet(records)
  THEN FALSE
  ELSE IF \E n \in ToSet(records) : n.tender = t THEN TRUE ELSE lifecycle[t]

(* The last record about a tender decides.                                  *)
Observed(t, records) ==
  LET about == {i \in DOMAIN records : records[i].tender = t}
  IN IF about = {} THEN lifecycle[t] ELSE records[Max(about)].open

FaultyCursors(staged) ==                   \* the cursor of a source that failed
  [s \in Source |-> IF staged[s] = None THEN Len(notices[s]) ELSE staged[s].cursor]

Cursors(staged) ==
  [s \in Source |-> IF staged[s] = None THEN cursor[s] ELSE staged[s].cursor]

(* commit_staged_source_syncs: signals, lifecycle and cursors together.     *)
CommitStaged(p) ==
  LET staged == sync[p].staged IN
  /\ sync[p].pc = "commit"
  /\ lifecycle' = [t \in Tender |->
       LET s == SourceOf[t] IN
       IF staged[s] = None THEN lifecycle[t] ELSE Observed(t, staged[s].records)]
  /\ cursor' = Cursors(staged)
  /\ sync' = [sync EXCEPT ![p].pc = "decide", ![p].staged = Idle.staged]
  /\ UNCHANGED <<notices, tenders, runs, decided, alerts, clock, faults>>

-----------------------------------------------------------------------------
(* Decisions and alerts.                                                    *)

Actionable(t) == lifecycle[t] # FALSE

SeenAt(stamp) == {t \in Tender : tenders[t] # None /\ tenders[t].last = stamp}

(* The tenders of the latest run that an account has no decision for; none  *)
(* while the latest run is not finished.                                    *)
Stale(a) ==
  {t \in SeenAt(Last(runs)) : Last(runs) # 0 /\ Actionable(t) /\ <<a, t>> \notin decided}

(* The cap takes the first of them and leaves the others undecided.         *)
Rescored(a) ==
  {t \in Stale(a) : Cardinality({u \in Stale(a) : u <= t}) <= RefreshLimit}

Decide(p) ==
  /\ sync[p].pc = "decide"
  /\ decided' = decided \cup UNION {{a} \X Rescored(a) : a \in Account}
  /\ faults' = [faults EXCEPT !.deferred =
                  @ \cup UNION {{a} \X (Stale(a) \ Rescored(a)) : a \in Account}]
  /\ sync' = [sync EXCEPT ![p].pc = "events", ![p].left = Account]
  /\ UNCHANGED <<notices, tenders, lifecycle, cursor, runs, alerts, clock>>

(* The ids of the finished runs, and of all but the latest of them.         *)
Finished == {i \in DOMAIN runs : runs[i] # 0}
Earlier == {i \in Finished : \E j \in Finished : i < j}

Current == runs[Max(Finished)]
Previous == runs[Max(Earlier)]

FaultyFresh ==                             \* the first run is only a baseline
  IF Earlier # {}
  THEN {t \in SeenAt(Current) : Previous < tenders[t].first /\ tenders[t].first <= Current}
  ELSE {}

(* New since the run before the latest finished one.                        *)
Fresh ==
  IF Earlier # {}
  THEN {t \in SeenAt(Current) : Previous < tenders[t].first /\ tenders[t].first <= Current}
  ELSE {t \in SeenAt(Current) : tenders[t].first = Current}

(* record_new_opportunities, which commits for each account.                *)
RecordAlerts(p, a) ==
  /\ sync[p].pc = "events" /\ a \in sync[p].left
  /\ alerts' = alerts \cup
       ({a} \X {t \in Fresh : <<a, t>> \in decided /\ t \in Fits[a] /\ Actionable(t)})
  /\ LET left == sync[p].left \ {a} IN
       sync' = [sync EXCEPT ![p] =
                  IF left = {} THEN Idle ELSE [sync[p] EXCEPT !.left = left]]
  /\ UNCHANGED <<notices, tenders, lifecycle, cursor, runs, decided, clock, faults>>

-----------------------------------------------------------------------------
(* A transaction fails, or the process is killed: what is in memory is      *)
(* gone.                                                                    *)
Abandon(p) ==
  /\ sync' = [sync EXCEPT ![p] = Idle]
  /\ UNCHANGED <<notices, stored, clock>>

Interrupt(p) ==
  /\ sync[p].pc \in {"start", "write"}
  /\ faults' = [faults EXCEPT !.interrupts = @ + 1]
  /\ Affordable(faults')
  /\ Abandon(p)

LateInterrupt(p) ==
  /\ sync[p].pc \in {"commit", "decide", "events"}
  /\ faults' = [faults EXCEPT !.late = @ + 1]
  /\ Affordable(faults')
  /\ Abandon(p)

SyncStep(p) ==
  \/ StartRun(p) \/ WriteChunk(p) \/ Finish(p) \/ CommitStaged(p) \/ Decide(p)
  \/ \E a \in Account : RecordAlerts(p, a)

Next ==
  \/ \E n \in Notice : Publish(n)
  \/ \E p \in Sync :
       \/ \E ok \in SUBSET (Source \ {TED}), h \in BOOLEAN : Fetch(p, ok, h)
       \/ SyncStep(p) \/ Interrupt(p) \/ LateInterrupt(p)

Spec == Init /\ [][Next]_vars

-----------------------------------------------------------------------------
(* A watermark never passes a tender that was not written ("Advancing that  *)
(* watermark before persistence succeeds could permanently skip records",   *)
(* source_runtime.py:3-5), whatever syncs overlap, fail or are killed.  Not *)
(* so when fetch_base raises after a source has staged its state            *)
(* (bounded_sync.py:52).                                                    *)
CursorAfterRows ==
  faults.health = 0 =>
    \A s \in Source : \A i \in 1 .. cursor[s] :
      notices[s][i].open => tenders[notices[s][i].tender] # None

(* What the lifecycle table says of a tender is never older than the        *)
(* watermark: a tombstone behind it has closed its tender, even if an       *)
(* overlapping sync wrote what it had read before (source_runtime.py:72-91).*)
(* Not so when one sync overlaps two others: they read less and less, the   *)
(* oldest commits before the newest, and what it reopened stays open.       *)
LifecycleAtWatermark ==
  faults.overlaps < 2 => \A t \in Tender :
    LET s == SourceOf[t]
        read == {i \in 1 .. cursor[s] : notices[s][i].tender = t}
    IN s # TED /\ read # {} =>
         \E i \in Max(read) .. Len(notices[s]) :
           notices[s][i].tender = t /\ lifecycle[t] = notices[s][i].open

(* The tenders, first seen since the first finished run, that no later sync *)
(* takes for new.                                                           *)
Past ==
  {t \in Tender : /\ tenders[t] # None
                  /\ \E i, j \in Earlier : tenders[t].first \in runs[i] .. runs[j]}

AlwaysOpen(t) == \A n \in ToSet(notices[SourceOf[t]]) : n.tender = t => n.open

(* Every tender an account is qualified for is alerted before the window    *)
(* of new tenders has passed it, although syncs fail while they write       *)
(* ("availability hardening cannot silently lose a customer alert",         *)
(* notification_events.py:106-107).  Holds when no sync fails after its run *)
(* was finished, none overlap, no rows are dropped and no source is down    *)
(* meanwhile, for the tenders first seen since there is a finished run,     *)
(* save those the cap of a refresh left undecided for the account: when a   *)
(* later one decides them they are no longer new.                           *)
EveryMatchIsAlerted ==
  /\ faults.late = 0 /\ faults.overlaps = 0 /\ faults.health = 0
  /\ faults.outages = 0 /\ Busy = {}
  => \A a \in Account : \A t \in Fits[a] \cap Past :
       AlwaysOpen(t) /\ <<a, t>> \notin faults.deferred => <<a, t>> \in alerts
=============================================================================
