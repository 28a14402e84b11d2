----------------------------- MODULE ClaimProofs ----------------------------
(***************************************************************************)
(* What is proved about a claim (vertical_apps/industrial_claims): the     *)
(* facts, late supplements and sheets recorded around a change, the proof  *)
(* pack rebuilt from them and from the case, its external attestation, and *)
(* the confidential offline export.  It runs next to IndustrialClaims, in  *)
(* other threads over the same file, and changes none of its tables.       *)
(*                                                                         *)
(* A hash stands for what it covers: a proof target is the part of the     *)
(* case it commits to, a chain of hashes is the order its rows were        *)
(* written in.  The receipts one operation archives are one row.           *)
(***************************************************************************)
EXTENDS IndustrialClaims, Sequences

CONSTANTS
  Operation,     \* ids of external proofs and exports; also the calls that add facts
  WindowDays,    \* factual_window_hours, in days
  Budget,        \* bounds: what may happen in one behaviour
  Unlimited

VARIABLES
  day,       \* today
  born,      \* the day each finding was created, from its audit event
  clock,     \* instants read so far, within and across days
  capture,   \* the factual window of each finding and what was recorded for it
  ledger,    \* causledger_proof_externalization_events
  archive,   \* causledger_external_attestation_receipts
  exports,   \* causledger_offline_export_events
  asked,     \* what left the program for a provider
  released,  \* bundles handed out
  task,      \* what the call of an operation is about to do
  left       \* what is left of the budget

captureVars == <<capture, clock>>
proofVars == <<ledger, archive, asked>>
exportVars == <<exports, released>>
allvars ==
  <<vars, day, born, captureVars, proofVars, exportVars, task, left>>

Instant == [day : Nat, at : Nat]

(* A row of the window: facts and late supplements in the order they were   *)
(* inserted, the sheets downloaded, the subjects of their timestamps.       *)
Capture ==
  [facts : Seq(Instant), late : Seq(Instant), sheets : Nat,
   stamped : SUBSET {"vindorum", "causledger"}]

Receipts == {"VERIFIED", "UNAVAILABLE"}

ASSUME ClaimProofsAssumption ==
  /\ WindowDays \in Nat /\ Unlimited \notin Nat
  /\ Budget \subseteq
       [requests : Nat \cup {Unlimited}, days : Nat, entries : Nat, proofs : Nat]
  /\ None \notin Nat /\ None \notin Capture /\ Role # {}

Spend(what) ==
  /\ left[what] # 0
  /\ left' = IF left[what] = Unlimited THEN left ELSE [left EXCEPT ![what] = @ - 1]

-----------------------------------------------------------------------------
(* The proof pack.                                                          *)

WindowOpen(id) == day <= born[id] + WindowDays

(* Rows are read by recorded_at, each must name the one inserted before it: *)
(* they do if they were recorded in the order they were inserted.           *)
ChainValid(rows) == \A i, j \in DOMAIN rows : i < j => rows[i].at < rows[j].at

(* What the sheet service signs, and what the chronology reader accepts.    *)
SheetSubject == "vindorum"
AcceptedSubjects == {"causledger"}

FactsReadable(window) == ChainValid(window.facts)

SupplementsReadable(window) == ChainValid(window.late)

TimeTrustReadable(window) == window.stamped \subseteq AcceptedSubjects

ChronologyReadable(id) ==
  capture[id] # None =>
    /\ FactsReadable(capture[id]) /\ SupplementsReadable(capture[id])
    /\ TimeTrustReadable(capture[id])

OutcomesOf(id) == {o \in Outcome : outcome[o] # None /\ outcome[o].finding = id}

(* What was captured is bound again to its registries: case originals to    *)
(* their role and one authorization, an outcome's to the finding.           *)
CaseBound(id) ==
  LET basis == finding[id].claim.basis IN
  basis # Inline =>
    /\ \A r \in Role : envelope[basis[r]] # None /\ envelope[basis[r]].role = r
    /\ Cardinality({envelope[basis[r]].authorization : r \in Role}) = 1

OutcomesBound(id) ==
  \A o \in OutcomesOf(id) : outcome[o].proof # Inline => proof[outcome[o].proof] = id

(* The audit of a resolved finding holds one resolution.                    *)
ResolvedOnce(id) ==
  OutcomesOf(id) # {} =>
    Cardinality(OutcomesOf(id)) = 1 /\ finding[id].state \in Closed

PackBound(id) ==
  DossierIntegrity(id) /\ CaseBound(id) /\ OutcomesBound(id) /\ ResolvedOnce(id)

PackReadable(id) == PackBound(id) /\ ChronologyReadable(id)

(* The core package: the dossier with its notice as of today, its outcomes, *)
(* and the chronology with the state of its window.                         *)
Target(id) ==
  [finding |-> finding[id],
   outcomes |-> OutcomesOf(id),
   asOf |-> day,
   chronology |-> IF capture[id] = None THEN None
                  ELSE [rows |-> capture[id], open |-> WindowOpen(id)]]

(* The rows an operation has in a log.                                      *)
EventsOf(log, o) == {i \in DOMAIN log : log[i].op = o}

Completed(log, o) == \E i \in DOMAIN log : log[i].op = o /\ log[i].state = "COMPLETED"

Archived(o) == {i \in DOMAIN archive : archive[i].op = o}

FaultyOperationHead(o) ==
  CHOOSE i \in DOMAIN archive :
    /\ \E j \in Archived(o) : archive[i].target = archive[j].target
    /\ \A k \in DOMAIN archive : archive[k].target = archive[i].target => k <= i

(* The last hash among the operation's own rows.                            *)
OperationHead(o) == CHOOSE i \in Archived(o) : \A j \in Archived(o) : j <= i

(* Cross-verification of the event that closed an operation and the archive.*)
IntegrityValid(o) ==
  LET events == EventsOf(ledger, o) IN
  /\ \E first \in events :
       /\ ledger[first].state = "STARTED"
       /\ \A i \in events : first <= i /\ ledger[i].target = ledger[first].target
  /\ \A last \in events :
       (\A i \in events : i <= last) /\ ledger[last].state = "COMPLETED" =>
         /\ Cardinality(events) = 2
         /\ \E i \in Archived(o) : /\ archive[i].target = ledger[last].target
                                   /\ archive[i].receipts = ledger[last].receipts
         /\ OperationHead(o) = ledger[last].head

(* The operations whose receipts a read of the pack adds to it.             *)
CurrentOperations(id) ==
  {o \in Operation :
     /\ Completed(ledger, o)
     /\ \A i \in EventsOf(ledger, o) :
          ledger[i].id = id /\ ledger[i].target = Target(id)}

Reconstructs(id) ==
  PackReadable(id) /\ \A o \in CurrentOperations(id) : IntegrityValid(o)

-----------------------------------------------------------------------------
ProofInit ==
  /\ Init
  /\ day = 0 /\ born = [id \in Id |-> None]
  /\ clock = 0 /\ capture = [id \in Id |-> None]
  /\ ledger = <<>> /\ archive = <<>> /\ exports = <<>>
  /\ asked = {} /\ released = {}
  /\ task = [o \in Operation |-> None]
  /\ left \in Budget

Arrives == call' = call \/ \E c \in Client : call[c] = None /\ call'[c] # None

(* A request about the case itself; what it creates is dated.               *)
CaseRequest ==
  /\ Next
  /\ born' = [id \in Id |->
       IF born[id] = None /\ finding'[id] # None THEN day ELSE born[id]]
  /\ IF Arrives THEN Spend("requests") ELSE UNCHANGED left
  /\ UNCHANGED <<day, captureVars, proofVars, exportVars, task>>

NextDay ==
  /\ Spend("days") /\ day' = day + 1
  /\ UNCHANGED <<vars, born, captureVars, proofVars, exportVars, task>>

Proceed(o, to) ==
  /\ task' = [task EXCEPT ![o] = to]
  /\ UNCHANGED <<vars, day, born>>

(* The process that runs the call is killed.                                *)
Kill(o) ==
  /\ task[o] # None /\ Proceed(o, None)
  /\ UNCHANGED <<captureVars, proofVars, exportVars, left>>

-----------------------------------------------------------------------------
(* Recording facts.  Analysing or amending ends with a status, which opens  *)
(* the window; so does whatever asks for it later.                          *)

OpenWindow(id) ==
  /\ finding[id] # None /\ capture[id] = None /\ Spend("entries")
  /\ capture' = [capture EXCEPT ![id] =
       [facts |-> <<>>, late |-> <<>>, sheets |-> 0, stamped |-> {}]]
  /\ UNCHANGED <<vars, day, born, clock, proofVars, exportVars, task>>

(* An entry reads the clock before its transaction.                         *)
BeginEntry(o, id, what) ==
  /\ task[o] = None /\ capture[id] # None /\ Spend("entries")
  /\ Proceed(o, [pc |-> what, id |-> id, at |-> [day |-> day, at |-> clock]])
  /\ clock' = clock + 1
  /\ UNCHANGED <<capture, proofVars, exportVars>>

BeginFact(o, id) ==
  capture[id] # None /\ WindowOpen(id) /\ BeginEntry(o, id, "fact")

BeginSupplement(o, id) ==
  /\ capture[id] # None /\ ChainValid(capture[id].facts) /\ ~WindowOpen(id)
  /\ BeginEntry(o, id, "late")

FaultyRecordedAt(me) == [day |-> day, at |-> clock]

RecordedAt(me) == me.at

CommitFact(o) ==
  LET me == task[o] IN
  /\ me # None /\ me.pc = "fact" /\ ChainValid(capture[me.id].facts)
  /\ capture' = [capture EXCEPT ![me.id].facts = Append(@, RecordedAt(me))]
  /\ Proceed(o, None)
  /\ UNCHANGED <<clock, proofVars, exportVars, left>>

CommitSupplement(o) ==
  LET me == task[o] IN
  /\ me # None /\ me.pc = "late" /\ ChainValid(capture[me.id].late)
  /\ capture' = [capture EXCEPT ![me.id].late = Append(@, RecordedAt(me))]
  /\ Proceed(o, None)
  /\ UNCHANGED <<clock, proofVars, exportVars, left>>

(* A sheet is rendered and timestamped, then its download is recorded.      *)
StampSheet(o, id) ==
  /\ task[o] = None /\ capture[id] # None /\ ChainValid(capture[id].facts)
  /\ Spend("entries")
  /\ capture' = [capture EXCEPT ![id].stamped = @ \cup {SheetSubject}]
  /\ Proceed(o, [pc |-> "sheet", id |-> id])
  /\ UNCHANGED <<clock, proofVars, exportVars>>

RecordDownload(o) ==
  LET me == task[o] IN
  /\ me # None /\ me.pc = "sheet"
  /\ capture' = [capture EXCEPT ![me.id].sheets = @ + 1]
  /\ Proceed(o, None)
  /\ UNCHANGED <<clock, proofVars, exportVars, left>>

-----------------------------------------------------------------------------
(* External proof of a target the operator has reviewed.  A stale target is *)
(* refused before anything happens.                                         *)

Fresh(o) ==
  /\ task[o] = None /\ Spend("proofs")
  /\ EventsOf(ledger, o) = {} /\ EventsOf(exports, o) = {}

Event(me, o, state) ==
  [op |-> o, id |-> me.id, state |-> state, target |-> me.target,
   head |-> me.head, receipts |-> me.receipts]

BeginExternalize(o, id) ==
  /\ Fresh(o) /\ PackReadable(id)
  /\ Proceed(o, [pc |-> "confirmed", id |-> id, target |-> Target(id),
                 head |-> 0, receipts |-> None])
  /\ UNCHANGED <<captureVars, proofVars, exportVars>>

StartOperation(o) ==
  LET me == task[o] IN
  /\ me # None /\ me.pc = "confirmed"
  /\ ledger' = Append(ledger, Event(me, o, "STARTED"))
  /\ Proceed(o, [me EXCEPT !.pc = "started"])
  /\ UNCHANGED <<captureVars, archive, asked, exportVars, left>>

FaultyMayAsk(me) == me.pc \in {"confirmed", "started"}

MayAsk(me) == me.pc = "started"

(* The target is rebuilt, then the providers are asked, one after another.  *)
AskProviders(o) ==
  LET me == task[o] IN
  /\ me # None /\ MayAsk(me)
  /\ PackReadable(me.id) /\ Target(me.id) = me.target
  /\ asked' = asked \cup {[op |-> o, target |-> me.target]}
  /\ \E receipts \in Receipts :
       Proceed(o, [me EXCEPT !.pc = "asked", !.receipts = receipts])
  /\ UNCHANGED <<captureVars, ledger, archive, exportVars, left>>

(* The pack is rebuilt with the receipts; it must have kept its target.     *)
Rebuild(o) ==
  LET me == task[o] IN
  /\ me # None /\ me.pc = "asked"
  /\ PackReadable(me.id) /\ Target(me.id) = me.target
  /\ Proceed(o, [me EXCEPT !.pc = "proven"])
  /\ UNCHANGED <<captureVars, proofVars, exportVars, left>>

ArchiveOperation(o) ==
  LET me == task[o] IN
  /\ me # None /\ me.pc = "proven" /\ Archived(o) = {}
  /\ archive' = Append(archive, [op |-> o, target |-> me.target, receipts |-> me.receipts])
  /\ Proceed(o, [me EXCEPT !.pc = "archived", !.head = Len(archive) + 1])
  /\ UNCHANGED <<captureVars, ledger, asked, exportVars, left>>

(* An operation is closed once, by the event that matches its start.        *)
Closes(log, me, o) ==
  \E i \in DOMAIN log :
    /\ EventsOf(log, o) = {i} /\ log[i].state = "STARTED"
    /\ log[i].id = me.id /\ log[i].target = me.target

CompleteOperation(o) ==
  LET me == task[o] IN
  /\ me # None /\ me.pc = "archived" /\ Closes(ledger, me, o)
  /\ ledger' = Append(ledger, Event(me, o, "COMPLETED"))
  /\ Proceed(o, None)
  /\ UNCHANGED <<captureVars, archive, asked, exportVars, left>>

(* A pack or a target that has changed, a provider or the file that fails.  *)
FailOperation(o) ==
  LET me == task[o] IN
  /\ me # None /\ me.pc \in {"started", "asked", "proven", "archived"}
  /\ Closes(ledger, me, o)
  /\ ledger' = Append(ledger, Event(me, o, "FAILED"))
  /\ Proceed(o, None)
  /\ UNCHANGED <<captureVars, archive, asked, exportVars, left>>

-----------------------------------------------------------------------------
(* The confidential export of the originals under the pack.                 *)

BeginExport(o, id) ==
  /\ Fresh(o) /\ Reconstructs(id)
  /\ Proceed(o, [pc |-> "export", id |-> id, target |-> Target(id),
                 head |-> 0, receipts |-> None])
  /\ UNCHANGED <<captureVars, proofVars, exportVars>>

StartExport(o) ==
  LET me == task[o] IN
  /\ me # None /\ me.pc = "export"
  /\ exports' = Append(exports, Event(me, o, "STARTED"))
  /\ Proceed(o, [me EXCEPT !.pc = "reading"])
  /\ UNCHANGED <<captureVars, proofVars, released, left>>

Originals(target) ==
  {target.finding.claim.basis[r] : r \in Role}
    \cup {outcome[o].proof : o \in target.outcomes}

(* Every original is read back and the bundle verified in memory.           *)
Bundled(target) ==
  target.finding.claim.basis # Inline /\ Originals(target) \subseteq vault

CompleteExport(o) ==
  LET me == task[o] IN
  /\ me # None /\ me.pc = "reading" /\ Bundled(me.target)
  /\ Closes(exports, me, o)
  /\ exports' = Append(exports, Event(me, o, "COMPLETED"))
  /\ Proceed(o, [me EXCEPT !.pc = "bundled"])
  /\ UNCHANGED <<captureVars, proofVars, released, left>>

(* The response that carries the bundle.                                    *)
Release(o) ==
  LET me == task[o] IN
  /\ me # None /\ me.pc = "bundled" /\ Proceed(o, None)
  /\ released' = released \cup {[op |-> o, target |-> me.target]}
  /\ UNCHANGED <<captureVars, proofVars, exports, left>>

FailExport(o) ==
  LET me == task[o] IN
  /\ me # None /\ me.pc = "reading" /\ Closes(exports, me, o)
  /\ exports' = Append(exports, Event(me, o, "FAILED"))
  /\ Proceed(o, None)
  /\ UNCHANGED <<captureVars, proofVars, released, left>>

-----------------------------------------------------------------------------
Externalizing(o) ==
  \/ \E id \in Id : BeginExternalize(o, id)
  \/ StartOperation(o) \/ AskProviders(o) \/ Rebuild(o) \/ ArchiveOperation(o)
  \/ CompleteOperation(o) \/ FailOperation(o)

Exporting(o) ==
  \/ \E id \in Id : BeginExport(o, id)
  \/ StartExport(o) \/ CompleteExport(o) \/ Release(o) \/ FailExport(o)

Capturing(o) ==
  \/ \E id \in Id : BeginFact(o, id) \/ BeginSupplement(o, id) \/ StampSheet(o, id)
  \/ CommitFact(o) \/ CommitSupplement(o) \/ RecordDownload(o)

ProofNext ==
  \/ CaseRequest \/ NextDay
  \/ \E id \in Id : OpenWindow(id)
  \/ \E o \in Operation : Capturing(o) \/ Externalizing(o) \/ Exporting(o) \/ Kill(o)

ProofSpec == ProofInit /\ [][ProofNext]_allvars

-----------------------------------------------------------------------------
ProofTypeOK ==
  /\ TypeOK
  /\ born \in [Id -> Nat \cup {None}] /\ day \in Nat
  /\ \A id \in Id : (born[id] = None) <=> (finding[id] = None)
  /\ capture \in [Id -> Capture \cup {None}]
  /\ \A i \in DOMAIN archive : archive[i].receipts \in Receipts

(* "STARTED is written before any external provider is invoked"             *)
(* (proof_externalization_audit.py:61), and nothing leaves the program or   *)
(* is archived but under the intent and for the target an operator          *)
(* confirmed: receipts and completed operations rest on what was asked, and *)
(* a bundle that was handed out on a completed export of stored originals.  *)
EffectsUnderIntent ==
  /\ \A a \in asked : \E i \in DOMAIN ledger :
       ledger[i].op = a.op /\ ledger[i].state = "STARTED" /\ ledger[i].target = a.target
  /\ \A i \in DOMAIN archive : [op |-> archive[i].op, target |-> archive[i].target] \in asked
  /\ \A o \in Operation : Completed(ledger, o) => Archived(o) # {}
  /\ \A r \in released :
       Completed(exports, r.op) /\ Originals(r.target) \subseteq vault

(* "Later operations over the same target may advance the subject chain     *)
(* without invalidating the historical operation head"                      *)
(* (proof_externalization_integrity.py:62): whatever was asked, archived or *)
(* left half done since, in whichever order the calls overlapped, a         *)
(* completed operation verifies, so that no read of its pack is refused.    *)
CompletedVerify ==
  \A o \in Operation : Completed(ledger, o) => IntegrityValid(o)

(* The sheet is contemporaneous (change_capture.py:64): however entries     *)
(* overlap the end of the window, what stands as a fact was recorded in it  *)
(* and what stands as late after it.                                        *)
Contemporaneous ==
  \A id \in Id : capture[id] # None =>
    /\ \A i \in DOMAIN capture[id].facts :
         capture[id].facts[i].day <= born[id] + WindowDays
    /\ \A i \in DOMAIN capture[id].late :
         capture[id].late[i].day > born[id] + WindowDays

(* Fail-closed bindings shut nobody out of a case the program itself wrote: *)
(* but for its chronology, the pack of a current finding can be built, how- *)
(* ever captures, amendments and outcomes overlapped (durable_proof.py:350).*)
PacksBound == \A id \in Id : RequireCurrent(id) => PackBound(id)

(* "Proof packages must reconstruct from tenant-scoped persisted current    *)
(* case truth" (PROOF_ARCHITECTURE.md:65).                                  *)
PacksReconstruct == \A id \in Id : RequireCurrent(id) => PackReadable(id)
=============================================================================
