-------------------------- MODULE IndustrialClaims --------------------------
(***************************************************************************)
(* Assisted claims (vertical_apps/industrial_claims): cases with their     *)
(* revisions, review, action and outcome, and the immutable originals they *)
(* rest on.  The requests of several clients run in the threads of two     *)
(* web workers over one SQLite file.                                       *)
(*                                                                         *)
(* A case is a recovery fingerprint.  Its findings are numbered by         *)
(* revision: an amendment computes the next number from the revision it    *)
(* read, and supersede() refuses unless that one is still current.  One    *)
(* row stands for what is written together about a finding: its row, its   *)
(* revision, metadata, calculation, entitlement and creation audit.        *)
(*                                                                         *)
(* An operation on a finding reads and checks it first (Begin...), in      *)
(* connections of its own, and writes in one transaction later (Commit...),*)
(* which looks again only at what its guard here names.                    *)
(***************************************************************************)
EXTENDS Integers, FiniteSets

CONSTANTS
  Client, Actor, Case,
  Role,            \* the roles of evidence a case needs
  Evidence,        \* ids of case originals
  Proof,           \* ids of outcome originals
  Authorization,   \* intake authorization scopes
  Outcome,         \* outcome ids
  Net, Amount,     \* net potentials, recovered amounts
  None, Inline,    \* Inline: content uploaded with the request itself
  MaxRevision      \* bound: revisions of a case

VARIABLES
  finding,    \* the findings of every case, by revision number
  envelope,   \* causledger_secure_capture_envelopes
  proof,      \* causledger_secure_outcome_envelopes
  outcome,    \* recovery_outcomes
  vault,      \* originals the WORM provider holds
  call        \* what the request of a client is about to do

vars == <<finding, envelope, proof, outcome, vault, call>>

Id == Case \X (1 .. MaxRevision)

Amendable == {"UNRESOLVED_EVIDENCE", "READY_FOR_REVIEW", "APPROVED", "REJECTED"}

Closed == {"RECOVERED", "CLOSED_NO_RECOVERY"}

State == Amendable \cup {"ACTIONED"} \cup Closed

(* What a case is about: the amount, whether every document is there, and   *)
(* the originals it rests on.                                               *)
Claim ==
  [net : Net, complete : BOOLEAN, basis : {Inline} \cup [Role -> Evidence]]

Finding ==
  [claim : Claim, creator : Actor, state : State,
   reviewer : Actor \cup {None}, current : BOOLEAN]

Envelope == [role : Role, authorization : Authorization]

Recovery == [finding : Id, amount : Amount, proof : Proof \cup {Inline}]

(* An authorization to capture a proof names the finding it is for.         *)
OutcomeAuthorization == Id

Call ==
  [op : {"review"}, id : Id, by : Actor, approve : BOOLEAN]
    \cup [op : {"action"}, id : Id]
    \cup [op : {"resolve"}, outcome : Outcome, as : Recovery]
    \cup [op : {"amend"}, id : Id, claim : Claim, by : Actor]
    \cup [op : {"capture"}, stored : BOOLEAN, evidence : Evidence, as : Envelope]
    \cup [op : {"prove"}, stored : BOOLEAN, evidence : Proof, id : OutcomeAuthorization]

ASSUME IndustrialClaimsAssumption ==
  /\ Net \subseteq Nat /\ Amount \subseteq Nat
  /\ MaxRevision \in Nat \ {0}
  /\ None \notin Actor \cup Id \cup Finding \cup Envelope \cup Recovery \cup Call
  /\ Inline \notin Proof /\ Inline \notin [Role -> Evidence]

-----------------------------------------------------------------------------
(* Reading a finding.                                                       *)

Revisions(case) == {id \in Id : id[1] = case /\ finding[id] # None}

CurrentOf(case) == {id \in Revisions(case) : finding[id].current}

Following(id) == <<id[1], id[2] + 1>>

(* The predecessors of a revision are there, and none is current.           *)
Lineage(id) ==
  \A n \in 1 .. id[2] - 1 :
    finding[<<id[1], n>>] # None /\ ~finding[<<id[1], n>>].current

RequireCurrent(id) ==
  finding[id] # None /\ Lineage(id) /\ finding[id].current

(* The read model opens a dossier only if its chain of revisions is whole.  *)
Dossier(id) ==
  LET followed == Following(id) \in Revisions(id[1]) IN
  /\ finding[id] # None /\ Lineage(id)
  /\ \E last \in Id : CurrentOf(id[1]) = {last} /\ last[2] >= id[2] /\ Lineage(last)
  /\ finding[id].current <=> ~followed

DossierIntegrity(id) == RequireCurrent(id) /\ Dossier(id)

(* The originals of a case were captured under one authorization, each for  *)
(* its role.                                                                *)
CaseEvidence(basis) ==
  \E a \in Authorization : \A r \in Role :
    envelope[basis[r]] = [role |-> r, authorization |-> a]

Accepted(claim) == claim.basis # Inline => CaseEvidence(claim.basis)

ReadyState(claim) ==
  IF claim.complete /\ claim.net > 0 THEN "READY_FOR_REVIEW"
  ELSE "UNRESOLVED_EVIDENCE"

FaultyNewFinding(claim, actor) ==
  [claim |-> claim, creator |-> actor, state |-> ReadyState(claim), current |-> TRUE]

NewFinding(claim, actor) ==
  [claim |-> claim, creator |-> actor, state |-> ReadyState(claim),
   reviewer |-> None, current |-> TRUE]

-----------------------------------------------------------------------------
Init ==
  /\ finding = [id \in Id |-> None]
  /\ envelope = [e \in Evidence |-> None]
  /\ proof = [p \in Proof |-> None]
  /\ outcome = [o \in Outcome |-> None]
  /\ vault = {}
  /\ call = [c \in Client |-> None]

(* A new fingerprint; for a known one everything in the transaction is      *)
(* already there, or collides and is rolled back.                           *)
CreateCase(case, claim, actor) ==
  /\ Revisions(case) = {} /\ Accepted(claim)
  /\ finding' = [finding EXCEPT ![<<case, 1>>] = NewFinding(claim, actor)]
  /\ UNCHANGED <<envelope, proof, outcome, vault, call>>

Begin(c, op) ==
  /\ call' = [call EXCEPT ![c] = op]
  /\ UNCHANGED <<finding, envelope, proof, outcome, vault>>

Writes(c) ==
  /\ call' = [call EXCEPT ![c] = None]
  /\ UNCHANGED <<envelope, proof, vault>>

(* A check or a transaction that raises, or a request that is killed.       *)
Abort(c) ==
  /\ call[c] # None
  /\ call' = [call EXCEPT ![c] = None]
  /\ UNCHANGED <<finding, envelope, proof, outcome, vault>>

-----------------------------------------------------------------------------
BeginReview(c, id, reviewer, approve) ==
  /\ DossierIntegrity(id)
  /\ finding[id].creator # reviewer
  /\ Begin(c, [op |-> "review", id |-> id, by |-> reviewer, approve |-> approve])

CommitReview(c) ==
  LET me == call[c] IN
  /\ me # None /\ me.op = "review"
  /\ finding[me.id].state = "READY_FOR_REVIEW"
  /\ finding' = [finding EXCEPT
       ![me.id].state = IF me.approve THEN "APPROVED" ELSE "REJECTED",
       ![me.id].reviewer = me.by]
  /\ UNCHANGED outcome /\ Writes(c)

BeginAction(c, id) ==
  /\ DossierIntegrity(id)
  /\ Begin(c, [op |-> "action", id |-> id])

CommitAction(c) ==
  LET me == call[c] IN
  /\ me # None /\ me.op = "action"
  /\ finding[me.id].state = "APPROVED"
  /\ finding' = [finding EXCEPT ![me.id].state = "ACTIONED"]
  /\ UNCHANGED outcome /\ Writes(c)

WithinReviewed(as) == as.amount <= finding[as.finding].claim.net

FaultyProvenBy(as) == TRUE

(* A captured proof was captured for this very finding.                     *)
ProvenBy(as) == as.proof # Inline => proof[as.proof] = as.finding

BeginResolve(c, o, as) ==
  /\ DossierIntegrity(as.finding) /\ WithinReviewed(as) /\ ProvenBy(as)
  /\ Begin(c, [op |-> "resolve", outcome |-> o, as |-> as])

FaultyResolvable(id) == finding[id].state \in {"APPROVED", "ACTIONED"} \cup Closed

Resolvable(id) == finding[id].state = "ACTIONED"

CommitResolve(c) ==
  LET me == call[c] IN
  /\ me # None /\ me.op = "resolve"
  /\ outcome[me.outcome] = None
  /\ Resolvable(me.as.finding)
  /\ outcome' = [outcome EXCEPT ![me.outcome] = me.as]
  /\ finding' = [finding EXCEPT ![me.as.finding].state =
       IF me.as.amount > 0 THEN "RECOVERED" ELSE "CLOSED_NO_RECOVERY"]
  /\ Writes(c)

MayAmend(id) == DossierIntegrity(id) /\ id[2] < MaxRevision

BeginAmend(c, id, claim, actor) ==
  /\ MayAmend(id) /\ Accepted(claim)
  /\ Begin(c, [op |-> "amend", id |-> id, claim |-> claim, by |-> actor])

(* Rows under the ids of the new revision must be the same to the letter;   *)
(* the finding's own row is then written over.                              *)
SameRows(id, claim, actor) ==
  finding[id] # None => finding[id].claim = claim /\ finding[id].creator = actor

FaultySupersedes(id) == finding[id] # None

Supersedes(id) == finding[id].current /\ finding[Following(id)] = None

FaultySuperseded(rows, id) == rows

Superseded(rows, id) == [rows EXCEPT ![id].current = FALSE]

Amended(id, claim, actor) ==
  Superseded([finding EXCEPT ![Following(id)] = NewFinding(claim, actor)], id)

CommitAmend(c) ==
  LET me == call[c] IN
  /\ me # None /\ me.op = "amend"
  /\ finding[me.id].state \in Amendable
  /\ SameRows(Following(me.id), me.claim, me.by)
  /\ Supersedes(me.id)
  /\ finding' = Amended(me.id, me.claim, me.by)
  /\ UNCHANGED outcome /\ Writes(c)

-----------------------------------------------------------------------------
(* Capturing originals: the bytes are stored and read back before the       *)
(* envelope is registered.                                                  *)

BeginCapture(c, e, as) ==
  /\ envelope[e] = None
  /\ Begin(c, [op |-> "capture", stored |-> FALSE, evidence |-> e, as |-> as])

BeginProve(c, p, id) ==
  /\ RequireCurrent(id) /\ finding[id].state = "ACTIONED"
  /\ proof[p] = None
  /\ Begin(c, [op |-> "prove", stored |-> FALSE, evidence |-> p, id |-> id])

PutOriginal(c) ==
  LET me == call[c] IN
  /\ me # None /\ me.op \in {"capture", "prove"} /\ ~me.stored
  /\ vault' = vault \cup {me.evidence}
  /\ call' = [call EXCEPT ![c].stored = TRUE]
  /\ UNCHANGED <<finding, envelope, proof, outcome>>

FaultyMayRecord(me) == TRUE

MayRecord(me) == me.stored

(* A second envelope of the same id differs in received_at: it is refused.  *)
RecordCapture(c) ==
  LET me == call[c] IN
  /\ me # None /\ me.op = "capture" /\ MayRecord(me)
  /\ envelope[me.evidence] = None
  /\ envelope' = [envelope EXCEPT ![me.evidence] = me.as]
  /\ call' = [call EXCEPT ![c] = None]
  /\ UNCHANGED <<finding, proof, outcome, vault>>

RecordProof(c) ==
  LET me == call[c] IN
  /\ me # None /\ me.op = "prove" /\ MayRecord(me)
  /\ proof[me.evidence] = None
  /\ proof' = [proof EXCEPT ![me.evidence] = me.id]
  /\ call' = [call EXCEPT ![c] = None]
  /\ UNCHANGED <<finding, envelope, outcome, vault>>

-----------------------------------------------------------------------------
(* A request arrives.                                                       *)
Start(c) ==
  /\ call[c] = None
  /\ \/ \E id \in Id, reviewer \in Actor, approve \in BOOLEAN :
          BeginReview(c, id, reviewer, approve)
     \/ \E id \in Id : BeginAction(c, id)
     \/ \E o \in Outcome, as \in Recovery : BeginResolve(c, o, as)
     \/ \E id \in Id, claim \in Claim, actor \in Actor :
          BeginAmend(c, id, claim, actor)
     \/ \E e \in Evidence, as \in Envelope : BeginCapture(c, e, as)
     \/ \E p \in Proof, id \in Id : BeginProve(c, p, id)

Next ==
  \/ \E case \in Case, claim \in Claim, actor \in Actor :
       CreateCase(case, claim, actor)
  \/ \E c \in Client :
       \/ Start(c)
       \/ CommitReview(c) \/ CommitAction(c) \/ CommitResolve(c) \/ CommitAmend(c)
       \/ PutOriginal(c) \/ RecordCapture(c) \/ RecordProof(c)
       \/ Abort(c)

Spec == Init /\ [][Next]_vars

-----------------------------------------------------------------------------
TypeOK ==
  /\ finding \in [Id -> Finding \cup {None}]
  /\ envelope \in [Evidence -> Envelope \cup {None}]
  /\ proof \in [Proof -> Id \cup {None}]
  /\ outcome \in [Outcome -> Recovery \cup {None}]
  /\ vault \subseteq Evidence \cup Proof
  /\ call \in [Client -> Call \cup {None}]

(* However requests overlap, every dossier opens: the integrity checks      *)
(* (read_model.py:194-229, revision_store.py:129-157) never lock users out  *)
(* of a case the program itself wrote, and exactly one revision is current. *)
DossiersOpen == \A id \in Id : finding[id] # None => Dossier(id)

(* A decision stands: no later request, and no second amendment prepared    *)
(* from the same revision (_put_finding writes over a row,                  *)
(* assurance_store.py:144-151), returns a finding to an earlier state or    *)
(* changes its reviewer.                                                    *)
Rank ==
  [s \in State |->
     CASE s \in {"UNRESOLVED_EVIDENCE", "READY_FOR_REVIEW"} -> 0
       [] s \in {"APPROVED", "REJECTED"} -> 1
       [] s = "ACTIONED" -> 2 [] OTHER -> 3]

DecisionStands(id) ==
  finding[id] # None =>
    /\ finding'[id] # None
    /\ \/ finding'[id].state = finding[id].state
       \/ Rank[finding'[id].state] = Rank[finding[id].state] + 1
    /\ finding[id].reviewer # None => finding'[id].reviewer = finding[id].reviewer

DecisionsStand == [][\A id \in Id : DecisionStands(id)]_vars

(* Money is booked once for a finding, within the amount an independent     *)
(* reviewer approved (service.py:507-508, 545-546): checks made before the  *)
(* transaction still hold in it.                                            *)
RecoveredAsReviewed ==
  /\ \A o \in Outcome : outcome[o] # None =>
       LET f == finding[outcome[o].finding] IN
       /\ f # None /\ f.state \in Closed
       /\ outcome[o].amount <= f.claim.net
       /\ f.reviewer \in Actor \ {f.creator}
  /\ \A o, q \in Outcome :
       outcome[o] # None /\ outcome[q] # None
         /\ outcome[o].finding = outcome[q].finding => o = q

(* What a case or an outcome rests on is in immutable storage, whichever    *)
(* request stopped half way (secure_capture.py:110-137).                    *)
Custody ==
  /\ \A e \in Evidence : envelope[e] # None => e \in vault
  /\ \A p \in Proof : proof[p] # None => p \in vault
  /\ \A id \in Id :
       finding[id] # None /\ finding[id].claim.basis # Inline =>
         \A r \in Role : finding[id].claim.basis[r] \in vault
  /\ \A o \in Outcome :
       outcome[o] # None /\ outcome[o].proof # Inline =>
         outcome[o].proof \in vault /\ proof[outcome[o].proof] = outcome[o].finding

(* "Historical findings remain immutable but cannot be advanced once        *)
(* superseded" (revision_store.py:32): a superseded finding is never found  *)
(* actioned or closed.                                                      *)
SupersededNotAdvanced ==
  \A id \in Id :
    finding[id] # None /\ ~finding[id].current => finding[id].state \in Amendable
=============================================================================
