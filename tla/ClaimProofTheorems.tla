-------------------------- MODULE ClaimProofTheorems --------------------------
(***************************************************************************)
(* Proofs about IndustrialClaims for any number of clients, cases,         *)
(* originals and revisions (types, DossiersOpen, Custody,                  *)
(* RecoveredAsReviewed, DecisionsStand), and about ClaimProofs for any     *)
(* number of operations and days: it is an IndustrialClaims with more      *)
(* going on beside it, so what is proved of the cases holds there too,     *)
(* and on top of it types, PacksBound, Contemporaneous,                    *)
(* EffectsUnderIntent and CompletedVerify.                                 *)
(*                                                                         *)
(* A request checks in one transaction and writes in another.  What makes  *)
(* that safe is that most of what it checked can only grow: the claim and  *)
(* the creator of a finding, envelopes and originals stay as they are once *)
(* they are there (Grows).  What can change in between, the state of a     *)
(* finding and which revision is current, is looked at again by the write. *)
(*                                                                         *)
(* A call on a proof goes through several transactions.  What it has       *)
(* achieved (Ready) stays achieved whatever others do, because all the     *)
(* tables it rests on only grow (Lasts).                                   *)
(***************************************************************************)
EXTENDS ClaimProofs, FiniteSetTheorems, TLAPS

-----------------------------------------------------------------------------
(* The cases.                                                               *)

(* The revisions of a case are numbered without gaps; the last is current.  *)
Chain(case) ==
  \E n \in 0 .. MaxRevision : \A k \in 1 .. MaxRevision :
    /\ finding[<<case, k>>] # None <=> k <= n
    /\ k <= n => (finding[<<case, k>>].current <=> k = n)

(* What a claim rests on was captured for it.                               *)
Captured(basis) == basis # Inline => CaseEvidence(basis)

Evidenced == \A id \in Id : finding[id] # None => Captured(finding[id].claim.basis)

(* What a finding has gone through shows in its state.                      *)
Reviewed ==
  \A id \in Id : finding[id] # None =>
    IF finding[id].state \in {"UNRESOLVED_EVIDENCE", "READY_FOR_REVIEW"}
    THEN finding[id].reviewer = None
    ELSE finding[id].reviewer \in Actor \ {finding[id].creator}

(* What a request has checked still holds when it writes.                   *)
Checked(k) ==
  /\ k.op = "review" => finding[k.id] # None /\ finding[k.id].creator # k.by
  /\ k.op = "action" => finding[k.id] # None
  /\ k.op = "resolve" =>
       finding[k.as.finding] # None /\ WithinReviewed(k.as) /\ ProvenBy(k.as)
  /\ k.op = "amend" =>
       finding[k.id] # None /\ k.id[2] < MaxRevision /\ Captured(k.claim.basis)
  /\ k.op \in {"capture", "prove"} => (k.stored => k.evidence \in vault)

IInv ==
  /\ TypeOK
  /\ \A case \in Case : Chain(case)
  /\ Reviewed /\ Evidenced /\ Custody /\ RecoveredAsReviewed
  /\ \A c \in Client : call[c] # None => Checked(call[c])

(* What no step takes back.                                                 *)
Grows ==
  /\ \A id \in Id : finding[id] # None =>
       /\ finding'[id] # None
       /\ finding'[id].claim = finding[id].claim
       /\ finding'[id].creator = finding[id].creator
  /\ \A e \in Evidence : envelope[e] # None => envelope'[e] = envelope[e]
  /\ \A p \in Proof : proof[p] # None => proof'[p] = proof[p]
  /\ vault \subseteq vault'

-----------------------------------------------------------------------------
(* Fields of a record of each kind.                                         *)

LEMMA CallFields ==
  ASSUME NEW k \in Call
  PROVE  /\ k.op \in {"review", "action", "resolve", "amend", "capture", "prove"}
         /\ k.op = "review" => k.id \in Id /\ k.by \in Actor /\ k.approve \in BOOLEAN
         /\ k.op = "action" => k.id \in Id
         /\ k.op = "resolve" => k.outcome \in Outcome /\ k.as \in Recovery
         /\ k.op = "amend" => k.id \in Id /\ k.claim \in Claim /\ k.by \in Actor
         /\ k.op = "capture" => k.stored \in BOOLEAN /\ k.evidence \in Evidence
                                  /\ k.as \in Envelope
         /\ k.op = "prove" => k.stored \in BOOLEAN /\ k.evidence \in Proof /\ k.id \in Id
BY DEF Call, OutcomeAuthorization

LEMMA Pairs ==
  ASSUME NEW id \in Id
  PROVE  id[1] \in Case /\ id[2] \in 1 .. MaxRevision /\ id = <<id[1], id[2]>>
BY DEF Id

LEMMA RecordFields ==
  /\ \A f \in Finding :
       /\ f.claim \in Claim /\ f.creator \in Actor /\ f.state \in State
       /\ f.reviewer \in Actor \cup {None} /\ f.current \in BOOLEAN
  /\ \A as \in Recovery :
       as.finding \in Id /\ as.amount \in Amount /\ as.proof \in Proof \cup {Inline}
  /\ \A claim \in Claim : claim.net \in Net /\ claim.basis \in {Inline} \cup [Role -> Evidence]
BY DEF Finding, Recovery, Claim

(* A case that can be relied on opens.                                      *)
LEMMA ChainOpens ==
  ASSUME IndustrialClaimsAssumption, NEW id \in Id, Chain(id[1]), finding[id] # None,
         finding \in [Id -> Finding \cup {None}]
  PROVE  Dossier(id)
<1> DEFINE case == id[1]
<1>1. PICK n \in 0 .. MaxRevision : \A k \in 1 .. MaxRevision :
        /\ finding[<<case, k>>] # None <=> k <= n
        /\ k <= n => (finding[<<case, k>>].current <=> k = n)
  BY DEF Chain
<1>2. /\ case \in Case /\ id[2] \in 1 .. MaxRevision /\ id = <<case, id[2]>>
      /\ MaxRevision \in Nat /\ id[2] <= n
  BY <1>1, Pairs DEF IndustrialClaimsAssumption
<1> DEFINE last == <<case, n>>
<1>3. last \in Id /\ last[1] = case /\ last[2] = n /\ n \in 1 .. MaxRevision
  BY <1>2 DEF Id
<1>4. finding[last] # None /\ finding[last].current
  BY <1>1, <1>3
<1>5. Lineage(id) /\ Lineage(last)
  <2>1. \A k \in 1 .. n - 1 : finding[<<case, k>>] # None /\ ~finding[<<case, k>>].current
    BY <1>1, <1>2
  <2> QED  BY <1>2, <1>3, <2>1 DEF Lineage
<1>6. CurrentOf(case) = {last}
  <2>1. ASSUME NEW i \in Id, i[1] = case, finding[i] # None, finding[i].current
        PROVE  i = last
    <3>1. i = <<case, i[2]>> /\ i[2] \in 1 .. MaxRevision
      BY <2>1, Pairs
    <3>2. i[2] = n
      BY <1>1, <2>1, <3>1
    <3> QED  BY <3>1, <3>2
  <2> QED  BY <1>3, <1>4, <2>1 DEF CurrentOf, Revisions
<1>7. finding[id].current <=> ~(Following(id) \in Revisions(case))
  <2>1. Following(id) = <<case, id[2] + 1>>
    BY DEF Following
  <2>2. CASE id[2] = n
    <3>1. Following(id) \notin Revisions(case)
      <4> SUFFICES ASSUME Following(id) \in Revisions(case) PROVE FALSE
        OBVIOUS
      <4>1. Following(id) \in Id /\ finding[Following(id)] # None
        BY DEF Revisions
      <4>2. n + 1 \in 1 .. MaxRevision
        BY <2>1, <2>2, <4>1 DEF Id
      <4> QED  BY <1>1, <1>2, <2>1, <2>2, <4>1, <4>2
    <3> QED  BY <1>1, <1>2, <2>2, <3>1
  <2>3. CASE id[2] # n
    <3>1. id[2] + 1 \in 1 .. MaxRevision /\ id[2] + 1 <= n
      BY <1>2, <2>3
    <3>2. Following(id) \in Id /\ Following(id)[1] = case /\ finding[Following(id)] # None
      BY <1>1, <1>2, <2>1, <3>1 DEF Id
    <3>3. ~finding[id].current
      BY <1>1, <1>2, <2>3
    <3> QED  BY <3>2, <3>3 DEF Revisions
  <2> QED  BY <2>2, <2>3
<1>8. id[2] <= last[2]
  BY <1>2, <1>3
<1> QED  BY <1>2, <1>3, <1>5, <1>6, <1>7, <1>8 DEF Dossier

-----------------------------------------------------------------------------
(* Captured originals are in the vault, and stay captured.                  *)
LEMMA CapturedOriginals ==
  ASSUME IndustrialClaimsAssumption, NEW basis \in {Inline} \cup [Role -> Evidence],
         Captured(basis), basis # Inline
  PROVE  \E a \in Authorization : \A r \in Role :
           /\ basis[r] \in Evidence /\ envelope[basis[r]] # None
           /\ envelope[basis[r]] = [role |-> r, authorization |-> a]
<1>1. basis \in [Role -> Evidence]
  OBVIOUS
<1>2. PICK a \in Authorization : \A r \in Role :
        envelope[basis[r]] = [role |-> r, authorization |-> a]
  BY DEF Captured, CaseEvidence
<1>3. \A r \in Role : [role |-> r, authorization |-> a] # None
  <2>1. \A r \in Role : [role |-> r, authorization |-> a] \in Envelope
    BY DEF Envelope
  <2> QED  BY <2>1 DEF IndustrialClaimsAssumption
<1> QED  BY <1>1, <1>2, <1>3

LEMMA CapturedStays ==
  ASSUME IndustrialClaimsAssumption, Grows,
         NEW basis \in {Inline} \cup [Role -> Evidence], Captured(basis)
  PROVE  Captured(basis)'
<1> SUFFICES ASSUME basis # Inline PROVE CaseEvidence(basis)'
  BY DEF Captured
<1>1. PICK a \in Authorization : \A r \in Role :
        /\ basis[r] \in Evidence /\ envelope[basis[r]] # None
        /\ envelope[basis[r]] = [role |-> r, authorization |-> a]
  BY CapturedOriginals
<1>2. \A r \in Role : envelope'[basis[r]] = [role |-> r, authorization |-> a]
  BY <1>1 DEF Grows
<1> QED  BY <1>2 DEF CaseEvidence

(* What was checked in one transaction holds in a later one.                *)
LEMMA CheckedStays ==
  ASSUME IndustrialClaimsAssumption, TypeOK, Grows, NEW k \in Call, Checked(k)
  PROVE  Checked(k)'
<1>1. k.op = "resolve" => Checked(k)'
  <2> SUFFICES ASSUME k.op = "resolve" PROVE Checked(k)'
    OBVIOUS
  <2>1. k.as \in Recovery /\ k.as.finding \in Id /\ k.as.proof \in Proof \cup {Inline}
    BY CallFields, RecordFields
  <2>2. WithinReviewed(k.as)'
    BY <2>1 DEF Checked, Grows, WithinReviewed
  <2>3. ProvenBy(k.as)'
    BY <2>1 DEF Checked, Grows, ProvenBy, IndustrialClaimsAssumption
  <2> QED  BY <2>1, <2>2, <2>3 DEF Checked, Grows
<1>2. k.op = "amend" => Checked(k)'
  BY CallFields, RecordFields, CapturedStays DEF Checked, Grows
<1>3. k.op \in {"review", "action", "capture", "prove"} => Checked(k)'
  BY CallFields DEF Checked, Grows
<1> QED  BY <1>1, <1>2, <1>3, CallFields

Calls ==
  /\ call \in [Client -> Call \cup {None}]
  /\ \A c \in Client : call[c] # None => Checked(call[c])

(* One request moves on or ends, or none does.                              *)
LEMMA CallsStay ==
  ASSUME IndustrialClaimsAssumption, IInv, Grows,
         \/ UNCHANGED call
         \/ \E c \in Client, k \in Call \cup {None} :
              (k # None => Checked(k)') /\ call' = [call EXCEPT ![c] = k]
  PROVE  Calls'
<1>1. \A k \in Call : Checked(k) => Checked(k)'
  BY CheckedStays DEF IInv
<1>2. Calls
  BY DEF IInv, TypeOK, Calls
<1>3. CASE UNCHANGED call
  BY <1>1, <1>2, <1>3 DEF Calls
<1>4. ASSUME NEW c \in Client, NEW k \in Call \cup {None}, k # None => Checked(k)',
             call' = [call EXCEPT ![c] = k]
      PROVE  Calls'
  BY <1>1, <1>2, <1>4 DEF Calls
<1> QED  BY <1>3, <1>4

(* The invariant of the tables alone, and what a step does to decisions.    *)
Tables ==
  /\ finding \in [Id -> Finding \cup {None}]
  /\ envelope \in [Evidence -> Envelope \cup {None}]
  /\ proof \in [Proof -> Id \cup {None}]
  /\ outcome \in [Outcome -> Recovery \cup {None}]
  /\ vault \subseteq Evidence \cup Proof
  /\ \A case \in Case : Chain(case)
  /\ Reviewed /\ Evidenced /\ Custody /\ RecoveredAsReviewed

Stand == \A id \in Id : DecisionStands(id)

-----------------------------------------------------------------------------
(* Steps that leave findings and outcomes alone.                            *)

LEMMA EvidenceSteps ==
  ASSUME IndustrialClaimsAssumption, IInv, Grows, UNCHANGED <<finding, outcome>>,
         vault' \subseteq Evidence \cup Proof,
         envelope' \in [Evidence -> Envelope \cup {None}],
         proof' \in [Proof -> Id \cup {None}],
         \A e \in Evidence : envelope'[e] # None => e \in vault',
         \A p \in Proof : proof'[p] # None => p \in vault'
  PROVE  Tables' /\ Stand
<1>1. \A case \in Case : Chain(case)'
  BY DEF IInv, Chain
<1>2. Reviewed' /\ RecoveredAsReviewed'
  BY DEF IInv, Reviewed, RecoveredAsReviewed
<1>3. Custody'
  <2>1. \A id \in Id :
          finding[id] # None /\ finding[id].claim.basis # Inline =>
            \A r \in Role : finding[id].claim.basis[r] \in vault'
    BY DEF IInv, Custody, Grows
  <2>2. \A o \in Outcome :
          outcome[o] # None /\ outcome[o].proof # Inline =>
            /\ outcome[o].proof \in vault'
            /\ proof'[outcome[o].proof] = outcome[o].finding
    <3> SUFFICES ASSUME NEW o \in Outcome, outcome[o] # None, outcome[o].proof # Inline
                 PROVE  /\ outcome[o].proof \in vault'
                        /\ proof'[outcome[o].proof] = outcome[o].finding
      OBVIOUS
    <3>1. outcome[o] \in Recovery
      BY DEF IInv, TypeOK
    <3>2. outcome[o].finding \in Id /\ outcome[o].proof \in Proof
      BY <3>1, RecordFields
    <3> QED  BY <3>2 DEF IInv, Custody, Grows, IndustrialClaimsAssumption
  <2> QED  BY <2>1, <2>2 DEF Custody
<1>4. Stand
  BY DEF Stand, DecisionStands
<1>5. Evidenced'
  <2>1. ASSUME NEW id \in Id, finding[id] # None PROVE Captured(finding[id].claim.basis)'
    <3>1. PICK basis : basis = finding[id].claim.basis
      OBVIOUS
    <3>2. basis \in {Inline} \cup [Role -> Evidence] /\ Captured(basis)
      BY <2>1, <3>1, RecordFields DEF IInv, TypeOK, Evidenced
    <3>3. Captured(basis)' /\ finding'[id].claim.basis = basis
      BY <3>1, <3>2, CapturedStays
    <3> QED  BY <3>3 DEF Captured, CaseEvidence
  <2> QED  BY <2>1 DEF Evidenced
<1> QED  BY <1>1, <1>2, <1>3, <1>4, <1>5 DEF Tables, IInv, TypeOK

LEMMA UnchangedGrows == ASSUME UNCHANGED <<finding, envelope, proof, vault>> PROVE Grows
BY DEF Grows

(* A request that passed its checks.                                        *)
Admits(c) ==
  /\ UNCHANGED <<finding, envelope, proof, outcome, vault>>
  /\ \E k \in Call : Checked(k) /\ call' = [call EXCEPT ![c] = k]

LEMMA StartKeeps ==
  ASSUME IndustrialClaimsAssumption, IInv, NEW c \in Client, Start(c)
  PROVE  IInv' /\ Stand
<1>1. Admits(c)
  <2>1. ASSUME NEW id \in Id, NEW by \in Actor, NEW approve \in BOOLEAN,
               BeginReview(c, id, by, approve)
        PROVE  Admits(c)
    <3> DEFINE k == [op |-> "review", id |-> id, by |-> by, approve |-> approve]
    <3>1. k \in Call /\ Checked(k)
      BY <2>1 DEF Call, Checked, BeginReview, DossierIntegrity, RequireCurrent
    <3> QED  BY <2>1, <3>1 DEF BeginReview, Begin, Admits
  <2>2. ASSUME NEW id \in Id, BeginAction(c, id)
        PROVE  Admits(c)
    <3> DEFINE k == [op |-> "action", id |-> id]
    <3>1. k \in Call /\ Checked(k)
      BY <2>2 DEF Call, Checked, BeginAction, DossierIntegrity, RequireCurrent
    <3> QED  BY <2>2, <3>1 DEF BeginAction, Begin, Admits
  <2>3. ASSUME NEW o \in Outcome, NEW as \in Recovery, BeginResolve(c, o, as)
        PROVE  Admits(c)
    <3> DEFINE k == [op |-> "resolve", outcome |-> o, as |-> as]
    <3>1. k \in Call /\ Checked(k)
      BY <2>3 DEF Call, Checked, BeginResolve, DossierIntegrity, RequireCurrent
    <3> QED  BY <2>3, <3>1 DEF BeginResolve, Begin, Admits
  <2>4. ASSUME NEW id \in Id, NEW claim \in Claim, NEW by \in Actor,
               BeginAmend(c, id, claim, by)
        PROVE  Admits(c)
    <3> DEFINE k == [op |-> "amend", id |-> id, claim |-> claim, by |-> by]
    <3>1. Captured(claim.basis)
      BY <2>4 DEF BeginAmend, Accepted, Captured
    <3>2. k \in Call /\ Checked(k)
      BY <2>4, <3>1 DEF Call, Checked, BeginAmend, MayAmend, DossierIntegrity, RequireCurrent
    <3> QED  BY <2>4, <3>2 DEF BeginAmend, Begin, Admits
  <2>5. ASSUME NEW e \in Evidence, NEW as \in Envelope, BeginCapture(c, e, as)
        PROVE  Admits(c)
    <3> DEFINE k == [op |-> "capture", stored |-> FALSE, evidence |-> e, as |-> as]
    <3>1. k \in Call /\ Checked(k)
      BY DEF Call, OutcomeAuthorization, Checked
    <3> QED  BY <2>5, <3>1 DEF BeginCapture, Begin, Admits
  <2>6. ASSUME NEW p \in Proof, NEW id \in Id, BeginProve(c, p, id)
        PROVE  Admits(c)
    <3> DEFINE k == [op |-> "prove", stored |-> FALSE, evidence |-> p, id |-> id]
    <3>1. k \in Call /\ Checked(k)
      BY DEF Call, OutcomeAuthorization, Checked
    <3> QED  BY <2>6, <3>1 DEF BeginProve, Begin, Admits
  <2> QED  BY <2>1, <2>2, <2>3, <2>4, <2>5, <2>6 DEF Start
<1>2. Grows
  BY <1>1, UnchangedGrows DEF Admits
<1>3. PICK k \in Call : Checked(k) /\ call' = [call EXCEPT ![c] = k]
  BY <1>1 DEF Admits
<1>4. Checked(k)'
  BY <1>2, <1>3, CheckedStays DEF IInv
<1>5. Calls'
  BY <1>2, <1>3, <1>4, CallsStay
<1>6. Tables' /\ Stand
  BY <1>1, <1>2, EvidenceSteps DEF Admits, IInv, TypeOK, Custody
<1> QED  BY <1>5, <1>6 DEF IInv, TypeOK, Tables, Calls

-----------------------------------------------------------------------------
(* An original is stored.                                                   *)
LEMMA PutKeeps ==
  ASSUME IndustrialClaimsAssumption, IInv, NEW c \in Client, PutOriginal(c)
  PROVE  IInv' /\ Stand
<1> DEFINE me == call[c]
<1>1. me \in Call /\ me.op \in {"capture", "prove"} /\ me.evidence \in Evidence \cup Proof
  BY CallFields DEF IInv, TypeOK, PutOriginal
<1>2. Grows
  BY DEF PutOriginal, Grows
<1>3. PICK k : k = [me EXCEPT !.stored = TRUE]
  OBVIOUS
<1>4. k \in Call /\ k.op = me.op /\ k.evidence = me.evidence
  BY <1>1, <1>3 DEF Call
<1>5. call' = [call EXCEPT ![c] = k] /\ vault' = vault \cup {k.evidence}
  BY <1>3, <1>4 DEF PutOriginal
<1>8. Checked(k)'
  BY <1>1, <1>4, <1>5 DEF Checked
<1>6. Calls'
  BY <1>2, <1>4, <1>5, <1>8, CallsStay
<1>7. Tables' /\ Stand
  BY <1>1, <1>2, EvidenceSteps DEF PutOriginal, IInv, TypeOK, Custody
<1> QED  BY <1>6, <1>7 DEF IInv, TypeOK, Tables, Calls

(* An envelope is registered.                                               *)
LEMMA RecordKeeps ==
  ASSUME IndustrialClaimsAssumption, IInv, NEW c \in Client,
         RecordCapture(c) \/ RecordProof(c)
  PROVE  IInv' /\ Stand
<1> DEFINE me == call[c]
<1>1. me \in Call /\ Checked(me)
  BY DEF IInv, TypeOK, RecordCapture, RecordProof
<1>2. /\ call' = [call EXCEPT ![c] = None] /\ UNCHANGED <<finding, outcome, vault>>
      /\ envelope' \in [Evidence -> Envelope \cup {None}]
      /\ proof' \in [Proof -> Id \cup {None}]
      /\ \A e \in Evidence : envelope'[e] # envelope[e] => e \in vault /\ envelope[e] = None
      /\ \A p \in Proof : proof'[p] # proof[p] => p \in vault /\ proof[p] = None
  <2>1. CASE RecordCapture(c)
    BY <1>1, <2>1, CallFields DEF RecordCapture, MayRecord, Checked, IInv, TypeOK
  <2>2. CASE RecordProof(c)
    BY <1>1, <2>2, CallFields DEF RecordProof, MayRecord, Checked, IInv, TypeOK
  <2> QED  BY <2>1, <2>2
<1>3. Grows
  BY <1>2 DEF Grows
<1>4. Calls'
  BY <1>2, <1>3, CallsStay
<1>5. Tables' /\ Stand
  BY <1>2, <1>3, EvidenceSteps DEF IInv, TypeOK, Custody
<1> QED  BY <1>4, <1>5 DEF IInv, TypeOK, Tables, Calls

LEMMA AbortKeeps ==
  ASSUME IndustrialClaimsAssumption, IInv, NEW c \in Client, Abort(c)
  PROVE  IInv' /\ Stand
<1>1. /\ call' = [call EXCEPT ![c] = None]
      /\ UNCHANGED <<finding, envelope, proof, outcome, vault>>
  BY DEF Abort
<1>2. Grows
  BY <1>1, UnchangedGrows
<1>3. Calls'
  BY <1>1, <1>2, CallsStay
<1>4. Tables' /\ Stand
  BY <1>1, <1>2, EvidenceSteps DEF IInv, TypeOK, Custody
<1> QED  BY <1>3, <1>4 DEF IInv, TypeOK, Tables, Calls

-----------------------------------------------------------------------------
(* Decisions: one row moves on, its claim, creator and place in the chain   *)
(* stay.                                                                    *)

Decides(id, f) ==
  /\ id \in Id /\ finding[id] # None /\ f \in Finding
  /\ f.claim = finding[id].claim /\ f.creator = finding[id].creator
  /\ f.current = finding[id].current
  /\ \/ finding[id].state = "READY_FOR_REVIEW" /\ f.state \in {"APPROVED", "REJECTED"}
       /\ f.reviewer \in Actor \ {f.creator}
     \/ finding[id].state = "APPROVED" /\ f.state = "ACTIONED"
       /\ f.reviewer = finding[id].reviewer
     \/ finding[id].state = "ACTIONED" /\ f.state \in Closed
       /\ f.reviewer = finding[id].reviewer
  /\ finding' = [finding EXCEPT ![id] = f]
  /\ UNCHANGED <<envelope, proof, vault>>

LEMMA DecisionKeeps ==
  ASSUME IndustrialClaimsAssumption, IInv, NEW id, NEW f, Decides(id, f)
  PROVE  /\ Grows /\ Stand /\ Reviewed' /\ Evidenced'
         /\ finding' \in [Id -> Finding \cup {None}]
         /\ \A case \in Case : Chain(case)'
<1>0. /\ finding \in [Id -> Finding \cup {None}] /\ None \notin Finding
      /\ id \in Id /\ finding[id] \in Finding /\ f \in Finding
      /\ finding'[id] = f /\ \A i \in Id : i # id => finding'[i] = finding[i]
  BY DEF IInv, TypeOK, Decides, IndustrialClaimsAssumption
<1>1. finding' \in [Id -> Finding \cup {None}]
  BY <1>0 DEF Decides
<1>2. Grows
  BY <1>0 DEF Grows, Decides
<1>3. Reviewed'
  BY <1>0 DEF IInv, Reviewed, Decides, Closed
<1>4. \A case \in Case : Chain(case)'
  <2>1. \A i \in Id : /\ finding'[i] # None <=> finding[i] # None
                      /\ finding[i] # None => finding'[i].current = finding[i].current
    BY <1>0 DEF Decides
  <2>2. \A case \in Case, k \in 1 .. MaxRevision : <<case, k>> \in Id
    BY DEF Id
  <2>3. ASSUME NEW case \in Case PROVE Chain(case)'
    <3>1. PICK n \in 0 .. MaxRevision : \A k \in 1 .. MaxRevision :
            /\ finding[<<case, k>>] # None <=> k <= n
            /\ k <= n => (finding[<<case, k>>].current <=> k = n)
      BY DEF IInv, Chain
    <3>2. \A k \in 1 .. MaxRevision :
            /\ finding'[<<case, k>>] # None <=> k <= n
            /\ k <= n => (finding'[<<case, k>>].current <=> k = n)
      BY <2>1, <2>2, <3>1
    <3> QED  BY <3>2 DEF Chain
  <2> QED  BY <2>3
<1>5. Stand
  <2>1. DecisionStands(id)
    <3>1. \/ Rank[f.state] = Rank[finding[id].state] + 1
      BY <1>0 DEF Decides, Rank, State, Amendable, Closed
    <3>2. finding[id].reviewer # None => f.reviewer = finding[id].reviewer
      BY <1>0 DEF Decides, IInv, Reviewed
    <3> QED  BY <1>0, <3>1, <3>2 DEF DecisionStands
  <2>2. \A i \in Id : i # id => DecisionStands(i)
    BY <1>0 DEF DecisionStands
  <2> QED  BY <2>1, <2>2 DEF Stand
<1>6. Evidenced'
  BY <1>0 DEF IInv, Evidenced, Captured, CaseEvidence, Decides
<1> QED  BY <1>1, <1>2, <1>3, <1>4, <1>5, <1>6

LEMMA ReviewKeeps ==
  ASSUME IndustrialClaimsAssumption, IInv, NEW c \in Client,
         CommitReview(c) \/ CommitAction(c)
  PROVE  IInv' /\ Stand
<1> DEFINE me == call[c]
<1>1. /\ me \in Call /\ Checked(me) /\ me.op \in {"review", "action"}
      /\ me.id \in Id /\ finding[me.id] \in Finding /\ finding[me.id] # None
      /\ finding \in [Id -> Finding \cup {None}]
  BY CallFields DEF CommitReview, CommitAction, IInv, TypeOK, Checked
<1>2. /\ call' = [call EXCEPT ![c] = None]
      /\ UNCHANGED <<envelope, proof, vault, outcome>>
  BY DEF CommitReview, CommitAction, Writes
<1>3. \E f : Decides(me.id, f)
  <2>1. CASE CommitReview(c)
    <3> DEFINE f == [finding[me.id] EXCEPT
                !.state = IF me.approve THEN "APPROVED" ELSE "REJECTED", !.reviewer = me.by]
    <3>1. me.by \in Actor \ {finding[me.id].creator} /\ me.approve \in BOOLEAN
      BY <1>1, <2>1, CallFields DEF CommitReview, Checked
    <3>2. /\ f \in Finding /\ f.claim = finding[me.id].claim
          /\ f.creator = finding[me.id].creator /\ f.current = finding[me.id].current
          /\ f.reviewer = me.by /\ f.state \in {"APPROVED", "REJECTED"}
      BY <1>1, <3>1 DEF Finding, State, Amendable
    <3>3. finding' = [finding EXCEPT ![me.id] = f] /\ finding[me.id].state = "READY_FOR_REVIEW"
      BY <1>1, <2>1 DEF CommitReview
    <3> HIDE DEF f
    <3>4. Decides(me.id, f)
      BY <1>1, <1>2, <3>1, <3>2, <3>3 DEF Decides
    <3> QED  BY <3>4
  <2>2. CASE CommitAction(c)
    <3> DEFINE f == [finding[me.id] EXCEPT !.state = "ACTIONED"]
    <3>1. /\ f \in Finding /\ f.claim = finding[me.id].claim
          /\ f.creator = finding[me.id].creator /\ f.current = finding[me.id].current
          /\ f.reviewer = finding[me.id].reviewer /\ f.state = "ACTIONED"
      BY <1>1 DEF Finding, State
    <3>2. finding' = [finding EXCEPT ![me.id] = f] /\ finding[me.id].state = "APPROVED"
      BY <1>1, <2>2 DEF CommitAction
    <3> HIDE DEF f
    <3>3. Decides(me.id, f)
      BY <1>1, <1>2, <3>1, <3>2 DEF Decides
    <3> QED  BY <3>3
  <2> QED  BY <2>1, <2>2
<1>4. PICK id, f : id = me.id /\ Decides(id, f)
  BY <1>3
<1>5. /\ Grows /\ Stand /\ Reviewed' /\ Evidenced' /\ finding' \in [Id -> Finding \cup {None}]
      /\ \A case \in Case : Chain(case)'
  BY <1>4, DecisionKeeps
<1>6. Calls'
  BY <1>2, <1>5, CallsStay
<1>7. Custody'
  BY <1>2, <1>4 DEF IInv, Custody, Decides
<1>8. RecoveredAsReviewed'
  <2>1. finding[id].state \notin Closed /\ id \in Id
    BY <1>4 DEF Decides, Closed
  <2>2. \A i \in Id : i # id => finding'[i] = finding[i]
    BY <1>4 DEF Decides, IInv, TypeOK
  <2>3. \A o \in Outcome : outcome[o] # None =>
          finding'[outcome[o].finding] = finding[outcome[o].finding]
    BY <2>1, <2>2, RecordFields DEF IInv, TypeOK, RecoveredAsReviewed
  <2> QED  BY <1>2, <2>3 DEF IInv, RecoveredAsReviewed
<1> QED  BY <1>2, <1>5, <1>6, <1>7, <1>8 DEF IInv, TypeOK, Calls

LEMMA ResolveKeeps ==
  ASSUME IndustrialClaimsAssumption, IInv, NEW c \in Client, CommitResolve(c)
  PROVE  IInv' /\ Stand
<1> DEFINE me == call[c]
<1>1. /\ me \in Call /\ Checked(me) /\ me.op = "resolve"
      /\ me.outcome \in Outcome /\ me.as \in Recovery /\ me.as.finding \in Id
      /\ me.as.proof \in Proof \cup {Inline} /\ me.as # None
      /\ finding[me.as.finding] \in Finding /\ finding[me.as.finding] # None
      /\ finding \in [Id -> Finding \cup {None}]
      /\ WithinReviewed(me.as) /\ ProvenBy(me.as)
  BY CallFields, RecordFields
  DEF CommitResolve, IInv, TypeOK, Checked, IndustrialClaimsAssumption
<1>2. PICK id, f, as, o :
        /\ id = me.as.finding /\ as = me.as /\ o = me.outcome
        /\ f = [finding[id] EXCEPT !.state =
                  IF me.as.amount > 0 THEN "RECOVERED" ELSE "CLOSED_NO_RECOVERY"]
  OBVIOUS
<1>3. /\ call' = [call EXCEPT ![c] = None] /\ UNCHANGED <<envelope, proof, vault>>
      /\ outcome' = [outcome EXCEPT ![o] = as] /\ outcome[o] = None
      /\ finding[id].state = "ACTIONED" /\ finding' = [finding EXCEPT ![id] = f]
  BY <1>1, <1>2 DEF CommitResolve, Writes, Resolvable
<1>4. /\ f \in Finding /\ f.claim = finding[id].claim
      /\ f.creator = finding[id].creator /\ f.current = finding[id].current
      /\ f.reviewer = finding[id].reviewer /\ f.state \in Closed
  BY <1>1, <1>2 DEF Finding, State, Closed
<1>5. Decides(id, f)
  BY <1>1, <1>2, <1>3, <1>4 DEF Decides
<1>6. /\ Grows /\ Stand /\ Reviewed' /\ Evidenced' /\ finding' \in [Id -> Finding \cup {None}]
      /\ \A case \in Case : Chain(case)'
  BY <1>5, DecisionKeeps
<1>7. Calls'
  BY <1>3, <1>6, CallsStay
<1>8. outcome \in [Outcome -> Recovery \cup {None}] /\ outcome' \in [Outcome -> Recovery \cup {None}]
  BY <1>1, <1>2, <1>3 DEF IInv, TypeOK
<1>9. Custody'
  <2>1. as.proof # Inline => as.proof \in vault /\ proof[as.proof] = as.finding
    BY <1>1, <1>2 DEF ProvenBy, IInv, Custody, IndustrialClaimsAssumption
  <2>2. \A i \in Id : finding'[i] # None => finding[i] # None /\ finding'[i].claim = finding[i].claim
    BY <1>1, <1>2, <1>3, <1>4
  <2>3. \A p \in Outcome : outcome'[p] = IF p = o THEN as ELSE outcome[p]
    BY <1>1, <1>2, <1>3, <1>8
  <2>4. /\ \A e \in Evidence : envelope[e] # None => e \in vault
        /\ \A p \in Proof : proof[p] # None => p \in vault
        /\ \A i \in Id : finding[i] # None /\ finding[i].claim.basis # Inline =>
             \A r \in Role : finding[i].claim.basis[r] \in vault
        /\ \A p \in Outcome : outcome[p] # None /\ outcome[p].proof # Inline =>
             outcome[p].proof \in vault /\ proof[outcome[p].proof] = outcome[p].finding
    BY DEF IInv, Custody
  <2>5. \A p \in Outcome : outcome'[p] # None /\ outcome'[p].proof # Inline =>
          outcome'[p].proof \in vault /\ proof[outcome'[p].proof] = outcome'[p].finding
    BY <2>1, <2>3, <2>4
  <2>6. \A i \in Id : finding'[i] # None /\ finding'[i].claim.basis # Inline =>
             \A r \in Role : finding'[i].claim.basis[r] \in vault
    BY <2>2, <2>4
  <2> QED  BY <1>3, <2>4, <2>5, <2>6 DEF Custody
<1>10. RecoveredAsReviewed'
  <2>1. \A p \in Outcome : outcome'[p] = IF p = o THEN as ELSE outcome[p]
    BY <1>1, <1>2, <1>3, <1>8
  <2>2. finding'[id] = f /\ \A i \in Id : i # id => finding'[i] = finding[i]
    BY <1>1, <1>2, <1>3
  <2>3. \A p \in Outcome : outcome[p] # None => outcome[p].finding \in Id /\ outcome[p].finding # id
    BY <1>3, <1>8, RecordFields DEF IInv, RecoveredAsReviewed, Closed
  <2>4. as.amount <= f.claim.net /\ f.reviewer \in Actor \ {f.creator} /\ f # None
    BY <1>1, <1>2, <1>3, <1>4
    DEF WithinReviewed, IInv, Reviewed, IndustrialClaimsAssumption
  <2>5. as.finding = id /\ as # None
    BY <1>1, <1>2
  <2>6. ASSUME NEW p \in Outcome, outcome'[p] # None
        PROVE  LET g == finding'[outcome'[p].finding] IN
               /\ g # None /\ g.state \in Closed
               /\ outcome'[p].amount <= g.claim.net
               /\ g.reviewer \in Actor \ {g.creator}
    <3>1. CASE p = o
      BY <1>4, <2>1, <2>2, <2>4, <2>5, <3>1
    <3>2. CASE p # o
      BY <2>1, <2>2, <2>3, <2>6, <3>2 DEF IInv, RecoveredAsReviewed
    <3> QED  BY <3>1, <3>2
  <2>7. \A p, q \in Outcome :
          outcome'[p] # None /\ outcome'[q] # None
            /\ outcome'[p].finding = outcome'[q].finding => p = q
    BY <2>1, <2>3, <2>5 DEF IInv, RecoveredAsReviewed
  <2> QED  BY <2>6, <2>7 DEF RecoveredAsReviewed
<1> QED  BY <1>3, <1>6, <1>7, <1>8, <1>9, <1>10 DEF IInv, TypeOK, Calls

-----------------------------------------------------------------------------
(* A new revision, of a new case or after the current one.                  *)

LEMMA NewFindingTyped ==
  ASSUME NEW claim \in Claim, NEW actor \in Actor
  PROVE  /\ NewFinding(claim, actor) \in Finding
         /\ NewFinding(claim, actor).claim = claim
         /\ NewFinding(claim, actor).creator = actor
         /\ NewFinding(claim, actor).state \in {"UNRESOLVED_EVIDENCE", "READY_FOR_REVIEW"}
         /\ NewFinding(claim, actor).reviewer = None
         /\ NewFinding(claim, actor).current
BY DEF NewFinding, ReadyState, Finding, State, Amendable

(* The row of the new revision, and the predecessor it replaces, if any.    *)
Revises(new, f, old) ==
  /\ new \in Id /\ finding[new] = None /\ f \in Finding /\ f.current
  /\ f.state \in {"UNRESOLVED_EVIDENCE", "READY_FOR_REVIEW"} /\ f.reviewer = None
  /\ Captured(f.claim.basis)
  /\ IF old = None THEN /\ new[2] = 1 /\ \A k \in 1 .. MaxRevision : finding[<<new[1], k>>] = None
                        /\ finding' = [finding EXCEPT ![new] = f]
     ELSE /\ old \in Id /\ new = Following(old)
          /\ finding[old] # None /\ finding[old].current
          /\ finding' = Superseded([finding EXCEPT ![new] = f], old)
  /\ UNCHANGED <<envelope, proof, vault, outcome>>

LEMMA RevisionKeeps ==
  ASSUME IndustrialClaimsAssumption, IInv, NEW new, NEW f, NEW old, Revises(new, f, old)
  PROVE  Grows /\ Tables' /\ Stand
<1>0. /\ finding \in [Id -> Finding \cup {None}] /\ None \notin Finding
      /\ new \in Id /\ f \in Finding /\ f # None /\ MaxRevision \in Nat
  BY DEF IInv, TypeOK, Revises, IndustrialClaimsAssumption
<1>1. /\ finding' \in [Id -> Finding \cup {None}]
      /\ finding'[new] = f
      /\ \A i \in Id \ {new} :
           /\ finding'[i] # None <=> finding[i] # None
           /\ finding[i] # None =>
                /\ finding'[i].claim = finding[i].claim
                /\ finding'[i].creator = finding[i].creator
                /\ finding'[i].state = finding[i].state
                /\ finding'[i].reviewer = finding[i].reviewer
                /\ finding'[i].current <=> finding[i].current /\ i # old
  <2>1. CASE old = None
    BY <1>0, <2>1 DEF Revises, IndustrialClaimsAssumption
  <2>2. CASE old # None
    <3>1. old \in Id /\ finding[old] \in Finding /\ new # old
      <4>1. old \in Id /\ finding[old] \in Finding
        BY <1>0, <2>2 DEF Revises
      <4>2. new = <<old[1], old[2] + 1>> /\ old = <<old[1], old[2]>> /\ old[2] \in Nat
        BY <2>2, <4>1, Pairs DEF Revises, Following
      <4> QED  BY <4>1, <4>2
    <3>2. PICK g : g = [finding[old] EXCEPT !.current = FALSE]
      OBVIOUS
    <3>3. /\ g \in Finding /\ g.claim = finding[old].claim /\ g.creator = finding[old].creator
          /\ g.state = finding[old].state /\ g.reviewer = finding[old].reviewer /\ ~g.current
      BY <3>1, <3>2 DEF Finding
    <3>4. finding' = [finding EXCEPT ![new] = f, ![old] = g]
      <4>1. [finding EXCEPT ![new] = f][old] = finding[old]
        BY <1>0, <3>1
      <4> QED  BY <1>0, <2>2, <3>1, <3>2, <4>1 DEF Revises, Superseded
    <3> QED  BY <1>0, <3>1, <3>3, <3>4
  <2> QED  BY <2>1, <2>2
<1>2. finding[new] = None /\ f.current /\ UNCHANGED <<envelope, proof, vault, outcome>>
  BY DEF Revises
<1>3. Grows
  BY <1>0, <1>1, <1>2 DEF Grows
<1>4. \A case \in Case : Chain(case)'
  <2> SUFFICES ASSUME NEW case \in Case PROVE Chain(case)'
    OBVIOUS
  <2>1. PICK n \in 0 .. MaxRevision : \A k \in 1 .. MaxRevision :
          /\ finding[<<case, k>>] # None <=> k <= n
          /\ k <= n => (finding[<<case, k>>].current <=> k = n)
    BY DEF IInv, Chain
  <2>2. \A k \in 1 .. MaxRevision : <<case, k>> \in Id
    BY DEF Id
  <2>3. new = <<new[1], new[2]>> /\ new[2] \in 1 .. MaxRevision /\ new[1] \in Case
    BY <1>0, Pairs
  <2>4. old # None =>
          /\ old \in Id /\ old = <<new[1], old[2]>> /\ new[2] = old[2] + 1
          /\ old[2] \in 1 .. MaxRevision /\ finding[old] # None /\ finding[old].current
    <3> SUFFICES ASSUME old # None
                 PROVE  /\ old \in Id /\ old = <<new[1], old[2]>> /\ new[2] = old[2] + 1
                        /\ old[2] \in 1 .. MaxRevision
                        /\ finding[old] # None /\ finding[old].current
      OBVIOUS
    <3>1. old \in Id /\ new = <<old[1], old[2] + 1>> /\ finding[old] # None /\ finding[old].current
      BY DEF Revises, Following
    <3> QED  BY <3>1, Pairs
  <2>5. CASE case # new[1]
    <3>1. \A k \in 1 .. MaxRevision : <<case, k>> # new /\ (old # None => <<case, k>> # old)
      BY <2>3, <2>4, <2>5
    <3>2. \A k \in 1 .. MaxRevision :
            /\ finding'[<<case, k>>] # None <=> finding[<<case, k>>] # None
            /\ finding[<<case, k>>] # None =>
                 (finding'[<<case, k>>].current <=> finding[<<case, k>>].current)
      BY <1>1, <2>2, <3>1 DEF IndustrialClaimsAssumption
    <3>3. \A k \in 1 .. MaxRevision :
            /\ finding'[<<case, k>>] # None <=> k <= n
            /\ k <= n => (finding'[<<case, k>>].current <=> k = n)
      BY <2>1, <3>2
    <3> QED  BY <3>3 DEF Chain
  <2>6. CASE case = new[1]
    <3>1. n + 1 = new[2]
      <4>1. CASE old = None
        <5>1. new[2] = 1 /\ \A k \in 1 .. MaxRevision : finding[<<case, k>>] = None
          BY <2>6, <4>1 DEF Revises
        <5>2. n \in 1 .. MaxRevision => finding[<<case, n>>] # None
          BY <1>0, <2>1
        <5>3. n = 0
          BY <1>0, <2>1, <5>1, <5>2
        <5> QED  BY <5>1, <5>3
      <4>2. CASE old # None
        BY <2>1, <2>4, <2>6, <4>2
      <4> QED  BY <4>1, <4>2
    <3>2. \A k \in 1 .. MaxRevision :
            /\ finding'[<<case, k>>] # None <=> k <= n + 1
            /\ k <= n + 1 => (finding'[<<case, k>>].current <=> k = n + 1)
      <4> SUFFICES ASSUME NEW k \in 1 .. MaxRevision
                   PROVE  /\ finding'[<<case, k>>] # None <=> k <= n + 1
                          /\ k <= n + 1 => (finding'[<<case, k>>].current <=> k = n + 1)
        OBVIOUS
      <4>1. CASE k = n + 1
        BY <1>0, <1>1, <1>2, <2>3, <2>6, <3>1, <4>1
      <4>2. CASE k # n + 1
        <5>1. <<case, k>> \in Id \ {new}
          BY <2>2, <2>3, <3>1, <4>2
        <5>2. k = n => old = <<case, k>>
          <6>1. old = None => n = 0
            BY <1>0, <3>1 DEF Revises
          <6>2. old # None => old = <<case, n>>
            BY <2>4, <2>6, <3>1
          <6> QED  BY <6>1, <6>2
        <5> QED  BY <1>1, <2>1, <4>2, <5>1, <5>2
      <4> QED  BY <4>1, <4>2
    <3>3. n + 1 \in 0 .. MaxRevision
      BY <2>3, <3>1
    <3> QED  BY <3>2, <3>3 DEF Chain
  <2> QED  BY <2>5, <2>6
<1>5. Reviewed'
  <2>1. /\ finding[new] = None /\ f.reviewer = None
        /\ f.state \in {"UNRESOLVED_EVIDENCE", "READY_FOR_REVIEW"}
    BY DEF Revises
  <2> QED  BY <1>0, <1>1, <2>1 DEF IInv, Reviewed
<1>6. Custody'
  <2>1. \A r \in Role : f.claim.basis # Inline => f.claim.basis[r] \in vault
    <3>1. Captured(f.claim.basis) /\ f.claim.basis \in {Inline} \cup [Role -> Evidence]
      BY <1>0, RecordFields DEF Revises
    <3> QED  BY <3>1, CapturedOriginals DEF IInv, Custody
  <2> QED  BY <1>0, <1>1, <1>2, <2>1 DEF IInv, Custody
<1>7. RecoveredAsReviewed'
  <2>1. \A o \in Outcome : outcome[o] # None =>
          outcome[o].finding \in Id \ {new}
    BY <1>2, RecordFields DEF IInv, TypeOK, RecoveredAsReviewed
  <2> QED  BY <1>1, <1>2, <2>1 DEF IInv, RecoveredAsReviewed
<1>8. Stand
  BY <1>0, <1>1, <1>2 DEF Stand, DecisionStands
<1>9. Evidenced'
  <2>1. Captured(f.claim.basis)
    BY DEF Revises
  <2> QED  BY <1>0, <1>1, <1>2, <2>1 DEF IInv, Evidenced, Captured, CaseEvidence
<1> QED  BY <1>1, <1>2, <1>3, <1>4, <1>5, <1>6, <1>7, <1>8, <1>9 DEF Tables, IInv, TypeOK

LEMMA CreateKeeps ==
  ASSUME IndustrialClaimsAssumption, IInv, NEW case \in Case, NEW claim \in Claim,
         NEW actor \in Actor, CreateCase(case, claim, actor)
  PROVE  IInv' /\ Stand
<1>1. PICK new, f, old : new = <<case, 1>> /\ f = NewFinding(claim, actor) /\ old = None
  OBVIOUS
<1>2. new \in Id /\ new[1] = case /\ new[2] = 1
  BY <1>1 DEF Id, IndustrialClaimsAssumption
<1>3. \A k \in 1 .. MaxRevision : finding[<<case, k>>] = None
  <2>1. \A k \in 1 .. MaxRevision : <<case, k>> \in Id /\ <<case, k>>[1] = case
    BY DEF Id
  <2> QED  BY <2>1 DEF CreateCase, Revisions
<1>4. Captured(claim.basis)
  BY DEF CreateCase, Accepted, Captured
<1>5. finding' = [finding EXCEPT ![new] = f]
  BY <1>1 DEF CreateCase
<1>6. UNCHANGED <<envelope, proof, vault, outcome, call>>
  BY DEF CreateCase
<1>7. finding[new] = None
  BY <1>1, <1>3 DEF IndustrialClaimsAssumption
<1>8. Revises(new, f, old)
  BY <1>1, <1>2, <1>3, <1>4, <1>5, <1>6, <1>7, NewFindingTyped DEF Revises
<1>9. Grows /\ Tables' /\ Stand
  BY <1>8, RevisionKeeps
<1>10. Calls'
  BY <1>6, <1>9, CallsStay
<1> QED  BY <1>9, <1>10 DEF IInv, TypeOK, Tables, Calls

LEMMA AmendKeeps ==
  ASSUME IndustrialClaimsAssumption, IInv, NEW c \in Client, CommitAmend(c)
  PROVE  IInv' /\ Stand
<1> DEFINE me == call[c]
<1>1. /\ me \in Call /\ Checked(me) /\ me.op = "amend"
      /\ me.id \in Id /\ me.claim \in Claim /\ me.by \in Actor
  BY CallFields DEF CommitAmend, IInv, TypeOK
<1>2. PICK new, f, old :
        new = Following(me.id) /\ f = NewFinding(me.claim, me.by) /\ old = me.id
  OBVIOUS
<1>3. /\ finding[old] # None /\ old[2] < MaxRevision /\ Captured(me.claim.basis)
  BY <1>1, <1>2 DEF Checked
<1>4. /\ finding[old].current /\ finding[new] = None
      /\ finding' = Superseded([finding EXCEPT ![new] = f], old)
      /\ UNCHANGED <<envelope, proof, vault, outcome>>
      /\ call' = [call EXCEPT ![c] = None]
  BY <1>2 DEF CommitAmend, Amended, Supersedes, Writes
<1>5. new \in Id
  BY <1>1, <1>2, <1>3, Pairs DEF Following, Id, IndustrialClaimsAssumption
<1>6. /\ f \in Finding /\ f.current /\ f.reviewer = None /\ Captured(f.claim.basis)
      /\ f.state \in {"UNRESOLVED_EVIDENCE", "READY_FOR_REVIEW"}
  BY <1>1, <1>2, <1>3, NewFindingTyped
<1>7. Revises(new, f, old)
  BY <1>1, <1>2, <1>3, <1>4, <1>5, <1>6 DEF Revises, IndustrialClaimsAssumption
<1>8. Grows /\ Tables' /\ Stand
  BY <1>7, RevisionKeeps
<1>9. Calls'
  BY <1>4, <1>8, CallsStay
<1> QED  BY <1>8, <1>9 DEF IInv, TypeOK, Tables, Calls

-----------------------------------------------------------------------------
LEMMA InitHolds == ASSUME IndustrialClaimsAssumption, Init PROVE IInv
<1>1. TypeOK /\ Reviewed /\ Evidenced /\ Custody /\ RecoveredAsReviewed
  BY DEF Init, TypeOK, Reviewed, Evidenced, Custody, RecoveredAsReviewed
<1>2. \A c \in Client : call[c] # None => Checked(call[c])
  BY DEF Init
<1>3. ASSUME NEW case \in Case PROVE Chain(case)
  <2>1. 0 \in 0 .. MaxRevision /\ \A k \in 1 .. MaxRevision : <<case, k>> \in Id
    BY DEF IndustrialClaimsAssumption, Id
  <2>2. \A k \in 1 .. MaxRevision :
          /\ finding[<<case, k>>] # None <=> k <= 0
          /\ k <= 0 => (finding[<<case, k>>].current <=> k = 0)
    BY <2>1 DEF Init, IndustrialClaimsAssumption
  <2> QED  BY <2>1, <2>2 DEF Chain
<1> QED  BY <1>1, <1>2, <1>3 DEF IInv

LEMMA StepKeeps ==
  ASSUME IndustrialClaimsAssumption, IInv, Next PROVE IInv' /\ Stand
<1>1. ASSUME NEW case \in Case, NEW claim \in Claim, NEW actor \in Actor,
             CreateCase(case, claim, actor)
      PROVE  IInv' /\ Stand
  BY <1>1, CreateKeeps
<1>2. ASSUME NEW c \in Client, Start(c) PROVE IInv' /\ Stand
  BY <1>2, StartKeeps
<1>3. ASSUME NEW c \in Client, CommitReview(c) \/ CommitAction(c) PROVE IInv' /\ Stand
  BY <1>3, ReviewKeeps
<1>4. ASSUME NEW c \in Client, CommitResolve(c) PROVE IInv' /\ Stand
  BY <1>4, ResolveKeeps
<1>5. ASSUME NEW c \in Client, CommitAmend(c) PROVE IInv' /\ Stand
  BY <1>5, AmendKeeps
<1>6. ASSUME NEW c \in Client, PutOriginal(c) PROVE IInv' /\ Stand
  BY <1>6, PutKeeps
<1>7. ASSUME NEW c \in Client, RecordCapture(c) \/ RecordProof(c) PROVE IInv' /\ Stand
  BY <1>7, RecordKeeps
<1>8. ASSUME NEW c \in Client, Abort(c) PROVE IInv' /\ Stand
  BY <1>8, AbortKeeps
<1> QED  BY <1>1, <1>2, <1>3, <1>4, <1>5, <1>6, <1>7, <1>8 DEF Next

LEMMA StutterKeeps ==
  ASSUME IndustrialClaimsAssumption, IInv, UNCHANGED vars PROVE IInv'
<1>1. Grows /\ UNCHANGED <<finding, outcome, envelope, proof, vault, call>>
  BY DEF vars, Grows
<1>2. Calls'
  BY <1>1, CallsStay
<1>3. Tables'
  BY <1>1, EvidenceSteps DEF IInv, TypeOK, Custody
<1> QED  BY <1>2, <1>3 DEF IInv, TypeOK, Tables, Calls

(* The inductive invariant: the properties below, chains without gaps, and  *)
(* that what a request has checked stays true until it writes.              *)
THEOREM InvariantHolds == Spec => []IInv
<1>1. Init => IInv
  BY InitHolds, IndustrialClaimsAssumption
<1>2. IInv /\ [Next]_vars => IInv'
  BY StepKeeps, StutterKeeps, IndustrialClaimsAssumption
<1> QED  BY <1>1, <1>2, PTL DEF Spec

(* Findings, envelopes, outcomes and requests keep their types.             *)
THEOREM TypeCorrect == Spec => []TypeOK
<1>1. IInv => TypeOK
  BY DEF IInv
<1> QED  BY <1>1, InvariantHolds, PTL

(* Every finding the program wrote opens, for any number of overlapping     *)
(* requests and revisions.                                                  *)
THEOREM DossiersOpenHolds == Spec => []DossiersOpen
<1>1. IInv => DossiersOpen
  BY ChainOpens, Pairs, IndustrialClaimsAssumption DEF IInv, TypeOK, DossiersOpen
<1> QED  BY <1>1, InvariantHolds, PTL

(* Every original a case or an outcome rests on is in immutable storage.    *)
THEOREM CustodyHolds == Spec => []Custody
<1>1. IInv => Custody
  BY DEF IInv
<1> QED  BY <1>1, InvariantHolds, PTL

(* Money is booked once and within what an independent reviewer approved.   *)
THEOREM RecoveredAsReviewedHolds == Spec => []RecoveredAsReviewed
<1>1. IInv => RecoveredAsReviewed
  BY DEF IInv
<1> QED  BY <1>1, InvariantHolds, PTL

(* No step takes a decision back.                                           *)
THEOREM DecisionsStandHolds == Spec => DecisionsStand
<1>1. IInv /\ [Next]_vars => [\A id \in Id : DecisionStands(id)]_vars
  BY StepKeeps, IndustrialClaimsAssumption DEF Stand
<1> QED  BY <1>1, InvariantHolds, PTL DEF Spec, DecisionsStand

-----------------------------------------------------------------------------
(* The proofs.                                                              *)

Targets ==
  [finding : Finding \cup {None}, outcomes : SUBSET Outcome, asOf : Nat,
   chronology : {None} \cup [rows : Capture, open : BOOLEAN]]

Row ==
  [op : Operation, id : Id, state : {"STARTED", "COMPLETED", "FAILED"},
   target : Targets, head : Nat, receipts : Receipts \cup {None}]

ArchiveRow == [op : Operation, target : Targets, receipts : Receipts \cup {None}]

Steps ==
  {"confirmed", "started", "asked", "proven", "archived", "export", "reading", "bundled"}

Task ==
  [pc : {"fact", "late"}, id : Id, at : Instant]
    \cup [pc : {"sheet"}, id : Id]
    \cup [pc : Steps, id : Id, target : Targets, head : Nat,
          receipts : Receipts \cup {None}]

(* The windows, the ledger with the archive, the exports.                   *)
Windows ==
  /\ day \in Nat /\ clock \in Nat
  /\ born \in [Id -> Nat \cup {None}] /\ capture \in [Id -> Capture \cup {None}]
  /\ \A id \in Id : finding[id] # None \/ capture[id] # None => born[id] \in Nat
  /\ Contemporaneous

Intended(o, target) ==
  \E i \in DOMAIN ledger :
    ledger[i].op = o /\ ledger[i].state = "STARTED" /\ ledger[i].target = target

Intents ==
  /\ ledger \in Seq(Row) /\ archive \in Seq(ArchiveRow)
  /\ \A a \in asked : Intended(a.op, a.target)
  /\ \A i \in DOMAIN archive :
       [op |-> archive[i].op, target |-> archive[i].target] \in asked
  /\ \A o \in Operation : Completed(ledger, o) => Archived(o) # {}

(* The outcomes a target lists are there.                                   *)
Settled(target) == \A q \in target.outcomes : q \in Outcome /\ outcome[q] # None

HandedOut(o, target) ==
  Settled(target) /\ Completed(exports, o) /\ Originals(target) \subseteq vault

Exports ==
  /\ exports \in Seq(Row)
  /\ \A r \in released : r.op \in Operation /\ HandedOut(r.op, r.target)

(* What a call has achieved when it is about to take its next step.         *)
Ready(o, me) ==
  /\ me.pc \in {"fact", "late", "sheet"} => capture[me.id] \in Capture
  /\ me.pc = "fact" => born[me.id] \in Nat /\ me.at.day <= born[me.id] + WindowDays
  /\ me.pc = "late" => born[me.id] \in Nat /\ me.at.day > born[me.id] + WindowDays
  /\ me.pc = "started" => Intended(o, me.target)
  /\ me.pc \in {"asked", "proven"} => [op |-> o, target |-> me.target] \in asked
  /\ me.pc = "archived" => Archived(o) # {}
  /\ me.pc \in {"export", "reading"} => Settled(me.target)
  /\ me.pc = "bundled" => HandedOut(o, me.target)

Tasks ==
  /\ task \in [Operation -> Task \cup {None}]
  /\ \A o \in Operation : task[o] # None => Ready(o, task[o])

PInv == IInv /\ Windows /\ Intents /\ Exports /\ Tasks

(* What no step takes back.                                                 *)
Lasts ==
  /\ \A id \in Id : capture[id] \in Capture => capture'[id] \in Capture
  /\ \A id \in Id : born[id] \in Nat => born'[id] = born[id]
  /\ \A o \in Operation, t \in Targets : Intended(o, t) => Intended(o, t)'
  /\ asked \subseteq asked'
  /\ \A o \in Operation : Archived(o) # {} => Archived(o)' # {}
  /\ \A o \in Operation : Completed(exports, o) => Completed(exports', o)
  /\ vault \subseteq vault'
  /\ \A q \in Outcome : outcome[q] # None => outcome'[q] = outcome[q]

-----------------------------------------------------------------------------
LEMMA TaskFields ==
  ASSUME NEW me \in Task
  PROVE  /\ me.id \in Id /\ me.pc \in Steps \cup {"fact", "late", "sheet"}
         /\ me.pc \in {"fact", "late"} => me.at \in Instant
         /\ me.pc \in Steps =>
              /\ me.target \in Targets /\ me.head \in Nat
              /\ me.receipts \in Receipts \cup {None}
BY DEF Task, Steps

LEMMA AppendRow ==
  ASSUME NEW S, NEW s \in Seq(S), NEW x \in S
  PROVE  /\ Append(s, x) \in Seq(S)
         /\ \A i \in DOMAIN s : i \in DOMAIN Append(s, x) /\ Append(s, x)[i] = s[i]
         /\ \A i \in DOMAIN Append(s, x) : i \in DOMAIN s \/ Append(s, x)[i] = x
         /\ Len(s) + 1 \in DOMAIN Append(s, x) /\ Append(s, x)[Len(s) + 1] = x
OBVIOUS

LEMMA TargetTyped ==
  ASSUME IInv, Windows, NEW id \in Id
  PROVE  Target(id) \in Targets
<1>1. finding[id] \in Finding \cup {None} /\ day \in Nat
  BY DEF IInv, TypeOK, Windows
<1>2. OutcomesOf(id) \in SUBSET Outcome
  BY DEF OutcomesOf
<1>3. WindowOpen(id) \in BOOLEAN
  BY DEF WindowOpen
<1>4. capture[id] # None => capture[id] \in Capture
  BY DEF Windows
<1> QED  BY <1>1, <1>2, <1>3, <1>4 DEF Target, Targets

(* A row written for a call.                                                *)
LEMMA EventTyped ==
  ASSUME NEW o \in Operation, NEW me \in Task, me.pc \in Steps,
         NEW state \in {"STARTED", "COMPLETED", "FAILED"}
  PROVE  /\ Event(me, o, state) \in Row
         /\ Event(me, o, state).op = o /\ Event(me, o, state).state = state
         /\ Event(me, o, state).target = me.target
BY TaskFields DEF Event, Row

(* What was handed out stays handed out.                                    *)
LEMMA HandedOutStays ==
  ASSUME Lasts, NEW o \in Operation, NEW target, HandedOut(o, target)
  PROVE  HandedOut(o, target)'
<1>1. Settled(target)'
  BY DEF HandedOut, Settled, Lasts
<1>2. Completed(exports, o)'
  BY DEF HandedOut, Lasts
<1>3. Originals(target)' = Originals(target)
  BY DEF HandedOut, Settled, Lasts, Originals
<1> QED  BY <1>1, <1>2, <1>3 DEF HandedOut, Lasts

LEMMA ReadyStays ==
  ASSUME Lasts, NEW o \in Operation, NEW me \in Task, Ready(o, me)
  PROVE  Ready(o, me)'
<1>1. me.id \in Id /\ (me.pc \in Steps => me.target \in Targets)
  BY TaskFields
<1>2. me.pc \in {"fact", "late", "sheet"} => Ready(o, me)'
  BY <1>1 DEF Ready, Lasts
<1>3. me.pc \in {"started", "asked", "proven", "archived"} => Ready(o, me)'
  BY <1>1 DEF Ready, Lasts, Steps
<1>4. me.pc \in {"export", "reading"} => Ready(o, me)'
  BY DEF Ready, Lasts, Settled
<1>5. me.pc = "bundled" => Ready(o, me)'
  BY HandedOutStays DEF Ready
<1>6. me.pc = "confirmed" => Ready(o, me)'
  BY DEF Ready
<1> QED  BY <1>2, <1>3, <1>4, <1>5, <1>6, TaskFields DEF Steps

(* One call moves on or ends, or none does.                                 *)
Moves ==
  \/ UNCHANGED task
  \/ \E o \in Operation, me \in Task \cup {None} :
       (me # None => Ready(o, me)') /\ task' = [task EXCEPT ![o] = me]

LEMMA TasksStay == ASSUME Lasts, Tasks, Moves PROVE Tasks'
<1>1. \A o \in Operation, me \in Task : Ready(o, me) => Ready(o, me)'
  BY ReadyStays
<1>2. CASE UNCHANGED task
  BY <1>1, <1>2 DEF Tasks
<1>3. ASSUME NEW o \in Operation, NEW me \in Task \cup {None}, me # None => Ready(o, me)',
             task' = [task EXCEPT ![o] = me]
      PROVE  Tasks'
  BY <1>1, <1>3 DEF Tasks
<1> QED  BY <1>2, <1>3 DEF Moves

-----------------------------------------------------------------------------
(* What a step that leaves a group of tables alone keeps.                   *)

LEMMA WindowsStay ==
  ASSUME Windows, UNCHANGED <<finding, day, born, capture>>, clock' \in Nat
  PROVE  Windows'
BY DEF Windows, Contemporaneous

LEMMA IntentsStay == ASSUME Intents, UNCHANGED proofVars PROVE Intents'
BY DEF Intents, proofVars, Intended, Completed, Archived

LEMMA ExportsStay == ASSUME Exports, Lasts, UNCHANGED exportVars PROVE Exports'
<1>1. ASSUME NEW r \in released PROVE r.op \in Operation /\ HandedOut(r.op, r.target)'
  <2>1. PICK o, target : o = r.op /\ target = r.target
    OBVIOUS
  <2>2. o \in Operation /\ HandedOut(o, target)
    BY <2>1 DEF Exports
  <2>3. HandedOut(o, target)'
    BY <2>2, HandedOutStays
  <2> QED  BY <2>1, <2>2, <2>3 DEF HandedOut, Settled, Completed, Originals
<1> QED  BY <1>1 DEF Exports, exportVars

LEMMA CaseStays ==
  ASSUME IndustrialClaimsAssumption, PInv, UNCHANGED <<vars, born>>
  PROVE  IInv' /\ vault \subseteq vault' /\ UNCHANGED <<born, outcome, finding>>
BY StutterKeeps DEF PInv, vars

LEMMA AllTogether ==
  ASSUME PInv, Lasts, IInv', Windows', Intents', Exports', Moves
  PROVE  PInv'
BY TasksStay DEF PInv

(* A call that only prepares, or ends.                                      *)
Prepares ==
  \/ UNCHANGED task
  \/ \E o \in Operation, me \in Task \cup {None} :
       (me # None => Ready(o, me)) /\ task' = [task EXCEPT ![o] = me]

LEMMA PreparesMoves == ASSUME Lasts, Prepares PROVE Moves
BY ReadyStays DEF Prepares, Moves

LEMMA QuietKeeps ==
  ASSUME IndustrialClaimsAssumption, PInv, clock' \in Nat, Prepares,
         UNCHANGED <<vars, day, born, capture, proofVars, exportVars>>
  PROVE  PInv'
<1>1. IInv' /\ UNCHANGED <<finding, outcome, vault>>
  BY CaseStays DEF vars
<1>2. Lasts
  BY <1>1 DEF Lasts, proofVars, exportVars, Intended, Archived
<1>3. Windows' /\ Intents' /\ Exports'
  BY <1>1, <1>2, WindowsStay, IntentsStay, ExportsStay DEF PInv
<1> QED  BY <1>1, <1>2, <1>3, PreparesMoves, AllTogether

(* A call that writes the row of a window.                                  *)
LEMMA WindowKeeps ==
  ASSUME IndustrialClaimsAssumption, PInv, clock' \in Nat, Prepares,
         UNCHANGED <<vars, day, born, proofVars, exportVars>>,
         NEW id \in Id, NEW row \in Capture, born[id] \in Nat,
         capture' = [capture EXCEPT ![id] = row],
         \A i \in DOMAIN row.facts : row.facts[i].day <= born[id] + WindowDays,
         \A i \in DOMAIN row.late : row.late[i].day > born[id] + WindowDays
  PROVE  PInv'
<1>1. IInv' /\ UNCHANGED <<finding, outcome, vault>>
  BY CaseStays DEF vars
<1>2. capture \in [Id -> Capture \cup {None}]
  BY DEF PInv, Windows
<1>3. Lasts
  BY <1>1, <1>2 DEF Lasts, proofVars, exportVars, Intended, Archived
<1>4. Windows'
  <2>1. Contemporaneous'
    BY <1>2 DEF PInv, Windows, Contemporaneous
  <2> QED  BY <1>1, <1>2, <2>1 DEF PInv, Windows
<1>5. Intents' /\ Exports'
  BY <1>1, <1>3, IntentsStay, ExportsStay DEF PInv
<1> QED  BY <1>1, <1>3, <1>4, <1>5, PreparesMoves, AllTogether

(* A call that writes the ledger, the archive or an export.                 *)
LEMMA LedgerKeeps ==
  ASSUME IndustrialClaimsAssumption, PInv, Intents', Moves,
         UNCHANGED <<vars, day, born, captureVars, exportVars>>,
         \A o \in Operation, t \in Targets : Intended(o, t) => Intended(o, t)',
         asked \subseteq asked',
         \A o \in Operation : Archived(o) # {} => Archived(o)' # {}
  PROVE  PInv'
<1>1. IInv' /\ UNCHANGED <<finding, outcome, vault>>
  BY CaseStays DEF vars
<1>2. Lasts
  BY <1>1 DEF Lasts, captureVars, exportVars
<1>3. Windows' /\ Exports'
  BY <1>1, <1>2, WindowsStay, ExportsStay DEF PInv, Windows, captureVars
<1> QED  BY <1>1, <1>2, <1>3, AllTogether

LEMMA ExportKeeps ==
  ASSUME IndustrialClaimsAssumption, PInv, Exports', Moves,
         UNCHANGED <<vars, day, born, captureVars, proofVars>>,
         \A o \in Operation : Completed(exports, o) => Completed(exports', o)
  PROVE  PInv'
<1>1. IInv' /\ UNCHANGED <<finding, outcome, vault>>
  BY CaseStays DEF vars
<1>2. Lasts
  BY <1>1 DEF Lasts, captureVars, proofVars, Intended, Archived
<1>3. Windows' /\ Intents'
  BY <1>1, WindowsStay, IntentsStay DEF PInv, Windows, captureVars
<1> QED  BY <1>1, <1>2, <1>3, AllTogether

-----------------------------------------------------------------------------
(* Entries, sheets and windows.                                             *)

LEMMA WindowFields ==
  ASSUME NEW w \in Capture
  PROVE  /\ w.facts \in Seq(Instant) /\ w.late \in Seq(Instant) /\ w.sheets \in Nat
         /\ \A s \in Seq(Instant) : [w EXCEPT !.facts = s] \in Capture
         /\ \A s \in Seq(Instant) : [w EXCEPT !.late = s] \in Capture
         /\ [w EXCEPT !.sheets = @ + 1] \in Capture
         /\ [w EXCEPT !.stamped = @ \cup {SheetSubject}] \in Capture
<1>1. /\ w = [facts |-> w.facts, late |-> w.late, sheets |-> w.sheets, stamped |-> w.stamped]
      /\ w.facts \in Seq(Instant) /\ w.late \in Seq(Instant) /\ w.sheets \in Nat
      /\ w.stamped \in SUBSET {"vindorum", "causledger"}
  BY DEF Capture
<1>2. /\ \A s \in Seq(Instant) : [w EXCEPT !.facts = s] \in Capture
      /\ \A s \in Seq(Instant) : [w EXCEPT !.late = s] \in Capture
  BY <1>1 DEF Capture
<1>3. w.sheets + 1 \in Nat
  BY <1>1
<1>4. [w EXCEPT !.sheets = @ + 1] \in Capture
  BY <1>1, <1>3 DEF Capture
<1>5. w.stamped \cup {SheetSubject} \in SUBSET {"vindorum", "causledger"}
  BY <1>1 DEF SheetSubject
<1>6. [w EXCEPT !.stamped = @ \cup {SheetSubject}] \in Capture
  <2>1. PICK stamped : stamped = w.stamped \cup {SheetSubject}
    OBVIOUS
  <2>2. [w EXCEPT !.stamped = stamped] \in Capture
    BY <1>1, <1>5, <2>1 DEF Capture
  <2> QED  BY <2>1, <2>2
<1> QED  BY <1>1, <1>2, <1>4, <1>6

LEMMA EndPrepares ==
  ASSUME NEW o \in Operation, task' = [task EXCEPT ![o] = None] PROVE Prepares
BY DEF Prepares

LEMMA BeginEntryKeeps ==
  ASSUME IndustrialClaimsAssumption, PInv, NEW o \in Operation, NEW id \in Id,
         BeginFact(o, id) \/ BeginSupplement(o, id)
  PROVE  PInv'
<1>1. day \in Nat /\ clock \in Nat /\ capture[id] \in Capture /\ born[id] \in Nat
  BY DEF PInv, Windows, BeginFact, BeginSupplement
<1>2. PICK at : at = [day |-> day, at |-> clock]
  OBVIOUS
<1>3. at \in Instant /\ at.day = day
  BY <1>1, <1>2 DEF Instant
<1>4. PICK pc \in {"fact", "late"} :
        /\ BeginEntry(o, id, pc)
        /\ pc = "fact" => WindowOpen(id)
        /\ pc = "late" => ~WindowOpen(id)
  BY DEF BeginFact, BeginSupplement
<1> DEFINE me == [pc |-> pc, id |-> id, at |-> at]
<1>5. me \in Task
  BY <1>3 DEF Task
<1>6. Ready(o, me)
  <2>1. me.pc = pc /\ me.id = id /\ me.at = at
    OBVIOUS
  <2>2. pc = "fact" => at.day <= born[id] + WindowDays
    BY <1>3, <1>4 DEF WindowOpen
  <2>3. pc = "late" => at.day > born[id] + WindowDays
    BY <1>1, <1>3, <1>4, ClaimProofsAssumption DEF WindowOpen
  <2> QED  BY <1>1, <2>1, <2>2, <2>3 DEF Ready
<1>7. task' = [task EXCEPT ![o] = me] /\ clock' = clock + 1
      /\ UNCHANGED <<vars, day, born, capture, proofVars, exportVars>>
  BY <1>2, <1>4 DEF BeginEntry, Proceed
<1>8. Prepares
  BY <1>5, <1>6, <1>7 DEF Prepares
<1> QED  BY <1>1, <1>7, <1>8, QuietKeeps

LEMMA CommitEntryKeeps ==
  ASSUME IndustrialClaimsAssumption, PInv, NEW o \in Operation,
         CommitFact(o) \/ CommitSupplement(o)
  PROVE  PInv'
<1> DEFINE me == task[o]
<1>1. me \in Task /\ Ready(o, me) /\ me.pc \in {"fact", "late"}
  BY DEF PInv, Tasks, CommitFact, CommitSupplement
<1>2. PICK id, w, at : id = me.id /\ w = capture[me.id] /\ at = me.at
  OBVIOUS
<1>3. /\ id \in Id /\ at \in Instant /\ w \in Capture /\ w = capture[id]
      /\ born[id] \in Nat /\ clock \in Nat
  BY <1>1, <1>2, TaskFields DEF Ready, PInv, Windows
<1>4. /\ \A i \in DOMAIN w.facts : w.facts[i].day <= born[id] + WindowDays
      /\ \A i \in DOMAIN w.late : w.late[i].day > born[id] + WindowDays
  <2>1. capture[id] # None
    BY <1>3, ClaimProofsAssumption
  <2> QED  BY <1>3, <2>1 DEF PInv, Windows, Contemporaneous
<1>5. task' = [task EXCEPT ![o] = None] /\ UNCHANGED <<vars, day, born, clock, proofVars, exportVars>>
  BY DEF CommitFact, CommitSupplement, Proceed
<1>6. CASE CommitFact(o)
  <2>1. PICK row : row = [w EXCEPT !.facts = Append(@, at)]
    OBVIOUS
  <2>2. capture' = [capture EXCEPT ![id] = row]
    BY <1>2, <1>6, <2>1 DEF CommitFact, RecordedAt
  <2>3. /\ row \in Capture /\ row.facts = Append(w.facts, at) /\ row.late = w.late
    BY <1>3, <2>1, WindowFields, AppendRow DEF Capture
  <2>4. at.day <= born[id] + WindowDays
    BY <1>1, <1>2, <1>6 DEF Ready, CommitFact
  <2>5. \A i \in DOMAIN row.facts : row.facts[i].day <= born[id] + WindowDays
    BY <1>3, <1>4, <2>3, <2>4, WindowFields, AppendRow
  <2> QED  BY <1>3, <1>4, <1>5, <2>2, <2>3, <2>5, EndPrepares, WindowKeeps
<1>7. CASE CommitSupplement(o)
  <2>1. PICK row : row = [w EXCEPT !.late = Append(@, at)]
    OBVIOUS
  <2>2. capture' = [capture EXCEPT ![id] = row]
    BY <1>2, <1>7, <2>1 DEF CommitSupplement, RecordedAt
  <2>3. /\ row \in Capture /\ row.late = Append(w.late, at) /\ row.facts = w.facts
    BY <1>3, <2>1, WindowFields, AppendRow DEF Capture
  <2>4. at.day > born[id] + WindowDays
    BY <1>1, <1>2, <1>7 DEF Ready, CommitSupplement
  <2>5. \A i \in DOMAIN row.late : row.late[i].day > born[id] + WindowDays
    BY <1>3, <1>4, <2>3, <2>4, WindowFields, AppendRow
  <2> QED  BY <1>3, <1>4, <1>5, <2>2, <2>3, <2>5, EndPrepares, WindowKeeps
<1> QED  BY <1>6, <1>7

LEMMA SheetKeeps ==
  ASSUME IndustrialClaimsAssumption, PInv, NEW o \in Operation,
         RecordDownload(o) \/ \E id \in Id : StampSheet(o, id)
  PROVE  PInv'
<1>1. clock \in Nat /\ UNCHANGED <<vars, day, born, clock, proofVars, exportVars>>
  BY DEF PInv, Windows, RecordDownload, StampSheet, Proceed
<1>2. ASSUME NEW id \in Id, StampSheet(o, id) PROVE PInv'
  <2>1. PICK w, row : w = capture[id] /\ row = [w EXCEPT !.stamped = @ \cup {SheetSubject}]
    OBVIOUS
  <2>2. capture[id] # None /\ w \in Capture /\ born[id] \in Nat
    BY <1>2, <2>1 DEF StampSheet, PInv, Windows
  <2>3. row \in Capture /\ row.facts = w.facts /\ row.late = w.late
    BY <2>1, <2>2, WindowFields DEF Capture
  <2>4. capture' = [capture EXCEPT ![id] = row]
    BY <1>2, <2>1 DEF StampSheet
  <2> DEFINE me == [pc |-> "sheet", id |-> id]
  <2>5. me \in Task /\ Ready(o, me)
    BY <2>1, <2>2 DEF Task, Ready
  <2>6. Prepares
    BY <1>2, <2>5 DEF Prepares, StampSheet, Proceed
  <2>7. /\ \A i \in DOMAIN row.facts : row.facts[i].day <= born[id] + WindowDays
        /\ \A i \in DOMAIN row.late : row.late[i].day > born[id] + WindowDays
    BY <2>1, <2>2, <2>3 DEF PInv, Windows, Contemporaneous
  <2> QED  BY <1>1, <2>2, <2>3, <2>4, <2>6, <2>7, WindowKeeps
<1>3. ASSUME RecordDownload(o) PROVE PInv'
  <2>1. task[o] \in Task /\ Ready(o, task[o]) /\ task[o].pc = "sheet"
    BY <1>3 DEF PInv, Tasks, RecordDownload
  <2>2. PICK id, w, row :
          id = task[o].id /\ w = capture[id] /\ row = [w EXCEPT !.sheets = @ + 1]
    OBVIOUS
  <2>3. id \in Id /\ w \in Capture
    BY <2>1, <2>2, TaskFields DEF Ready
  <2>4. row \in Capture /\ row.facts = w.facts /\ row.late = w.late
    BY <2>2, <2>3, WindowFields DEF Capture
  <2>5. capture' = [capture EXCEPT ![id] = row] /\ task' = [task EXCEPT ![o] = None]
    BY <1>3, <2>2 DEF RecordDownload, Proceed
  <2>6. capture[id] # None
    BY <2>2, <2>3, ClaimProofsAssumption
  <2>7. /\ born[id] \in Nat
        /\ \A i \in DOMAIN row.facts : row.facts[i].day <= born[id] + WindowDays
        /\ \A i \in DOMAIN row.late : row.late[i].day > born[id] + WindowDays
    BY <2>2, <2>3, <2>4, <2>6 DEF PInv, Windows, Contemporaneous
  <2> QED  BY <1>1, <2>3, <2>4, <2>5, <2>7, EndPrepares, WindowKeeps
<1> QED  BY <1>2, <1>3

LEMMA OpenWindowKeeps ==
  ASSUME IndustrialClaimsAssumption, PInv, NEW id \in Id, OpenWindow(id)
  PROVE  PInv'
<1> DEFINE row == [facts |-> <<>>, late |-> <<>>, sheets |-> 0, stamped |-> {}]
<1>1. row \in Capture
  BY DEF Capture
<1>2. /\ \A i \in DOMAIN row.facts : row.facts[i].day <= born[id] + WindowDays
      /\ \A i \in DOMAIN row.late : row.late[i].day > born[id] + WindowDays
  OBVIOUS
<1>3. born[id] \in Nat /\ clock \in Nat
  BY DEF OpenWindow, PInv, Windows
<1>4. /\ capture' = [capture EXCEPT ![id] = row] /\ Prepares
      /\ UNCHANGED <<vars, day, born, clock, proofVars, exportVars>>
  BY DEF OpenWindow, Prepares
<1> QED  BY <1>1, <1>2, <1>3, <1>4, WindowKeeps

-----------------------------------------------------------------------------
(* External proofs.                                                         *)

(* A call that starts on a target.                                          *)
LEMMA BeginTargetKeeps ==
  ASSUME IndustrialClaimsAssumption, PInv, NEW o \in Operation, NEW id \in Id,
         BeginExternalize(o, id) \/ BeginExport(o, id)
  PROVE  PInv'
<1>1. PICK target : target = Target(id)
  OBVIOUS
<1>2. target \in Targets
  BY <1>1, TargetTyped DEF PInv
<1>3. Settled(target)
  BY <1>1 DEF Settled, Target, OutcomesOf
<1>4. PICK pc \in {"confirmed", "export"} :
        task' = [task EXCEPT ![o] =
          [pc |-> pc, id |-> id, target |-> target, head |-> 0, receipts |-> None]]
  BY <1>1 DEF BeginExternalize, BeginExport, Proceed
<1> DEFINE me == [pc |-> pc, id |-> id, target |-> target, head |-> 0, receipts |-> None]
<1>5. me \in Task
  BY <1>2 DEF Task, Steps
<1>6. Ready(o, me)
  BY <1>3 DEF Ready
<1>7. Prepares
  BY <1>4, <1>5, <1>6 DEF Prepares
<1>8. clock' \in Nat /\ UNCHANGED <<vars, day, born, capture, proofVars, exportVars>>
  BY DEF PInv, Windows, BeginExternalize, BeginExport, Proceed, captureVars
<1> QED  BY <1>7, <1>8, QuietKeeps

(* The record of a call that works on a target.                             *)
Work ==
  [pc : Steps, id : Id, target : Targets, head : Nat, receipts : Receipts \cup {None}]

LEMMA WorkTask ==
  /\ Work \subseteq Task
  /\ \A me \in Task : me.pc \in Steps => me \in Work
BY DEF Task, Steps, Work

(* The call moves on with what it has.                                      *)
LEMMA TaskMoved ==
  ASSUME NEW me \in Task, me.pc \in Steps, NEW pc \in Steps
  PROVE  LET next == [me EXCEPT !.pc = pc] IN
         next \in Task /\ next.target = me.target /\ next.pc = pc
<1>1. me \in Work
  BY WorkTask
<1> QED  BY <1>1, WorkTask DEF Work

LEMMA RunningTask ==
  ASSUME PInv, NEW o \in Operation, task[o] # None, task[o].pc \in Steps
  PROVE  /\ task[o] \in Task /\ Ready(o, task[o]) /\ task[o].target \in Targets
         /\ task[o].receipts \in Receipts \cup {None}
BY TaskFields DEF PInv, Tasks

(* A row appended to the ledger.                                            *)
LEMMA LedgerAppended ==
  ASSUME PInv, NEW row \in Row, ledger' = Append(ledger, row),
         UNCHANGED <<archive, asked>>,
         row.state = "COMPLETED" => Archived(row.op) # {}
  PROVE  /\ Intents'
         /\ \A o \in Operation, t \in Targets : Intended(o, t) => Intended(o, t)'
         /\ row.state = "STARTED" => Intended(row.op, row.target)'
<1>1. ledger \in Seq(Row)
  BY DEF PInv, Intents
<1>2. /\ ledger' \in Seq(Row)
      /\ \A i \in DOMAIN ledger : i \in DOMAIN ledger' /\ ledger'[i] = ledger[i]
      /\ \A i \in DOMAIN ledger' : i \in DOMAIN ledger \/ ledger'[i] = row
      /\ \E i \in DOMAIN ledger' : ledger'[i] = row
  BY <1>1, AppendRow
<1>3. \A o, t : Intended(o, t) => Intended(o, t)'
  BY <1>2 DEF Intended
<1>4. row.state = "STARTED" => Intended(row.op, row.target)'
  BY <1>2 DEF Intended
<1>5. \A a \in asked : Intended(a.op, a.target)'
  BY <1>3 DEF PInv, Intents
<1>6. \A o \in Operation : Completed(ledger', o) => Archived(o) # {}
  BY <1>2 DEF PInv, Intents, Completed
<1>7. \A o : Archived(o)' = Archived(o)
  BY DEF Archived
<1>8. Intents'
  <2>1. \A o \in Operation : Completed(ledger, o)' => Archived(o)' # {}
    BY <1>6, <1>7 DEF Completed
  <2> QED  BY <1>2, <1>5, <2>1 DEF PInv, Intents
<1> QED  BY <1>3, <1>4, <1>8

LEMMA StartOperationKeeps ==
  ASSUME IndustrialClaimsAssumption, PInv, NEW o \in Operation, StartOperation(o)
  PROVE  PInv'
<1>1. PICK me, row, next :
        me = task[o] /\ row = Event(me, o, "STARTED") /\ next = [me EXCEPT !.pc = "started"]
  OBVIOUS
<1>2. me # None /\ me.pc = "confirmed" /\ me.pc \in Steps /\ "started" \in Steps
  BY <1>1 DEF StartOperation, Steps
<1>3. me \in Task /\ me.target \in Targets
  BY <1>1, <1>2, RunningTask
<1>4. row \in Row /\ row.op = o /\ row.state = "STARTED" /\ row.target = me.target
  BY <1>1, <1>2, <1>3, EventTyped
<1>5. next \in Task /\ next.pc = "started" /\ next.target = me.target
  BY <1>1, <1>2, <1>3, TaskMoved
<1>6. /\ ledger' = Append(ledger, row) /\ task' = [task EXCEPT ![o] = next]
      /\ UNCHANGED <<vars, day, born, captureVars, archive, asked, exportVars>>
  BY <1>1 DEF StartOperation, Proceed
<1>7. /\ Intents' /\ Intended(o, next.target)'
      /\ \A q \in Operation, t \in Targets : Intended(q, t) => Intended(q, t)'
  BY <1>4, <1>5, <1>6, LedgerAppended
<1>8. Ready(o, next)'
  BY <1>5, <1>7 DEF Ready
<1>9. Moves
  BY <1>5, <1>6, <1>8 DEF Moves
<1> QED  BY <1>6, <1>7, <1>9, LedgerKeeps DEF Archived

LEMMA AskKeeps ==
  ASSUME IndustrialClaimsAssumption, PInv, NEW o \in Operation, AskProviders(o)
  PROVE  PInv'
<1>0. PICK me, a : me = task[o] /\ a = [op |-> o, target |-> me.target]
  OBVIOUS
<1>1. PICK r \in Receipts :
        /\ me = task[o] /\ a = [op |-> o, target |-> me.target]
        /\ task' = [task EXCEPT ![o] = [me EXCEPT !.pc = "asked", !.receipts = r]]
  BY <1>0 DEF AskProviders, Proceed
<1>2. me # None /\ me.pc = "started" /\ me.pc \in Steps /\ "asked" \in Steps
  BY <1>1 DEF AskProviders, MayAsk, Steps
<1>3. me \in Task /\ Ready(o, me) /\ me.target \in Targets
  BY <1>1, <1>2, RunningTask
<1>4. Intended(a.op, a.target)
  BY <1>1, <1>2, <1>3 DEF Ready
<1>5. PICK next : next = [me EXCEPT !.pc = "asked", !.receipts = r]
  OBVIOUS
<1>6. next \in Task /\ next.pc = "asked" /\ next.target = me.target
  <2>1. me \in Work
    BY <1>2, <1>3, WorkTask
  <2>2. next \in Work /\ next.pc = "asked" /\ next.target = me.target
    BY <1>2, <1>5, <2>1 DEF Work
  <2> QED  BY <2>2, WorkTask
<1>7. /\ asked' = asked \cup {a}
      /\ UNCHANGED <<vars, day, born, captureVars, ledger, archive, exportVars>>
  BY <1>1 DEF AskProviders, Proceed
<1>8. Intents'
  <2>1. \A q, t : Intended(q, t)' <=> Intended(q, t)
    BY <1>7 DEF Intended
  <2>2. \A b \in asked' : Intended(b.op, b.target)'
    BY <1>4, <1>7, <2>1 DEF PInv, Intents
  <2>3. \A q \in Operation : Completed(ledger, q)' => Archived(q)' # {}
    BY <1>7 DEF PInv, Intents, Completed, Archived
  <2> QED  BY <1>7, <2>2, <2>3 DEF PInv, Intents
<1>9. Ready(o, next)'
  BY <1>1, <1>6, <1>7 DEF Ready
<1>10. Moves
  BY <1>1, <1>5, <1>6, <1>9 DEF Moves
<1> QED  BY <1>7, <1>8, <1>10, LedgerKeeps DEF Archived, Intended

LEMMA RebuildKeeps ==
  ASSUME IndustrialClaimsAssumption, PInv, NEW o \in Operation, Rebuild(o)
  PROVE  PInv'
<1>1. PICK me, next : me = task[o] /\ next = [me EXCEPT !.pc = "proven"]
  OBVIOUS
<1>2. me # None /\ me.pc = "asked" /\ me.pc \in Steps /\ "proven" \in Steps
  BY <1>1 DEF Rebuild, Steps
<1>3. me \in Task /\ Ready(o, me)
  BY <1>1, <1>2, RunningTask
<1>4. next \in Task /\ next.pc = "proven" /\ next.target = me.target
  BY <1>1, <1>2, <1>3, TaskMoved
<1>5. Ready(o, next)
  BY <1>2, <1>3, <1>4 DEF Ready
<1>6. Prepares
  BY <1>1, <1>4, <1>5 DEF Prepares, Rebuild, Proceed
<1>7. clock' \in Nat /\ UNCHANGED <<vars, day, born, capture, proofVars, exportVars>>
  BY DEF PInv, Windows, Rebuild, Proceed, captureVars
<1> QED  BY <1>6, <1>7, QuietKeeps

LEMMA ArchiveKeeps ==
  ASSUME IndustrialClaimsAssumption, PInv, NEW o \in Operation, ArchiveOperation(o)
  PROVE  PInv'
<1>1. PICK me, row, n, next :
        /\ me = task[o] /\ n = Len(archive) + 1
        /\ row = [op |-> o, target |-> me.target, receipts |-> me.receipts]
        /\ next = [me EXCEPT !.pc = "archived", !.head = n]
  OBVIOUS
<1>2. me # None /\ me.pc = "proven" /\ me.pc \in Steps /\ "archived" \in Steps
  BY <1>1 DEF ArchiveOperation, Steps
<1>3. /\ me \in Task /\ Ready(o, me) /\ me.target \in Targets
      /\ me.receipts \in Receipts \cup {None}
  BY <1>1, <1>2, RunningTask
<1>4. row \in ArchiveRow /\ archive \in Seq(ArchiveRow) /\ n \in Nat
  BY <1>1, <1>3 DEF ArchiveRow, PInv, Intents
<1>5. next \in Task /\ next.pc = "archived"
  <2>1. me \in Work
    BY <1>2, <1>3, WorkTask
  <2>2. next \in Work /\ next.pc = "archived"
    BY <1>1, <1>2, <1>4, <2>1 DEF Work
  <2> QED  BY <2>2, WorkTask
<1>6. /\ archive' = Append(archive, row) /\ task' = [task EXCEPT ![o] = next]
      /\ UNCHANGED <<vars, day, born, captureVars, ledger, asked, exportVars>>
  BY <1>1 DEF ArchiveOperation, Proceed
<1>7. /\ archive' \in Seq(ArchiveRow)
      /\ \A i \in DOMAIN archive : i \in DOMAIN archive' /\ archive'[i] = archive[i]
      /\ \A i \in DOMAIN archive' : i \in DOMAIN archive \/ archive'[i] = row
      /\ n \in DOMAIN archive' /\ archive'[n] = row
  BY <1>1, <1>4, <1>6, AppendRow
<1>8. \A q \in Operation : Archived(q) # {} => Archived(q)' # {}
  BY <1>7 DEF Archived
<1>9. Archived(o)' # {}
  BY <1>1, <1>7 DEF Archived
<1>10. Intents'
  <2>1. [op |-> row.op, target |-> row.target] \in asked
    BY <1>1, <1>2, <1>3 DEF Ready
  <2>2. \A i \in DOMAIN archive' :
          [op |-> archive'[i].op, target |-> archive'[i].target] \in asked'
    BY <1>6, <1>7, <2>1 DEF PInv, Intents
  <2>3. \A a \in asked' : Intended(a.op, a.target)'
    BY <1>6 DEF PInv, Intents, Intended
  <2>4. \A q \in Operation : Completed(ledger, q)' => Archived(q)' # {}
    BY <1>6, <1>8 DEF PInv, Intents, Completed
  <2> QED  BY <1>6, <1>7, <2>2, <2>3, <2>4 DEF PInv, Intents
<1>11. Ready(o, next)'
  BY <1>5, <1>9 DEF Ready
<1>12. Moves
  BY <1>5, <1>6, <1>11 DEF Moves
<1> QED  BY <1>6, <1>8, <1>10, <1>12, LedgerKeeps DEF Intended

LEMMA CloseOperationKeeps ==
  ASSUME IndustrialClaimsAssumption, PInv, NEW o \in Operation,
         CompleteOperation(o) \/ FailOperation(o)
  PROVE  PInv'
<1>0. PICK me : me = task[o]
  OBVIOUS
<1>1. PICK state \in {"COMPLETED", "FAILED"} :
        /\ me = task[o] /\ me # None /\ me.pc \in Steps
        /\ state = "COMPLETED" => me.pc = "archived"
        /\ ledger' = Append(ledger, Event(me, o, state))
        /\ task' = [task EXCEPT ![o] = None]
        /\ UNCHANGED <<vars, day, born, captureVars, archive, asked, exportVars>>
  BY <1>0 DEF CompleteOperation, FailOperation, Proceed, Steps
<1>2. PICK row : row = Event(me, o, state)
  OBVIOUS
<1>3. me \in Task /\ Ready(o, me)
  BY <1>1, RunningTask
<1>4. row \in Row /\ row.op = o /\ row.state = state
  BY <1>1, <1>2, <1>3, EventTyped
<1>5. row.state = "COMPLETED" => Archived(row.op) # {}
  BY <1>1, <1>3, <1>4 DEF Ready
<1>6. Intents' /\ \A q \in Operation, t \in Targets : Intended(q, t) => Intended(q, t)'
  BY <1>1, <1>2, <1>4, <1>5, LedgerAppended
<1>7. Moves
  BY <1>1 DEF Moves
<1> QED  BY <1>1, <1>6, <1>7, LedgerKeeps DEF Archived

-----------------------------------------------------------------------------
(* Exports.                                                                 *)

LEMMA ExportAppended ==
  ASSUME PInv, NEW row \in Row, exports' = Append(exports, row),
         UNCHANGED <<released, outcome, vault>>
  PROVE  /\ Exports'
         /\ \A o \in Operation : Completed(exports, o) => Completed(exports', o)
         /\ row.state = "COMPLETED" => Completed(exports', row.op)
<1>1. exports \in Seq(Row)
  BY DEF PInv, Exports
<1>2. /\ exports' \in Seq(Row)
      /\ \A i \in DOMAIN exports : i \in DOMAIN exports' /\ exports'[i] = exports[i]
      /\ \E i \in DOMAIN exports' : exports'[i] = row
  BY <1>1, AppendRow
<1>3. \A o : Completed(exports, o) => Completed(exports', o)
  BY <1>2 DEF Completed
<1>4. row.state = "COMPLETED" => Completed(exports', row.op)
  BY <1>2 DEF Completed
<1>5. ASSUME NEW r \in released PROVE r.op \in Operation /\ HandedOut(r.op, r.target)'
  <2>1. r.op \in Operation /\ HandedOut(r.op, r.target)
    BY DEF PInv, Exports
  <2>2. Completed(exports', r.op)
    BY <1>3, <2>1 DEF HandedOut
  <2> QED  BY <2>1, <2>2 DEF HandedOut, Settled, Originals, Completed
<1> QED  BY <1>2, <1>3, <1>4, <1>5 DEF Exports

LEMMA StartExportKeeps ==
  ASSUME IndustrialClaimsAssumption, PInv, NEW o \in Operation, StartExport(o)
  PROVE  PInv'
<1>1. PICK me, row, next :
        me = task[o] /\ row = Event(me, o, "STARTED") /\ next = [me EXCEPT !.pc = "reading"]
  OBVIOUS
<1>2. me # None /\ me.pc = "export" /\ me.pc \in Steps /\ "reading" \in Steps
  BY <1>1 DEF StartExport, Steps
<1>3. me \in Task /\ Ready(o, me)
  BY <1>1, <1>2, RunningTask
<1>4. row \in Row
  BY <1>1, <1>2, <1>3, EventTyped
<1>5. next \in Task /\ next.pc = "reading" /\ next.target = me.target
  BY <1>1, <1>2, <1>3, TaskMoved
<1>6. /\ exports' = Append(exports, row) /\ task' = [task EXCEPT ![o] = next]
      /\ UNCHANGED <<vars, day, born, captureVars, proofVars, released>>
  BY <1>1 DEF StartExport, Proceed
<1>7. Exports' /\ \A q \in Operation : Completed(exports, q) => Completed(exports', q)
  BY <1>4, <1>6, ExportAppended DEF vars
<1>8. Ready(o, next)'
  BY <1>2, <1>3, <1>5, <1>6 DEF Ready, Settled, vars
<1>9. Moves
  BY <1>5, <1>6, <1>8 DEF Moves
<1> QED  BY <1>6, <1>7, <1>9, ExportKeeps

LEMMA CompleteExportKeeps ==
  ASSUME IndustrialClaimsAssumption, PInv, NEW o \in Operation, CompleteExport(o)
  PROVE  PInv'
<1>1. PICK me, row, next :
        me = task[o] /\ row = Event(me, o, "COMPLETED") /\ next = [me EXCEPT !.pc = "bundled"]
  OBVIOUS
<1>2. me # None /\ me.pc = "reading" /\ me.pc \in Steps /\ "bundled" \in Steps
  BY <1>1 DEF CompleteExport, Steps
<1>3. me \in Task /\ Ready(o, me)
  BY <1>1, <1>2, RunningTask
<1>4. row \in Row /\ row.op = o /\ row.state = "COMPLETED"
  BY <1>1, <1>2, <1>3, EventTyped
<1>5. next \in Task /\ next.pc = "bundled" /\ next.target = me.target
  BY <1>1, <1>2, <1>3, TaskMoved
<1>6. /\ exports' = Append(exports, row) /\ task' = [task EXCEPT ![o] = next]
      /\ UNCHANGED <<vars, day, born, captureVars, proofVars, released>>
      /\ Originals(me.target) \subseteq vault
  BY <1>1 DEF CompleteExport, Proceed, Bundled
<1>7. /\ Exports' /\ Completed(exports', o)
      /\ \A q \in Operation : Completed(exports, q) => Completed(exports', q)
  BY <1>4, <1>6, ExportAppended DEF vars
<1>8. Ready(o, next)'
  <2>1. Settled(me.target)
    BY <1>2, <1>3 DEF Ready
  <2>2. HandedOut(o, next.target)'
    BY <1>5, <1>6, <1>7, <2>1 DEF HandedOut, Settled, Originals, Completed, vars
  <2> QED  BY <1>5, <2>2 DEF Ready
<1>9. Moves
  BY <1>5, <1>6, <1>8 DEF Moves
<1> QED  BY <1>6, <1>7, <1>9, ExportKeeps

LEMMA ReleaseKeeps ==
  ASSUME IndustrialClaimsAssumption, PInv, NEW o \in Operation, Release(o)
  PROVE  PInv'
<1>1. PICK me, r : me = task[o] /\ r = [op |-> o, target |-> me.target]
  OBVIOUS
<1>2. me # None /\ me.pc = "bundled" /\ me.pc \in Steps
  BY <1>1 DEF Release, Steps
<1>3. HandedOut(r.op, r.target) /\ r.op \in Operation
  BY <1>1, <1>2, RunningTask DEF Ready
<1>4. /\ released' = released \cup {r} /\ task' = [task EXCEPT ![o] = None]
      /\ UNCHANGED <<vars, day, born, captureVars, proofVars, exports>>
  BY <1>1 DEF Release, Proceed
<1>5. Exports'
  <2>1. \A q, t : HandedOut(q, t)' <=> HandedOut(q, t)
    BY <1>4 DEF HandedOut, Settled, Originals, Completed, vars
  <2> QED  BY <1>3, <1>4, <2>1 DEF PInv, Exports
<1>6. Moves
  BY <1>4 DEF Moves
<1> QED  BY <1>4, <1>5, <1>6, ExportKeeps

LEMMA FailExportKeeps ==
  ASSUME IndustrialClaimsAssumption, PInv, NEW o \in Operation, FailExport(o)
  PROVE  PInv'
<1>1. PICK me, row : me = task[o] /\ row = Event(me, o, "FAILED")
  OBVIOUS
<1>2. me # None /\ me.pc \in Steps
  BY <1>1 DEF FailExport, Steps
<1>3. row \in Row
  BY <1>1, <1>2, RunningTask, EventTyped
<1>4. /\ exports' = Append(exports, row) /\ task' = [task EXCEPT ![o] = None]
      /\ UNCHANGED <<vars, day, born, captureVars, proofVars, released>>
  BY <1>1 DEF FailExport, Proceed
<1>5. Exports' /\ \A q \in Operation : Completed(exports, q) => Completed(exports', q)
  BY <1>3, <1>4, ExportAppended DEF vars
<1>6. Moves
  BY <1>4 DEF Moves
<1> QED  BY <1>4, <1>5, <1>6, ExportKeeps

-----------------------------------------------------------------------------
(* Requests about the case, days, and calls that are killed.                *)

LEMMA NextLasts ==
  ASSUME IInv, Next
  PROVE  /\ vault \subseteq vault'
         /\ \A q \in Outcome : outcome[q] # None => outcome'[q] = outcome[q]
<1>1. ASSUME NEW c \in Client, CommitResolve(c)
      PROVE  UNCHANGED vault /\ \A q \in Outcome : outcome[q] # None => outcome'[q] = outcome[q]
  BY <1>1 DEF CommitResolve, Writes, IInv, TypeOK
<1>2. ASSUME NEW c \in Client, Start(c) PROVE UNCHANGED <<vault, outcome>>
  BY <1>2 DEF Start, BeginReview, BeginAction, BeginResolve, BeginAmend, BeginCapture,
              BeginProve, Begin
<1>3. ASSUME NEW c \in Client,
             \/ CommitReview(c) \/ CommitAction(c) \/ CommitAmend(c)
             \/ RecordCapture(c) \/ RecordProof(c) \/ Abort(c)
      PROVE  UNCHANGED <<vault, outcome>>
  BY <1>3 DEF CommitReview, CommitAction, CommitAmend, RecordCapture, RecordProof, Abort,
              Writes
<1>4. ASSUME NEW c \in Client, PutOriginal(c)
      PROVE  vault \subseteq vault' /\ UNCHANGED outcome
  BY <1>4 DEF PutOriginal
<1>5. ASSUME NEW case \in Case, NEW claim \in Claim, NEW actor \in Actor,
             CreateCase(case, claim, actor)
      PROVE  UNCHANGED <<vault, outcome>>
  BY <1>5 DEF CreateCase
<1> QED  BY <1>1, <1>2, <1>3, <1>4, <1>5 DEF Next

LEMMA CaseRequestKeeps ==
  ASSUME IndustrialClaimsAssumption, PInv, CaseRequest
  PROVE  PInv'
<1>1. Next /\ UNCHANGED <<day, captureVars, proofVars, exportVars, task>>
  BY DEF CaseRequest
<1>2. IInv'
  BY <1>1, StepKeeps DEF PInv
<1>3. /\ vault \subseteq vault'
      /\ \A q \in Outcome : outcome[q] # None => outcome'[q] = outcome[q]
  BY <1>1, NextLasts DEF PInv
<1>4. /\ born \in [Id -> Nat \cup {None}] /\ day \in Nat
      /\ \A id \in Id : finding[id] # None \/ capture[id] # None => born[id] \in Nat
  BY DEF PInv, Windows
<1>5. /\ born' \in [Id -> Nat \cup {None}]
      /\ \A id \in Id : born[id] \in Nat => born'[id] = born[id]
      /\ \A id \in Id : finding'[id] # None => born'[id] \in Nat
  BY <1>4, ClaimProofsAssumption DEF CaseRequest
<1>6. Lasts
  BY <1>1, <1>3, <1>5 DEF Lasts, captureVars, proofVars, exportVars, Intended, Archived
<1>7. Windows'
  BY <1>1, <1>4, <1>5 DEF PInv, Windows, Contemporaneous, captureVars
<1>8. Intents' /\ Exports'
  BY <1>1, <1>6, IntentsStay, ExportsStay DEF PInv
<1>9. Moves
  BY <1>1 DEF Moves
<1> QED  BY <1>2, <1>6, <1>7, <1>8, <1>9, AllTogether

LEMMA DayKeeps ==
  ASSUME IndustrialClaimsAssumption, PInv, UNCHANGED <<vars, born, captureVars, proofVars, exportVars, task>>,
         day' \in Nat
  PROVE  PInv'
<1>1. IInv' /\ UNCHANGED <<finding, outcome, vault>>
  BY CaseStays DEF vars
<1>2. Lasts
  BY <1>1 DEF Lasts, captureVars, proofVars, exportVars, Intended, Archived
<1>3. Windows' /\ Intents' /\ Exports'
  BY <1>1, <1>2, IntentsStay, ExportsStay DEF PInv, Windows, Contemporaneous, captureVars
<1>4. Moves
  BY DEF Moves
<1> QED  BY <1>1, <1>2, <1>3, <1>4, AllTogether

LEMMA KillKeeps ==
  ASSUME IndustrialClaimsAssumption, PInv, NEW o \in Operation, Kill(o)
  PROVE  PInv'
<1>1. /\ clock' \in Nat /\ task' = [task EXCEPT ![o] = None]
      /\ UNCHANGED <<vars, day, born, capture, proofVars, exportVars>>
  BY DEF PInv, Windows, Kill, Proceed, captureVars
<1> QED  BY <1>1, EndPrepares, QuietKeeps

-----------------------------------------------------------------------------
LEMMA ProofInitHolds == ASSUME IndustrialClaimsAssumption, ProofInit PROVE PInv
<1>1. IInv
  BY InitHolds DEF ProofInit
<1>2. Windows
  BY ClaimProofsAssumption DEF ProofInit, Init, Windows, Contemporaneous
<1>3. Intents
  BY DEF ProofInit, Intents, Completed
<1>4. Exports
  BY DEF ProofInit, Exports
<1>5. Tasks
  BY DEF ProofInit, Tasks
<1> QED  BY <1>1, <1>2, <1>3, <1>4, <1>5 DEF PInv

LEMMA ProofStepKeeps ==
  ASSUME IndustrialClaimsAssumption, PInv, [ProofNext]_allvars PROVE PInv'
<1>1. CASE CaseRequest
  BY <1>1, CaseRequestKeeps
<1>2. CASE NextDay
  <2>1. day' \in Nat
    BY <1>2 DEF NextDay, PInv, Windows
  <2> QED  BY <1>2, <2>1, DayKeeps DEF NextDay
<1>3. ASSUME NEW id \in Id, OpenWindow(id) PROVE PInv'
  BY <1>3, OpenWindowKeeps
<1>4. ASSUME NEW o \in Operation, Capturing(o) PROVE PInv'
  BY <1>4, BeginEntryKeeps, CommitEntryKeeps, SheetKeeps DEF Capturing
<1>5. ASSUME NEW o \in Operation, Externalizing(o) PROVE PInv'
  BY <1>5, BeginTargetKeeps, StartOperationKeeps, AskKeeps, RebuildKeeps, ArchiveKeeps,
     CloseOperationKeeps DEF Externalizing
<1>6. ASSUME NEW o \in Operation, Exporting(o) PROVE PInv'
  BY <1>6, BeginTargetKeeps, StartExportKeeps, CompleteExportKeeps, ReleaseKeeps,
     FailExportKeeps DEF Exporting
<1>7. ASSUME NEW o \in Operation, Kill(o) PROVE PInv'
  BY <1>7, KillKeeps
<1>8. CASE UNCHANGED allvars
  <2>1. UNCHANGED <<vars, born, captureVars, proofVars, exportVars, task, day>>
    BY <1>8 DEF allvars
  <2>2. day' \in Nat
    BY <2>1 DEF PInv, Windows
  <2> QED  BY <2>1, <2>2, DayKeeps
<1> QED  BY <1>1, <1>2, <1>3, <1>4, <1>5, <1>6, <1>7, <1>8 DEF ProofNext

(* The inductive invariant: that of the cases, types, the properties below, *)
(* and what a call has achieved when it takes its next step.                *)
THEOREM ProofInvariantHolds == ProofSpec => []PInv
<1>1. ProofInit => PInv
  BY ProofInitHolds, IndustrialClaimsAssumption
<1>2. PInv /\ [ProofNext]_allvars => PInv'
  BY ProofStepKeeps, IndustrialClaimsAssumption
<1> QED  BY <1>1, <1>2, PTL DEF ProofSpec

LEMMA StepsOfTheCase == ASSUME [ProofNext]_allvars PROVE [Next]_vars
<1>1. CASE CaseRequest
  BY <1>1 DEF CaseRequest
<1>2. CASE NextDay \/ \E id \in Id : OpenWindow(id)
  BY <1>2 DEF NextDay, OpenWindow
<1>3. ASSUME NEW o \in Operation, Capturing(o) PROVE UNCHANGED vars
  BY <1>3 DEF Capturing, BeginFact, BeginSupplement, BeginEntry, StampSheet, CommitFact,
              CommitSupplement, RecordDownload, Proceed
<1>4. ASSUME NEW o \in Operation, Externalizing(o) PROVE UNCHANGED vars
  BY <1>4 DEF Externalizing, BeginExternalize, StartOperation, AskProviders, Rebuild,
              ArchiveOperation, CompleteOperation, FailOperation, Proceed
<1>5. ASSUME NEW o \in Operation, Exporting(o) PROVE UNCHANGED vars
  BY <1>5 DEF Exporting, BeginExport, StartExport, CompleteExport, Release, FailExport,
              Proceed
<1>6. ASSUME NEW o \in Operation, Kill(o) PROVE UNCHANGED vars
  BY <1>6 DEF Kill, Proceed
<1>7. CASE UNCHANGED allvars
  BY <1>7 DEF allvars
<1> QED  BY <1>1, <1>2, <1>3, <1>4, <1>5, <1>6, <1>7 DEF ProofNext

(* Proofs, exports and captures change nothing of the case: a system with   *)
(* them is an IndustrialClaims, and what is proved of that holds of it.     *)
THEOREM CasesAreIndustrialClaims == ProofSpec => Spec
<1>1. ProofInit => Init
  BY DEF ProofInit
<1>2. [ProofNext]_allvars => [Next]_vars
  BY StepsOfTheCase
<1> QED  BY <1>1, <1>2, PTL DEF ProofSpec, Spec

(* Facts are recorded inside their window and late supplements after it,    *)
(* for any number of entries that overlap its end.                          *)
THEOREM ContemporaneousHolds == ProofSpec => []Contemporaneous
<1>1. PInv => Contemporaneous
  BY DEF PInv, Windows
<1> QED  BY <1>1, ProofInvariantHolds, PTL

(* Nothing leaves the program or is archived without its intent, for any    *)
(* number of operations that overlap, fail or are killed anywhere.          *)
THEOREM EffectsUnderIntentHolds == ProofSpec => []EffectsUnderIntent
<1>1. PInv => EffectsUnderIntent
  BY DEF PInv, Intents, Exports, Intended, HandedOut, EffectsUnderIntent
<1> QED  BY <1>1, ProofInvariantHolds, PTL

-----------------------------------------------------------------------------
LEMMA CasesBind ==
  ASSUME IndustrialClaimsAssumption, IInv, NEW id \in Id, RequireCurrent(id)
  PROVE  PackBound(id)
<1>1. finding[id] # None /\ finding[id] \in Finding
  BY DEF RequireCurrent, IInv, TypeOK
<1>2. DossierIntegrity(id)
  BY <1>1, ChainOpens, Pairs DEF DossierIntegrity, IInv, TypeOK
<1>3. CaseBound(id)
  <2>1. PICK basis : basis = finding[id].claim.basis
    OBVIOUS
  <2>2. CASE basis = Inline
    BY <2>1, <2>2 DEF CaseBound
  <2>3. CASE basis # Inline
    <3>1. basis \in {Inline} \cup [Role -> Evidence] /\ Captured(basis)
      BY <1>1, <2>1, RecordFields DEF IInv, Evidenced
    <3>2. PICK a \in Authorization : \A r \in Role :
            /\ envelope[basis[r]] # None
            /\ envelope[basis[r]] = [role |-> r, authorization |-> a]
      BY <2>3, <3>1, CapturedOriginals
    <3>3. \A r \in Role : /\ envelope[basis[r]] # None
                          /\ envelope[basis[r]].role = r
                          /\ envelope[basis[r]].authorization = a
      <4> TAKE r \in Role
      <4>1. PICK e : e = envelope[basis[r]]
        OBVIOUS
      <4>2. e # None /\ e = [role |-> r, authorization |-> a]
        BY <3>2, <4>1
      <4>3. e.role = r /\ e.authorization = a
        BY <4>2
      <4> QED  BY <4>1, <4>2, <4>3, Zenon
    <3>4. PICK r0 \in Role : TRUE
      BY ClaimProofsAssumption
    <3>5. {envelope[basis[r]].authorization : r \in Role} = {a}
      BY <3>3, <3>4
    <3>6. Cardinality({envelope[basis[r]].authorization : r \in Role}) = 1
      BY <3>5, FS_Singleton
    <3> QED  BY <2>1, <3>3, <3>6 DEF CaseBound
  <2> QED  BY <2>2, <2>3
<1>4. OutcomesBound(id)
  BY DEF OutcomesBound, OutcomesOf, IInv, Custody
<1>5. ResolvedOnce(id)
  <2> SUFFICES ASSUME OutcomesOf(id) # {}
               PROVE  Cardinality(OutcomesOf(id)) = 1 /\ finding[id].state \in Closed
    BY DEF ResolvedOnce
  <2>1. PICK o \in Outcome : outcome[o] # None /\ outcome[o].finding = id
    BY DEF OutcomesOf
  <2>2. OutcomesOf(id) = {o}
    BY <2>1 DEF OutcomesOf, IInv, RecoveredAsReviewed
  <2>3. finding[id].state \in Closed
    BY <2>1 DEF IInv, RecoveredAsReviewed
  <2> QED  BY <2>2, <2>3, FS_Singleton
<1> QED  BY <1>2, <1>3, <1>4, <1>5 DEF PackBound

(* The pack of every current finding binds, for any number of originals,    *)
(* revisions and overlapping requests.                                      *)
THEOREM PacksBoundHolds == ProofSpec => []PacksBound
<1>1. PInv => PacksBound
  BY CasesBind, IndustrialClaimsAssumption DEF PInv, PacksBound
<1> QED  BY <1>1, ProofInvariantHolds, PTL

-----------------------------------------------------------------------------
(* Whatever overlaps, an operation has no event before it is started, one   *)
(* while its call is under way, and a second one that closes it.  What the  *)
(* call archived is the operation's only row there, and stays it.           *)
Opened(o, target) ==
  \E i \in DOMAIN ledger : /\ EventsOf(ledger, o) = {i}
                           /\ ledger[i].state = "STARTED" /\ ledger[i].target = target

Sealed(o, row) ==
  /\ Archived(o) = {row.head}
  /\ archive[row.head].target = row.target /\ archive[row.head].receipts = row.receipts

ClosedWell(o) ==
  \E i, j \in DOMAIN ledger :
    /\ i < j /\ EventsOf(ledger, o) = {i, j}
    /\ ledger[i].state = "STARTED" /\ ledger[i].target = ledger[j].target
    /\ Sealed(o, ledger[j])

Underway == {"started", "asked", "proven", "archived"}

(* What the call of an operation has behind it.                             *)
Behind(o, me) ==
  /\ me.pc = "confirmed" => EventsOf(ledger, o) = {}
  /\ me.pc \in Underway => Opened(o, me.target)
  /\ me.pc \in {"asked", "proven"} => me.receipts \in Receipts
  /\ me.pc = "archived" => Sealed(o, me)

Conduct(o) ==
  /\ Completed(ledger, o) => ClosedWell(o)
  /\ task[o] # None => Behind(o, task[o])

Conducted == \A o \in Operation : Conduct(o)

(* A finding is dated when it is created.                                   *)
Dated == \A id \in Id : (born[id] = None) <=> (finding[id] = None)

Witnessed == \A i \in DOMAIN archive : archive[i].receipts \in Receipts

(* No row of an operation is added to the ledger or to the archive.         *)
Kept(o) ==
  /\ EventsOf(ledger', o) = EventsOf(ledger, o) /\ Archived(o)' = Archived(o)
  /\ \A i \in EventsOf(ledger, o) : ledger'[i] = ledger[i]
  /\ \A i \in Archived(o) : archive'[i] = archive[i]

LEMMA KeptStays ==
  ASSUME NEW o \in Operation, Kept(o)
  PROVE  /\ Completed(ledger', o) <=> Completed(ledger, o)
         /\ \A target : Opened(o, target) => Opened(o, target)'
         /\ \A row : Sealed(o, row) => Sealed(o, row)'
         /\ ClosedWell(o) => ClosedWell(o)'
<1>1. \A i \in DOMAIN ledger : ledger[i].op = o => i \in DOMAIN ledger' /\ ledger'[i] = ledger[i]
  BY DEF Kept, EventsOf
<1>2. \A i \in DOMAIN ledger' : ledger'[i].op = o => i \in DOMAIN ledger /\ ledger'[i] = ledger[i]
  BY DEF Kept, EventsOf
<1>3. Completed(ledger', o) <=> Completed(ledger, o)
  BY <1>1, <1>2 DEF Completed
<1>4. ASSUME NEW i \in EventsOf(ledger, o)
      PROVE  i \in DOMAIN ledger' /\ ledger'[i] = ledger[i]
  BY <1>1 DEF EventsOf
<1>5. ASSUME NEW target, Opened(o, target) PROVE Opened(o, target)'
  <2>1. PICK i : /\ EventsOf(ledger, o) = {i}
                 /\ ledger[i].state = "STARTED" /\ ledger[i].target = target
    BY <1>5 DEF Opened
  <2>2. i \in DOMAIN ledger' /\ ledger'[i] = ledger[i] /\ EventsOf(ledger', o) = {i}
    BY <1>4, <2>1 DEF Kept
  <2> QED  BY <2>1, <2>2 DEF Opened
<1>6. ASSUME NEW row, Sealed(o, row) PROVE Sealed(o, row)'
  BY <1>6 DEF Sealed, Kept
<1>7. ASSUME ClosedWell(o) PROVE ClosedWell(o)'
  <2>1. PICK i, j : /\ i < j /\ EventsOf(ledger, o) = {i, j}
                    /\ ledger[i].state = "STARTED" /\ ledger[i].target = ledger[j].target
                    /\ Sealed(o, ledger[j])
    BY <1>7 DEF ClosedWell
  <2>2. /\ i \in DOMAIN ledger' /\ ledger'[i] = ledger[i]
        /\ j \in DOMAIN ledger' /\ ledger'[j] = ledger[j] /\ EventsOf(ledger', o) = {i, j}
    BY <1>4, <2>1 DEF Kept
  <2>3. PICK row : row = ledger[j]
    OBVIOUS
  <2>4. Sealed(o, row)'
    BY <1>6, <2>1, <2>3
  <2>5. Sealed(o, ledger[j])'
    BY <2>2, <2>3, <2>4 DEF Sealed
  <2> QED  BY <2>1, <2>2, <2>5 DEF ClosedWell
<1> QED  BY <1>3, <1>5, <1>6, <1>7

LEMMA BehindStays ==
  ASSUME NEW o \in Operation, NEW me, Kept(o), Behind(o, me)
  PROVE  Behind(o, me)'
<1>1. EventsOf(ledger', o) = EventsOf(ledger, o)
  BY DEF Kept
<1> QED  BY <1>1, KeptStays DEF Behind

LEMMA ConductStays ==
  ASSUME NEW o \in Operation, Kept(o), Conduct(o), UNCHANGED task[o]
  PROVE  Conduct(o)'
<1>1. task[o] # None => Behind(o, task[o])'
  BY BehindStays DEF Conduct
<1>2. Completed(ledger', o) => ClosedWell(o)'
  BY KeptStays DEF Conduct
<1> QED  BY <1>1, <1>2 DEF Conduct, Behind, Opened, Sealed

(* A row of one operation does not touch the others.                        *)
Appended(log, row, after, n) ==
  /\ n \in DOMAIN after /\ after[n] = row
  /\ \A i \in DOMAIN log : i \in DOMAIN after /\ i < n /\ after[i] = log[i]
  /\ \A o : row.op # o => EventsOf(after, o) = EventsOf(log, o)
  /\ EventsOf(after, row.op) = EventsOf(log, row.op) \cup {n}

LEMMA EventAppended ==
  ASSUME NEW log \in Seq(Row), NEW row \in Row
  PROVE  Appended(log, row, Append(log, row), Len(log) + 1)
<1>1. PICK n, after : n = Len(log) + 1 /\ after = Append(log, row)
  OBVIOUS
<1>2. /\ \A i \in DOMAIN log : i \in DOMAIN after /\ i < n /\ after[i] = log[i]
      /\ \A i \in DOMAIN after : i \in DOMAIN log \/ i = n
      /\ n \in DOMAIN after /\ after[n] = row
  BY <1>1
<1>3. Appended(log, row, after, n)
  BY <1>2 DEF EventsOf, Appended
<1> QED  BY <1>1, <1>3

LEMMA Distinguishes ==
  ASSUME Conducted, NEW o \in Operation, task[o] # None, task[o].pc \in Underway
  PROVE  /\ Opened(o, task[o].target) /\ ~Completed(ledger, o)
<1>1. Opened(o, task[o].target)
  BY DEF Conducted, Conduct, Behind
<1>2. PICK i \in DOMAIN ledger : EventsOf(ledger, o) = {i} /\ ledger[i].state = "STARTED"
  BY <1>1 DEF Opened
<1>3. ~Completed(ledger, o)
  BY <1>2 DEF Completed, EventsOf
<1> QED  BY <1>1, <1>3

(* A call that writes neither the ledger nor the archive.                   *)
LEMMA CalmConduct ==
  ASSUME Conducted, Tasks, UNCHANGED <<ledger, archive>>,
         NEW o \in Operation, NEW me, task' = [task EXCEPT ![o] = me],
         me # None => Behind(o, me)
  PROVE  Conducted'
<1>1. \A q \in Operation : Kept(q)
  BY DEF Kept, Archived
<1>2. task \in [Operation -> Task \cup {None}]
  BY DEF Tasks
<1>3. ASSUME NEW q \in Operation, q # o PROVE Conduct(q)'
  BY <1>1, <1>2, <1>3, ConductStays DEF Conducted
<1>4. Conduct(o)'
  <2>1. task'[o] = me
    BY <1>2
  <2>2. Completed(ledger', o) => ClosedWell(o)'
    BY <1>1, KeptStays DEF Conducted, Conduct
  <2>3. me # None => Behind(o, me)'
    BY <1>1, BehindStays
  <2>4. task'[o] # None => Behind(o, task[o])'
    BY <2>1, <2>3 DEF Behind, Opened, Sealed
  <2> QED  BY <2>2, <2>4 DEF Conduct
<1> QED  BY <1>3, <1>4 DEF Conducted

LEMMA QuietConduct ==
  ASSUME Conducted, UNCHANGED <<ledger, archive, task>>
  PROVE  Conducted'
<1>1. \A q \in Operation : Kept(q)
  BY DEF Kept, Archived
<1> QED  BY <1>1, ConductStays DEF Conducted

(* Entries, exports, and calls that end are none of the ledger's business.  *)
LEMMA OtherConduct ==
  ASSUME PInv, Conducted, NEW o \in Operation, Capturing(o) \/ Exporting(o) \/ Kill(o)
  PROVE  Conducted'
<1> DEFINE Away == {"fact", "late", "sheet", "export", "reading", "bundled"}
<1>1. UNCHANGED <<ledger, archive>>
  BY DEF Capturing, BeginFact, BeginSupplement, BeginEntry, StampSheet, CommitFact,
         CommitSupplement, RecordDownload, Exporting, BeginExport, StartExport,
         CompleteExport, Release, FailExport, Kill, proofVars
<1>2. PICK me : task' = [task EXCEPT ![o] = me] /\ (me # None => me.pc \in Away)
  <2>1. CASE Capturing(o) \/ Kill(o)
    BY <2>1 DEF Capturing, BeginFact, BeginSupplement, BeginEntry, StampSheet, CommitFact,
                CommitSupplement, RecordDownload, Kill, Proceed
  <2>2. ASSUME NEW id \in Id, BeginExport(o, id)
        PROVE  \E me : task' = [task EXCEPT ![o] = me] /\ (me # None => me.pc \in Away)
    <3>1. PICK me : me = [pc |-> "export", id |-> id, target |-> Target(id),
                          head |-> 0, receipts |-> None]
      OBVIOUS
    <3>2. me.pc = "export"
      BY <3>1
    <3>3. task' = [task EXCEPT ![o] = me]
      BY <2>2, <3>1 DEF BeginExport, Proceed
    <3> QED  BY <3>2, <3>3
  <2>3. CASE Release(o) \/ FailExport(o)
    BY <2>3 DEF Release, FailExport, Proceed
  <2>4. CASE StartExport(o) \/ CompleteExport(o)
    <3>1. PICK pc \in {"reading", "bundled"} :
            task' = [task EXCEPT ![o] = [task[o] EXCEPT !.pc = pc]]
      BY <2>4 DEF StartExport, CompleteExport, Proceed
    <3>2. task[o] # None /\ task[o].pc \in {"export", "reading"}
      BY <2>4 DEF StartExport, CompleteExport
    <3>3. task[o] \in Task /\ task[o].pc \in Steps
      BY <3>2 DEF PInv, Tasks, Steps
    <3>4. [task[o] EXCEPT !.pc = pc].pc = pc
      BY <3>3, TaskMoved DEF Steps
    <3> QED  BY <3>1, <3>4
  <2> QED  BY <2>1, <2>2, <2>3, <2>4 DEF Exporting
<1>3. me # None => Behind(o, me)
  BY <1>2 DEF Behind, Underway
<1> QED  BY <1>1, <1>2, <1>3, CalmConduct DEF PInv

LEMMA BeginConduct ==
  ASSUME PInv, Conducted, NEW o \in Operation, NEW id \in Id, BeginExternalize(o, id)
  PROVE  Conducted'
<1>1. PICK target : target = Target(id)
  OBVIOUS
<1> DEFINE me == [pc |-> "confirmed", id |-> id, target |-> target,
                  head |-> 0, receipts |-> None]
<1>2. task' = [task EXCEPT ![o] = me] /\ UNCHANGED <<ledger, archive>>
      /\ EventsOf(ledger, o) = {}
  BY <1>1 DEF BeginExternalize, Proceed, Fresh, proofVars
<1>3. Behind(o, me)
  BY <1>2 DEF Behind, Underway
<1> QED  BY <1>2, <1>3, CalmConduct DEF PInv

LEMMA StartConduct ==
  ASSUME PInv, Conducted, NEW o \in Operation, StartOperation(o)
  PROVE  Conducted'
<1>1. PICK me, row, next :
        me = task[o] /\ row = Event(me, o, "STARTED") /\ next = [me EXCEPT !.pc = "started"]
  OBVIOUS
<1>2. me # None /\ me.pc = "confirmed" /\ me.pc \in Steps /\ "started" \in Steps
  BY <1>1 DEF StartOperation, Steps
<1>3. me \in Task
  BY <1>1, <1>2, RunningTask
<1>4. row \in Row /\ row.op = o /\ row.state = "STARTED" /\ row.target = me.target
  BY <1>1, <1>2, <1>3, EventTyped
<1>5. next.pc = "started" /\ next.target = me.target
  BY <1>1, <1>2, <1>3, TaskMoved
<1>6. /\ ledger' = Append(ledger, row) /\ task' = [task EXCEPT ![o] = next]
      /\ UNCHANGED archive /\ ledger \in Seq(Row)
      /\ task \in [Operation -> Task \cup {None}]
  BY <1>1 DEF StartOperation, Proceed, PInv, Tasks, Intents
<1>7. PICK n : n = Len(ledger) + 1
  OBVIOUS
<1>8. /\ n \in DOMAIN ledger' /\ ledger'[n] = row
      /\ \A i \in DOMAIN ledger : i \in DOMAIN ledger' /\ i < n /\ ledger'[i] = ledger[i]
      /\ \A q : row.op # q => EventsOf(ledger', q) = EventsOf(ledger, q)
      /\ EventsOf(ledger', row.op) = EventsOf(ledger, row.op) \cup {n}
  <2>1. Appended(ledger, row, ledger', n)
    BY <1>4, <1>6, <1>7, EventAppended
  <2> QED  BY <2>1 DEF Appended
<1>9. ASSUME NEW q \in Operation, q # o PROVE Conduct(q)'
  <2>1. Kept(q)
    BY <1>4, <1>6, <1>8, <1>9 DEF Kept, Archived, EventsOf
  <2> QED  BY <1>6, <1>9, <2>1, ConductStays DEF Conducted
<1>10. Conduct(o)'
  <2>1. EventsOf(ledger', o) = {n}
    BY <1>1, <1>2, <1>4, <1>8 DEF Conducted, Conduct, Behind
  <2>2. ~Completed(ledger', o)
    BY <1>4, <1>8, <2>1 DEF Completed, EventsOf
  <2>3. Opened(o, me.target)'
    <3>1. \E i \in DOMAIN ledger' : /\ EventsOf(ledger', o) = {i}
                                    /\ ledger'[i].state = "STARTED"
                                    /\ ledger'[i].target = me.target
      BY <1>4, <1>8, <2>1
    <3>2. PICK target : target = me.target
      OBVIOUS
    <3> QED  BY <1>1, <3>1 DEF Opened
  <2>4. task'[o] = next
    BY <1>6
  <2> QED  BY <1>5, <2>2, <2>3, <2>4 DEF Conduct, Behind, Underway, Opened
<1> QED  BY <1>9, <1>10 DEF Conducted

LEMMA AskConduct ==
  ASSUME PInv, Conducted, NEW o \in Operation, AskProviders(o) \/ Rebuild(o)
  PROVE  Conducted'
<1>1. PICK me : me = task[o]
  OBVIOUS
<1>2. me # None /\ me.pc \in Underway /\ me.pc \in Steps
  BY <1>1 DEF AskProviders, Rebuild, MayAsk, Underway, Steps
<1>3. me \in Work /\ Opened(o, me.target) /\ UNCHANGED <<ledger, archive>>
  BY <1>1, <1>2, RunningTask, WorkTask, Distinguishes DEF AskProviders, Rebuild, proofVars
<1>4. PICK pc, r, next :
        /\ pc \in {"asked", "proven"} /\ r \in Receipts
        /\ next = [me EXCEPT !.pc = pc, !.receipts = r]
        /\ task' = [task EXCEPT ![o] = next]
  <2>1. CASE AskProviders(o)
    BY <1>1, <2>1 DEF AskProviders, Proceed
  <2>2. CASE Rebuild(o)
    <3>1. me.receipts \in Receipts
      BY <1>1, <2>2 DEF Rebuild, Conducted, Conduct, Behind
    <3>2. [me EXCEPT !.pc = "proven"] = [me EXCEPT !.pc = "proven", !.receipts = me.receipts]
      BY <1>3 DEF Work
    <3> QED  BY <1>1, <2>2, <3>1, <3>2 DEF Rebuild, Proceed
  <2> QED  BY <2>1, <2>2
<1>5. next.pc = pc /\ next.receipts = r /\ next.target = me.target
  BY <1>3, <1>4 DEF Work
<1>6. Behind(o, next)
  BY <1>3, <1>4, <1>5 DEF Behind
<1> QED  BY <1>3, <1>4, <1>6, CalmConduct DEF PInv

LEMMA ArchiveConduct ==
  ASSUME PInv, Conducted, NEW o \in Operation, ArchiveOperation(o)
  PROVE  Conducted'
<1>1. PICK me, row, n, next :
        /\ me = task[o] /\ n = Len(archive) + 1
        /\ row = [op |-> o, target |-> me.target, receipts |-> me.receipts]
        /\ next = [me EXCEPT !.pc = "archived", !.head = n]
  OBVIOUS
<1>2. /\ me # None /\ me.pc = "proven" /\ me.pc \in Steps /\ me.pc \in Underway
      /\ Archived(o) = {}
  BY <1>1 DEF ArchiveOperation, Steps, Underway
<1>3. me \in Work /\ me.receipts \in Receipts /\ me.target \in Targets
  BY <1>1, <1>2, RunningTask, WorkTask DEF Conducted, Conduct, Behind
<1>4. Opened(o, me.target) /\ ~Completed(ledger, o)
  BY <1>1, <1>2, Distinguishes
<1>5. row \in ArchiveRow /\ archive \in Seq(ArchiveRow)
  BY <1>1, <1>3 DEF ArchiveRow, PInv, Intents
<1>6. /\ next.pc = "archived" /\ next.head = n /\ next.target = me.target
      /\ next.receipts = me.receipts
  BY <1>1, <1>3 DEF Work
<1>7. /\ archive' = Append(archive, row) /\ task' = [task EXCEPT ![o] = next]
      /\ UNCHANGED ledger /\ task \in [Operation -> Task \cup {None}]
  BY <1>1 DEF ArchiveOperation, Proceed, PInv, Tasks
<1>8. /\ n \in DOMAIN archive' /\ archive'[n] = row
      /\ \A i \in DOMAIN archive : i \in DOMAIN archive' /\ archive'[i] = archive[i]
      /\ \A i \in DOMAIN archive' : i \in DOMAIN archive \/ i = n
  BY <1>1, <1>5, <1>7
<1>9. row.op = o /\ row.target = me.target /\ row.receipts = me.receipts
  BY <1>1
<1>10. ASSUME NEW q \in Operation, q # o PROVE Conduct(q)'
  <2>1. Archived(q)' = Archived(q) /\ \A i \in Archived(q) : archive'[i] = archive[i]
    BY <1>8, <1>9, <1>10 DEF Archived
  <2>2. Kept(q)
    BY <1>7, <2>1 DEF Kept
  <2> QED  BY <1>7, <1>10, <2>2, ConductStays DEF Conducted
<1>11. Conduct(o)'
  <2>1. Archived(o)' = {n}
    BY <1>2, <1>8, <1>9 DEF Archived
  <2>2. Sealed(o, next)'
    <3>1. Archived(o)' = {next.head} /\ archive'[next.head] = row
      BY <1>6, <1>8, <2>1
    <3> QED  BY <1>6, <1>9, <3>1 DEF Sealed
  <2>3. Opened(o, me.target)'
    BY <1>4, <1>7 DEF Opened
  <2>4. task'[o] = next
    BY <1>7
  <2>5. Behind(o, next)'
    BY <1>6, <2>2, <2>3 DEF Behind, Opened, Underway
  <2>6. ~Completed(ledger', o)
    BY <1>4, <1>7
  <2> QED  BY <2>4, <2>5, <2>6 DEF Conduct, Behind, Opened, Sealed
<1> QED  BY <1>10, <1>11 DEF Conducted

LEMMA CloseConduct ==
  ASSUME PInv, Conducted, NEW o \in Operation, CompleteOperation(o) \/ FailOperation(o)
  PROVE  Conducted'
<1>1. PICK me : me = task[o]
  OBVIOUS
<1>2. PICK state \in {"COMPLETED", "FAILED"} :
        /\ me # None /\ me.pc \in Underway /\ me.pc \in Steps
        /\ state = "COMPLETED" => me.pc = "archived"
        /\ ledger' = Append(ledger, Event(me, o, state))
        /\ task' = [task EXCEPT ![o] = None] /\ UNCHANGED archive
  BY <1>1 DEF CompleteOperation, FailOperation, Proceed, Steps, Underway
<1>3. PICK row, n : row = Event(me, o, state) /\ n = Len(ledger) + 1
  OBVIOUS
<1>4. me \in Task
  BY <1>1, <1>2, RunningTask
<1>5. /\ row \in Row /\ row.op = o /\ row.state = state /\ row.target = me.target
      /\ row.head = me.head /\ row.receipts = me.receipts
  BY <1>2, <1>3, <1>4, EventTyped DEF Event
<1>6. ledger \in Seq(Row) /\ ledger' = Append(ledger, row)
      /\ task \in [Operation -> Task \cup {None}]
  BY <1>2, <1>3 DEF PInv, Intents, Tasks
<1>7. /\ n \in DOMAIN ledger' /\ ledger'[n] = row
      /\ \A i \in DOMAIN ledger : i \in DOMAIN ledger' /\ i < n /\ ledger'[i] = ledger[i]
      /\ \A q : o # q => EventsOf(ledger', q) = EventsOf(ledger, q)
      /\ EventsOf(ledger', o) = EventsOf(ledger, o) \cup {n}
  <2>1. Appended(ledger, row, ledger', n)
    BY <1>3, <1>5, <1>6, EventAppended
  <2> QED  BY <1>5, <2>1 DEF Appended
<1>8. ASSUME NEW q \in Operation, q # o PROVE Conduct(q)'
  <2>1. Kept(q)
    BY <1>2, <1>7, <1>8 DEF Kept, Archived, EventsOf
  <2> QED  BY <1>2, <1>6, <1>8, <2>1, ConductStays DEF Conducted
<1>9. PICK i \in DOMAIN ledger :
        EventsOf(ledger, o) = {i} /\ ledger[i].state = "STARTED" /\ ledger[i].target = me.target
  BY <1>1, <1>2, Distinguishes DEF Opened
<1>10. /\ EventsOf(ledger', o) = {i, n} /\ i < n /\ i \in DOMAIN ledger'
       /\ ledger'[i].state = "STARTED" /\ ledger'[i].target = me.target
  BY <1>7, <1>9
<1>11. Completed(ledger', o) => ClosedWell(o)'
  <2> SUFFICES ASSUME Completed(ledger', o) PROVE ClosedWell(o)'
    OBVIOUS
  <2>1. PICK k \in DOMAIN ledger' : ledger'[k].op = o /\ ledger'[k].state = "COMPLETED"
    BY DEF Completed
  <2>2. k = n
    BY <1>10, <2>1 DEF EventsOf
  <2>3. Sealed(o, me)
    BY <1>1, <1>2, <1>5, <1>7, <2>1, <2>2 DEF Conducted, Conduct, Behind
  <2>4. Sealed(o, row)'
    BY <1>2, <1>5, <2>3 DEF Sealed, Archived
  <2>5. Sealed(o, ledger[n])'
    BY <1>3, <1>7, <2>4 DEF Sealed
  <2> QED  BY <1>5, <1>7, <1>10, <2>5 DEF ClosedWell
<1>12. task'[o] = None
  BY <1>2, <1>6
<1>13. Conduct(o)'
  BY <1>11, <1>12 DEF Conduct
<1> QED  BY <1>8, <1>13 DEF Conducted

LEMMA CaseConduct ==
  ASSUME PInv, Conducted, CaseRequest \/ NextDay \/ \E id \in Id : OpenWindow(id)
  PROVE  Conducted'
<1>1. UNCHANGED <<ledger, archive, task>>
  BY DEF CaseRequest, NextDay, OpenWindow, proofVars
<1> QED  BY <1>1, QuietConduct

LEMMA ConductedStep == PInv /\ Conducted /\ [ProofNext]_allvars => Conducted'
<1> SUFFICES ASSUME PInv, Conducted, [ProofNext]_allvars PROVE Conducted'
  OBVIOUS
<1>1. CASE CaseRequest \/ NextDay \/ \E id \in Id : OpenWindow(id)
  BY <1>1, CaseConduct
<1>2. ASSUME NEW o \in Operation, Capturing(o) \/ Exporting(o) \/ Kill(o) PROVE Conducted'
  BY <1>2, OtherConduct
<1>3. ASSUME NEW o \in Operation, Externalizing(o) PROVE Conducted'
  BY <1>3, BeginConduct, StartConduct, AskConduct, ArchiveConduct, CloseConduct
     DEF Externalizing
<1>4. CASE UNCHANGED allvars
  BY <1>4, QuietConduct DEF allvars, proofVars
<1> QED  BY <1>1, <1>2, <1>3, <1>4 DEF ProofNext

LEMMA ConductedInit == ProofInit => Conducted
BY DEF ProofInit, Conducted, Conduct, Completed

LEMMA DatedStep == PInv /\ Dated /\ [ProofNext]_allvars => Dated'
<1> SUFFICES ASSUME PInv, Dated, [ProofNext]_allvars PROVE Dated'
  OBVIOUS
<1>1. CASE CaseRequest
  <2>1. \A id \in Id : finding[id] # None => finding'[id] # None
    <3>1. Stand
      BY <1>1, StepKeeps, IndustrialClaimsAssumption DEF CaseRequest, PInv
    <3> QED  BY <3>1 DEF Stand, DecisionStands
  <2>2. day # None
    BY ClaimProofsAssumption DEF PInv, Windows
  <2>3. \A id \in Id : born'[id] = IF born[id] = None /\ finding'[id] # None THEN day ELSE born[id]
    BY <1>1 DEF CaseRequest
  <2> QED  BY <2>1, <2>2, <2>3 DEF Dated
<1>2. CASE ~CaseRequest
  <2>1. UNCHANGED <<finding, born>>
    <3>1. CASE NextDay \/ \E id \in Id : OpenWindow(id)
      BY <3>1 DEF NextDay, OpenWindow, vars
    <3>2. ASSUME NEW o \in Operation, Capturing(o) PROVE UNCHANGED <<vars, born>>
      BY <3>2 DEF Capturing, BeginFact, BeginSupplement, BeginEntry, StampSheet, CommitFact,
                  CommitSupplement, RecordDownload, Proceed
    <3>3. ASSUME NEW o \in Operation, Externalizing(o) PROVE UNCHANGED <<vars, born>>
      BY <3>3 DEF Externalizing, BeginExternalize, StartOperation, AskProviders, Rebuild,
                  ArchiveOperation, CompleteOperation, FailOperation, Proceed
    <3>4. ASSUME NEW o \in Operation, Exporting(o) \/ Kill(o) PROVE UNCHANGED <<vars, born>>
      BY <3>4 DEF Exporting, BeginExport, StartExport, CompleteExport, Release, FailExport,
                  Kill, Proceed
    <3>5. CASE UNCHANGED allvars
      BY <3>5 DEF allvars, vars
    <3> QED  BY <1>2, <3>1, <3>2, <3>3, <3>4, <3>5 DEF ProofNext, vars
  <2> QED  BY <2>1 DEF Dated
<1> QED  BY <1>1, <1>2

LEMMA WitnessedStep == PInv /\ Conducted /\ Witnessed /\ [ProofNext]_allvars => Witnessed'
<1> SUFFICES ASSUME PInv, Conducted, Witnessed, [ProofNext]_allvars PROVE Witnessed'
  OBVIOUS
<1>1. ASSUME NEW o \in Operation, ArchiveOperation(o) PROVE Witnessed'
  <2>1. PICK me, row :
          me = task[o] /\ row = [op |-> o, target |-> me.target, receipts |-> me.receipts]
    OBVIOUS
  <2>2. /\ me # None /\ me.pc = "proven" /\ me.pc \in Steps
        /\ archive' = Append(archive, row)
    BY <1>1, <2>1 DEF ArchiveOperation, Steps
  <2>3. /\ me.receipts \in Receipts /\ me.target \in Targets /\ row.receipts = me.receipts
    BY <2>1, <2>2, RunningTask DEF Conducted, Conduct, Behind
  <2>4. row \in ArchiveRow /\ archive \in Seq(ArchiveRow)
    BY <2>1, <2>3 DEF ArchiveRow, PInv, Intents
  <2>5. \A i \in DOMAIN archive' :
          (i \in DOMAIN archive /\ archive'[i] = archive[i]) \/ archive'[i] = row
    BY <2>2, <2>4, AppendRow
  <2> QED  BY <2>3, <2>5 DEF Witnessed
<1>2. CASE UNCHANGED archive
  BY <1>2 DEF Witnessed
<1>3. ASSUME NEW o \in Operation, Capturing(o) \/ Exporting(o) \/ Kill(o)
      PROVE  UNCHANGED archive
  BY <1>3 DEF Capturing, BeginFact, BeginSupplement, BeginEntry, StampSheet, CommitFact,
         CommitSupplement, RecordDownload, Exporting, BeginExport, StartExport,
         CompleteExport, Release, FailExport, Kill, proofVars
<1>4. ASSUME NEW o \in Operation, Externalizing(o), ~ArchiveOperation(o)
      PROVE  UNCHANGED archive
  BY <1>4 DEF Externalizing, BeginExternalize, StartOperation, AskProviders, Rebuild,
              CompleteOperation, FailOperation, proofVars
<1>5. CASE CaseRequest \/ NextDay \/ (\E id \in Id : OpenWindow(id)) \/ UNCHANGED allvars
  BY <1>2, <1>5 DEF CaseRequest, NextDay, OpenWindow, allvars, proofVars
<1> QED  BY <1>1, <1>2, <1>3, <1>4, <1>5 DEF ProofNext

(* The types of the tables, and that findings are dated when they are       *)
(* created.                                                                 *)
THEOREM ProofTypeCorrect == ProofSpec => []ProofTypeOK
<1> DEFINE All == PInv /\ Conducted /\ Dated /\ Witnessed
<1>1. ProofInit => All
  <2>1. ProofInit => Dated /\ Witnessed
    BY DEF ProofInit, Init, Dated, Witnessed
  <2> QED  BY <2>1, ProofInitHolds, ConductedInit, IndustrialClaimsAssumption
<1>2. All /\ [ProofNext]_allvars => All'
  BY ProofStepKeeps, ConductedStep, DatedStep, WitnessedStep, IndustrialClaimsAssumption
<1>3. All => ProofTypeOK
  BY DEF PInv, IInv, Windows, Dated, Witnessed, ProofTypeOK
<1> QED  BY <1>1, <1>2, <1>3, PTL DEF ProofSpec

LEMMA ConductVerifies ==
  ASSUME PInv, Conducted, NEW o \in Operation, Completed(ledger, o)
  PROVE  IntegrityValid(o)
<1>1. PICK i \in DOMAIN ledger, j \in DOMAIN ledger :
        /\ i < j /\ EventsOf(ledger, o) = {i, j}
        /\ ledger[i].state = "STARTED" /\ ledger[i].target = ledger[j].target
        /\ Sealed(o, ledger[j])
  BY DEF Conducted, Conduct, ClosedWell
<1>2. ledger \in Seq(Row) /\ i \in Nat /\ j \in Nat
  BY DEF PInv, Intents
<1>3. PICK row \in Row : row = ledger[j]
  BY <1>2
<1>4. row.head \in Nat
  BY DEF Row
<1>5. /\ Archived(o) = {row.head} /\ archive[row.head].target = row.target
      /\ archive[row.head].receipts = row.receipts
  BY <1>1, <1>3 DEF Sealed
<1>6. OperationHead(o) = row.head
  BY <1>4, <1>5 DEF OperationHead
<1>7. Cardinality({i, j}) = 2
  <2>1. {i, j} = {i} \cup {j} /\ j \notin {i}
    BY <1>1, <1>2
  <2>2. IsFiniteSet({i}) /\ Cardinality({i}) = 1
    BY FS_Singleton
  <2>3. Cardinality({i} \cup {j}) = 1 + 1
    BY <2>1, <2>2, FS_AddElement
  <2> QED  BY <2>1, <2>3
<1>8. \E first \in EventsOf(ledger, o) :
        /\ ledger[first].state = "STARTED"
        /\ \A k \in EventsOf(ledger, o) : first <= k /\ ledger[k].target = ledger[first].target
  BY <1>1, <1>2
<1>9. \A last \in EventsOf(ledger, o) : (\A k \in EventsOf(ledger, o) : k <= last) => last = j
  BY <1>1, <1>2
<1>10. \E k \in Archived(o) : archive[k].target = row.target /\ archive[k].receipts = row.receipts
  BY <1>5
<1> QED  BY <1>1, <1>3, <1>6, <1>7, <1>8, <1>9, <1>10 DEF IntegrityValid

(* A completed operation verifies for good, for any number of operations    *)
(* over any targets that overlap, fail or are killed anywhere               *)
(* (proof_externalization_integrity.py:62): the archive's rows of other     *)
(* operations are never taken for its own.                                  *)
THEOREM CompletedVerifyHolds == ProofSpec => []CompletedVerify
<1>1. ProofInit => PInv /\ Conducted
  BY ProofInitHolds, ConductedInit, IndustrialClaimsAssumption
<1>2. PInv /\ Conducted /\ [ProofNext]_allvars => PInv' /\ Conducted'
  BY ProofStepKeeps, ConductedStep, IndustrialClaimsAssumption
<1>3. PInv /\ Conducted => CompletedVerify
  BY ConductVerifies DEF CompletedVerify
<1> QED  BY <1>1, <1>2, <1>3, PTL DEF ProofSpec
=============================================================================
